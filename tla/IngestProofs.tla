---------------------------- MODULE IngestProofs ----------------------------
(***************************************************************************)
(* Safety of Ingest for any number of requests, lines and organizations.   *)
(* Stage(r) says which rows the handler of r has written at each point of  *)
(* it and which of them a committed transaction may have left; a step      *)
(* changes the stage of its own request only, a crash or a startup that of *)
(* each request alike.                                                     *)
(***************************************************************************)
EXTENDS Ingest, AlertEngineProofs, FiniteSetTheorems

AlertNames ==
  {"HIGH_SEVERITY", "ANOMALY", "ERROR_BURST", "REPEATED_ANOMALY", "SECURITY_THREAT"}

\* The rows of a request before, during and after its handler's work on them.
Untouched(r) == analysis[r] = "none" /\ alert[r] = "NONE" /\ alertOrg[r] = NoOrg
AssignedOrSkipped(r) ==
  alert[r] # "NONE" /\ alertOrg[r] # org[r] => r \in skipped /\ alertOrg[r] \in {NoOrg, DefaultOrg}
NotifiedOwn(r) == r \in notified => alert[r] # "NONE" /\ alertOrg[r] = org[r]

Stage(r) ==
  /\ pc[r] \in {"new", "analyze"} => Untouched(r)
  /\ pc[r] = "evaluate" => alert[r] = "NONE"
  /\ pc[r] \in {"evaluate", "assign", "notify"} => analysis[r] # "none"
  /\ pc[r] = "assign" => alert[r] # "NONE" /\ alertOrg[r] = NoOrg
  /\ pc[r] = "notify" => alert[r] # "NONE" /\ alertOrg[r] = org[r]
  /\ pc[r] \in {"new", "analyze", "evaluate", "assign", "notify"} => r \notin notified
  /\ alert[r] # "NONE" => analysis[r] # "none"
  /\ alert[r] = "NONE" => alertOrg[r] = NoOrg
  /\ pc[r] = "new" \/ InTransaction(r) => r \notin logs
  /\ pc[r] = "answer" => r \in logs
  /\ pc[r] = "commit" \/ r \in logs => AssignedOrSkipped(r) /\ NotifiedOwn(r)

Answered(r) ==
  /\ pc[r] # "done" => answer[r] = "none"
  /\ answer[r] \in {"stored", "alerted"} => r \in logs

SafeInv == \A r \in Requests : Stage(r) /\ Answered(r)

\* The evidence evaluated is made of Boolean answers.
LEMMA LineIsEvidence ==
  ASSUME TypeOK, NEW r \in Requests
  PROVE  line[r].keyword \in BOOLEAN /\ line[r].confident \in BOOLEAN
<1>1. line[r] \in Lines
  BY DEF TypeOK
<1> QED BY <1>1, IngestConstants

LEMMA DecisionType ==
  ASSUME TypeOK, NEW r \in Requests, Decision(r).should_alert
  PROVE  Decision(r).alert_type \in AlertNames
<1> DEFINE e == [category |-> line[r].category, severity |-> line[r].severity,
                 confident |-> line[r].confident, keyword |-> line[r].keyword,
                 anomaly |-> analysis[r] = "anomaly",
                 errors |-> RecentErrors(r), anomalies |-> RecentAnomalies(r)]
<1>1. e.keyword \in BOOLEAN /\ e.confident \in BOOLEAN
  BY LineIsEvidence
<1>2. e.anomaly \in BOOLEAN
  OBVIOUS
<1>3. Decision(r) = EvaluateAlert(e)
  BY DEF Decision
<1> HIDE DEF e
<1>4. EvaluateAlert(e).should_alert
  BY <1>3
<1> QED BY <1>1, <1>2, <1>3, <1>4, AlertedTypes DEF AlertNames

LEMMA TypeInit == Init => TypeOK
BY IngestConstants DEF Init, TypeOK

LEMMA TypeStep == TypeOK /\ [Next]_vars => TypeOK'
<1> SUFFICES ASSUME TypeOK, [Next]_vars PROVE TypeOK'
  OBVIOUS
<1> USE DEF TypeOK, rowsOf, history
<1>1. CASE UNCHANGED vars
  BY <1>1 DEF vars
<1>2. CASE Crash
  BY <1>2 DEF Crash, RollBack
<1>3. CASE Startup
  BY <1>3, IngestConstants DEF Startup
<1>4. ASSUME NEW r \in Requests, Ages(r) PROVE TypeOK'
  BY <1>4, IngestConstants DEF Ages
<1>5. ASSUME NEW r \in Requests, Handle(r) PROVE TypeOK'
  <2>1. CASE Receive(r)
    BY <2>1 DEF Receive, Goto, Ends
  <2>2. CASE Analyze(r)
    BY <2>2 DEF Analyze, Goto
  <2>3. CASE AnalysisFails(r)
    BY <2>3 DEF AnalysisFails, Goto
  <2>4. CASE Evaluate(r)
    BY <2>4, DecisionType DEF Evaluate, Goto, ReadsEnd, AlertNames
  <2>5. CASE Assign(r)
    BY <2>5 DEF Assign, Goto
  <2>6. CASE Notify(r)
    BY <2>6 DEF Notify, Goto
  <2>7. CASE AlertFails(r)
    BY <2>7 DEF AlertFails, Goto, ReadsEnd
  <2>8. CASE Commit(r)
    BY <2>8 DEF Commit, Goto
  <2>9. CASE CommitFails(r)
    BY <2>9 DEF CommitFails, Ends, Goto, RollBack
  <2>10. CASE Answer(r)
    BY <2>10 DEF Answer, Ends, Goto
  <2>11. CASE ReplyLost(r)
    BY <2>11 DEF ReplyLost, Ends, Goto
  <2> QED BY <1>5, <2>1, <2>2, <2>3, <2>4, <2>5, <2>6, <2>7, <2>8, <2>9, <2>10, <2>11 DEF Handle
<1> QED BY <1>1, <1>2, <1>3, <1>4, <1>5 DEF Next

\* Every variable keeps its type.
THEOREM TypeCorrect == Spec => []TypeOK
BY TypeInit, TypeStep, PTL DEF Spec

----------------------------------------------------------------------------
\* Nothing of request r changes.
SameRequest(r) ==
  /\ pc'[r] = pc[r] /\ analysis'[r] = analysis[r] /\ alert'[r] = alert[r]
  /\ alertOrg'[r] = alertOrg[r] /\ answer'[r] = answer[r] /\ org'[r] = org[r]
  /\ (r \in logs') = (r \in logs)
  /\ (r \in notified') = (r \in notified)
  /\ (r \in skipped') = (r \in skipped)

LEMMA SameStays ==
  ASSUME NEW r \in Requests, Stage(r), Answered(r), SameRequest(r)
  PROVE  Stage(r)' /\ Answered(r)'
BY DEF Stage, Answered, SameRequest, Untouched, AssignedOrSkipped, NotifiedOwn, InTransaction

LEMMA OthersSame ==
  ASSUME TypeOK, NEW r \in Requests, NEW q \in Requests, q # r, Handle(r)
  PROVE  SameRequest(q)
<1> USE DEF TypeOK, rowsOf, history, SameRequest
<1>1. CASE Receive(r) BY <1>1 DEF Receive, Goto, Ends
<1>2. CASE Analyze(r) BY <1>2 DEF Analyze, Goto
<1>3. CASE AnalysisFails(r) BY <1>3 DEF AnalysisFails, Goto
<1>4. CASE Evaluate(r) BY <1>4 DEF Evaluate, Goto
<1>5. CASE Assign(r) BY <1>5 DEF Assign, Goto
<1>6. CASE Notify(r) BY <1>6 DEF Notify, Goto
<1>7. CASE AlertFails(r) BY <1>7 DEF AlertFails, Goto
<1>8. CASE Commit(r) BY <1>8 DEF Commit, Goto
<1>9. CASE CommitFails(r) BY <1>9 DEF CommitFails, Ends, Goto, RollBack
<1>10. CASE Answer(r) BY <1>10 DEF Answer, Ends, Goto
<1>11. CASE ReplyLost(r) BY <1>11 DEF ReplyLost, Ends, Goto
<1> QED BY <1>1, <1>2, <1>3, <1>4, <1>5, <1>6, <1>7, <1>8, <1>9, <1>10, <1>11 DEF Handle

LEMMA HandlerStage ==
  ASSUME TypeOK, NEW r \in Requests, Stage(r), Answered(r), Handle(r)
  PROVE  Stage(r)' /\ Answered(r)'
<1> USE DEF TypeOK, rowsOf, history, Stage, Answered, Untouched, AssignedOrSkipped,
            NotifiedOwn, InTransaction
<1>1. CASE Receive(r) BY <1>1 DEF Receive, Goto, Ends
<1>2. CASE Analyze(r) BY <1>2 DEF Analyze, Goto
<1>3. CASE AnalysisFails(r) BY <1>3 DEF AnalysisFails, Goto
<1>4. CASE Evaluate(r)
  <2>1. Decision(r).should_alert => Decision(r).alert_type # "NONE"
    BY DecisionType DEF AlertNames
  <2> QED BY <1>4, <2>1 DEF Evaluate, Goto
<1>5. CASE Assign(r) BY <1>5 DEF Assign, Goto
<1>6. CASE Notify(r) BY <1>6 DEF Notify, Goto
<1>7. CASE AlertFails(r) BY <1>7 DEF AlertFails, Goto
<1>8. CASE Commit(r) BY <1>8 DEF Commit, Goto
<1>9. CASE CommitFails(r) BY <1>9 DEF CommitFails, Ends, Goto, RollBack
<1>10. CASE Answer(r) BY <1>10 DEF Answer, Ends, Goto
<1>11. CASE ReplyLost(r) BY <1>11 DEF ReplyLost, Ends, Goto
<1> QED BY <1>1, <1>2, <1>3, <1>4, <1>5, <1>6, <1>7, <1>8, <1>9, <1>10, <1>11 DEF Handle

LEMMA CrashStage ==
  ASSUME TypeOK, NEW r \in Requests, Stage(r), Answered(r), Crash
  PROVE  Stage(r)' /\ Answered(r)'
<1>1. CASE InTransaction(r)
  BY <1>1 DEF TypeOK, Stage, Answered, Untouched, AssignedOrSkipped, NotifiedOwn,
              InTransaction, Crash, RollBack
<1>2. CASE ~InTransaction(r)
  <2>1. /\ analysis'[r] = analysis[r] /\ alert'[r] = alert[r] /\ alertOrg'[r] = alertOrg[r]
        /\ org' = org /\ logs' = logs /\ answer' = answer /\ notified' = notified
        /\ skipped' = skipped
    BY <1>2 DEF Crash, RollBack, InTransaction, history
  <2>2. pc'[r] = IF pc[r] \in {"new", "done"} THEN pc[r] ELSE "lost"
    BY DEF Crash
  <2> QED BY <2>1, <2>2 DEF Stage, Answered, Untouched, AssignedOrSkipped, NotifiedOwn,
                            InTransaction
<1> QED BY <1>1, <1>2

LEMMA StartupStage ==
  ASSUME TypeOK, NEW r \in Requests, Stage(r), Answered(r), Startup
  PROVE  Stage(r)' /\ Answered(r)'
<1>1. org[r] # NoOrg
  BY IngestConstants DEF TypeOK
<1>2. /\ pc' = pc /\ logs' = logs /\ analysis' = analysis /\ alert' = alert /\ org' = org
      /\ answer' = answer /\ notified' = notified /\ skipped' = skipped
      /\ alertOrg'[r] = IF Unassigned(r) THEN DefaultOrg ELSE alertOrg[r]
  BY DEF Startup, history
<1>3. CASE ~Unassigned(r)
  BY <1>2, <1>3, SameStays DEF SameRequest
<1>4. CASE Unassigned(r)
  BY <1>1, <1>2, <1>4 DEF Unassigned, Stage, Answered, Untouched, AssignedOrSkipped,
                          NotifiedOwn, InTransaction
<1> QED BY <1>3, <1>4

LEMMA SafeInit == Init => SafeInv
BY DEF Init, SafeInv, Stage, Answered, Untouched, AssignedOrSkipped, NotifiedOwn, InTransaction

LEMMA SafeStep == TypeOK /\ SafeInv /\ [Next]_vars => SafeInv'
<1> SUFFICES ASSUME TypeOK, SafeInv, [Next]_vars, NEW q \in Requests
             PROVE  Stage(q)' /\ Answered(q)'
  BY DEF SafeInv
<1>0. Stage(q) /\ Answered(q)
  BY DEF SafeInv
<1>1. CASE UNCHANGED vars
  BY <1>0, <1>1, SameStays DEF vars, rowsOf, history, SameRequest
<1>2. CASE Crash
  BY <1>0, <1>2, CrashStage
<1>3. CASE Startup
  BY <1>0, <1>3, StartupStage
<1>4. ASSUME NEW r \in Requests, Ages(r) PROVE Stage(q)' /\ Answered(q)'
  BY <1>0, <1>4, SameStays DEF Ages, rowsOf, history, SameRequest
<1>5. ASSUME NEW r \in Requests, Handle(r) PROVE Stage(q)' /\ Answered(q)'
  <2>1. CASE q = r
    BY <1>0, <1>5, <2>1, HandlerStage
  <2>2. CASE q # r
    BY <1>0, <1>5, <2>2, OthersSame, SameStays
  <2> QED BY <2>1, <2>2
<1> QED BY <1>1, <1>2, <1>3, <1>4, <1>5 DEF Next

LEMMA SafeInvariant == Spec => [](TypeOK /\ SafeInv)
BY TypeInit, TypeStep, SafeInit, SafeStep, PTL DEF Spec

\* A line answered with 201 is stored, whatever failed and crashed around it.
THEOREM AnswersHold == Spec => []AnsweredMeansStored
<1>1. SafeInv => AnsweredMeansStored
  BY DEF SafeInv, Answered, AnsweredMeansStored
<1> QED BY <1>1, SafeInvariant, PTL DEF Spec

\* No alert is stored without the analysis of its line.
THEOREM AlertsExplained == Spec => []AlertIsExplained
<1>1. TypeOK /\ SafeInv => AlertIsExplained
  BY DEF TypeOK, SafeInv, Stage, AlertIsExplained
<1> QED BY <1>1, SafeInvariant, PTL DEF Spec

\* A notified alert of an answered request is stored under its organization for good.
THEOREM NotifiedFound == Spec => []NotifiedAlertIsFound
<1>1. TypeOK /\ SafeInv => NotifiedAlertIsFound
  BY DEF TypeOK, SafeInv, Stage, Answered, NotifiedOwn, NotifiedAlertIsFound
<1> QED BY <1>1, SafeInvariant, PTL DEF Spec

\* An alert comes under another organization only after a swallowed exception.
THEOREM OrganizationsKept == Spec => []ForeignAlertWasSkipped
<1>1. TypeOK /\ SafeInv => ForeignAlertWasSkipped
  BY DEF TypeOK, SafeInv, Stage, AssignedOrSkipped, ForeignAlertWasSkipped
<1> QED BY <1>1, SafeInvariant, PTL DEF Spec

----------------------------------------------------------------------------
(* Bursts.  Of three requests that did not overlap, one comes last: when it is  *)
(* evaluated its snapshot has the rows of the other two.  Which one that was    *)
(* no variable says later on, so that LastAlerts says it of the request that is *)
(* about to commit, for any set of rows it would complete to a burst.           *)

\* The rows in T are a burst that must not pass unnoticed.
InOneBurst(T) ==
  /\ Cardinality(T) = BurstSize
  /\ \A r, s \in T : org[r] = org[s] /\ {r, s} \notin overlaps
  /\ \A r \in T : line[r].level = "ERROR" /\ age[r] = 0

Fresh == \A r \in Requests : r \notin logs => age[r] = 0
Snapshots == IsFiniteSet(logs) /\ \A r \in Requests : snapshot[r] \subseteq logs
OverlapsSeen ==
  \A r, s \in Requests :
    r # s /\ InTransaction(r) /\ InTransaction(s) /\ org[r] = org[s] => {r, s} \in overlaps
Seen ==
  \A r \in Requests : pc[r] = "evaluate" =>
    \A s \in logs : org[s] = org[r] /\ {r, s} \notin overlaps => s \in snapshot[r]
LastAlerts ==
  \A r \in Requests : pc[r] \in {"assign", "notify", "commit"} /\ r \notin skipped =>
    \A T \in SUBSET (logs \cup {r}) : r \in T /\ InOneBurst(T) => alert[r] # "NONE"
BurstInv ==
  Fresh /\ Snapshots /\ OverlapsSeen /\ Seen /\ LastAlerts /\ BurstIsOwn /\ BurstIsAlerted

\* What the invariant reads only grows or stays, and committed alerts stay.
Grows ==
  /\ org' = org /\ line' = line
  /\ logs \subseteq logs' /\ overlaps \subseteq overlaps' /\ skipped \subseteq skipped'
  /\ \A r \in Requests : age'[r] = 0 => age[r] = 0
  /\ \A r \in logs : alert'[r] = alert[r]

LEMMA StepGrows == TypeOK /\ SafeInv /\ [Next]_vars => Grows
<1> SUFFICES ASSUME TypeOK, SafeInv, [Next]_vars PROVE Grows
  OBVIOUS
<1>0. \A r \in logs : r \in Requests /\ ~InTransaction(r)
  BY DEF TypeOK, SafeInv, Stage
<1> USE DEF rowsOf, history, Grows
<1>1. CASE UNCHANGED vars
  BY <1>1 DEF vars
<1>2. CASE Crash
  BY <1>0, <1>2 DEF Crash, RollBack
<1>3. CASE Startup
  BY <1>3 DEF Startup
<1>4. ASSUME NEW r \in Requests, Ages(r) PROVE Grows
  BY <1>4, IngestConstants DEF Ages, TypeOK
<1>5. ASSUME NEW r \in Requests, Handle(r) PROVE Grows
  <2> USE DEF TypeOK
  <2>1. CASE Receive(r) BY <2>1 DEF Receive
  <2>2. CASE Analyze(r) BY <2>2 DEF Analyze
  <2>3. CASE AnalysisFails(r) BY <2>3 DEF AnalysisFails
  <2>4. CASE Evaluate(r)
    <3>1. r \notin logs
      BY <1>0, <2>4 DEF Evaluate, InTransaction
    <3>2. org' = org /\ line' = line /\ logs' = logs /\ UNCHANGED <<overlaps, skipped, age>>
      BY <2>4 DEF Evaluate
    <3>3. \A q \in Requests : q # r => alert'[q] = alert[q]
      BY <2>4 DEF Evaluate
    <3> QED BY <3>1, <3>2, <3>3
  <2>5. CASE Assign(r) BY <2>5 DEF Assign
  <2>6. CASE Notify(r) BY <2>6 DEF Notify
  <2>7. CASE AlertFails(r) BY <2>7 DEF AlertFails
  <2>8. CASE Commit(r) BY <2>8 DEF Commit
  <2>9. CASE CommitFails(r)
    <3>1. r \notin logs
      BY <1>0, <2>9 DEF CommitFails, InTransaction
    <3> QED BY <2>9, <3>1 DEF CommitFails, RollBack
  <2>10. CASE Answer(r) BY <2>10 DEF Answer
  <2>11. CASE ReplyLost(r) BY <2>11 DEF ReplyLost
  <2> QED BY <1>5, <2>1, <2>2, <2>3, <2>4, <2>5, <2>6, <2>7, <2>8, <2>9, <2>10, <2>11 DEF Handle
<1> QED BY <1>1, <1>2, <1>3, <1>4, <1>5 DEF Next

\* A row enters logs only by the commit of its own request.
LEMMA OneCommits ==
  ASSUME TypeOK, [Next]_vars
  PROVE  logs' = logs \/ \E c \in Requests : Commit(c) /\ logs' = logs \cup {c}
<1> USE DEF rowsOf, history
<1>1. ASSUME NEW r \in Requests, Handle(r), ~Commit(r) PROVE logs' = logs
  BY <1>1 DEF Handle, Receive, Analyze, AnalysisFails, Evaluate, Assign, Notify, AlertFails,
              CommitFails, ReplyLost, Answer
<1>2. ASSUME NEW r \in Requests, Commit(r) PROVE logs' = logs \cup {r}
  BY <1>2 DEF Commit
<1>3. Crash \/ Startup \/ UNCHANGED vars \/ (\E r \in Requests : Ages(r)) => logs' = logs
  BY DEF Crash, Startup, vars, Ages
<1> QED BY <1>1, <1>2, <1>3 DEF Next

LEMMA FreshStep ==
  ASSUME TypeOK, [Next]_vars, Grows, Fresh
  PROVE  Fresh'
<1>1. CASE \E r \in Requests : Ages(r)
  BY <1>1 DEF Ages, Fresh, TypeOK
<1>2. CASE ~\E r \in Requests : Ages(r)
  <2>1. age' = age
    BY <1>2 DEF Next, vars, Crash, Startup, Handle, Receive, Analyze, AnalysisFails, Evaluate,
                Assign, Notify, AlertFails, Commit, CommitFails, ReplyLost, Answer
  <2> QED BY <2>1 DEF Fresh, Grows
<1> QED BY <1>1, <1>2

LEMMA SnapshotsStep ==
  ASSUME TypeOK, [Next]_vars, Grows, Snapshots
  PROVE  Snapshots'
<1>1. IsFiniteSet(logs')
  BY OneCommits, FS_AddElement DEF Snapshots
<1>2. ASSUME NEW q \in Requests PROVE snapshot'[q] \in {snapshot[q], {}, logs}
  <2> USE DEF TypeOK, rowsOf, history
  <2>1. ASSUME NEW r \in Requests, Handle(r) PROVE snapshot'[q] \in {snapshot[q], {}, logs}
    BY <2>1 DEF Handle, Receive, Analyze, AnalysisFails, Evaluate, Assign, Notify, AlertFails,
                Commit, CommitFails, ReplyLost, Answer, RollBack, ReadsEnd
  <2>2. Crash => snapshot'[q] \in {snapshot[q], {}}
    BY DEF Crash, RollBack
  <2>3. Startup \/ UNCHANGED vars \/ (\E r \in Requests : Ages(r)) => snapshot' = snapshot
    BY DEF Startup, vars, Ages
  <2> QED BY <2>1, <2>2, <2>3 DEF Next
<1> QED BY <1>1, <1>2 DEF Snapshots, Grows

\* Requests that are handled go on, and a new transaction overlaps those under way.
LEMMA TransactionsGoOn ==
  ASSUME TypeOK, [Next]_vars, NEW q \in Requests, InTransaction(q)', ~InTransaction(q)
  PROVE  Receive(q)
<1> USE DEF TypeOK, InTransaction
<1>1. pc'[q] # pc[q]
  OBVIOUS
<1>2. ASSUME NEW r \in Requests, Handle(r) PROVE Receive(q)
  <2>1. r = q
    BY <1>1, <1>2, OthersSame DEF SameRequest
  <2> QED BY <1>2, <2>1 DEF Handle, Goto, Ends, Analyze, AnalysisFails, Evaluate, Assign, Notify,
               AlertFails, Commit, CommitFails, ReplyLost, Answer
<1>3. ~Crash
  BY DEF Crash
<1>4. ~Startup /\ ~UNCHANGED vars /\ ~\E r \in Requests : Ages(r)
  BY <1>1 DEF Startup, vars, Ages
<1> QED BY <1>2, <1>3, <1>4 DEF Next

LEMMA OverlapsStep ==
  ASSUME TypeOK, [Next]_vars, Grows, OverlapsSeen
  PROVE  OverlapsSeen'
<1> SUFFICES ASSUME NEW q \in Requests, NEW s \in Requests, q # s,
                    InTransaction(q)', InTransaction(s)', org'[q] = org'[s]
             PROVE  {q, s} \in overlaps'
  BY DEF OverlapsSeen
<1>0. org[q] = org[s] /\ overlaps \subseteq overlaps'
  BY DEF Grows
<1>1. CASE InTransaction(q) /\ InTransaction(s)
  BY <1>0, <1>1 DEF OverlapsSeen
<1>2. ASSUME NEW a \in Requests, NEW b \in Requests, a # b, org[a] = org[b],
             InTransaction(a)', InTransaction(b)', ~InTransaction(a)
      PROVE  {a, b} \in overlaps'
  <2>1. Receive(a)
    BY <1>2, TransactionsGoOn
  <2>2. InTransaction(b)
    BY <1>2, <2>1, OthersSame DEF Handle, SameRequest, InTransaction
  <2>3. pc'[a] # "done"
    BY <1>2 DEF InTransaction
  <2>4. overlaps' = overlaps \cup {{a, t} : t \in {p \in Requests : InTransaction(p) /\ org[p] = org[a]}}
    BY <2>1, <2>3 DEF Receive, Ends, Goto, TypeOK
  <2> QED BY <1>2, <2>2, <2>4
<1>3. {q, s} = {s, q}
  OBVIOUS
<1> QED BY <1>0, <1>1, <1>2, <1>3

\* A row that is committed meanwhile is of another organization or overlaps.
LEMMA CommittedMeanwhile ==
  ASSUME TypeOK, SafeInv, [Next]_vars, Grows, OverlapsSeen,
         NEW r \in Requests, InTransaction(r), r \notin logs',
         NEW s \in logs', org[s] = org[r], {r, s} \notin overlaps'
  PROVE  s \in logs
<1> SUFFICES ASSUME s \notin logs PROVE FALSE
  OBVIOUS
<1>1. s \in Requests /\ Commit(s)
  BY OneCommits
<1>2. InTransaction(s)
  BY <1>1 DEF Commit, InTransaction
<1> QED BY <1>1, <1>2 DEF OverlapsSeen, Grows

LEMMA SeenStep ==
  ASSUME TypeOK, SafeInv, SafeInv', [Next]_vars, Grows, OverlapsSeen, Seen
  PROVE  Seen'
<1> SUFFICES ASSUME NEW q \in Requests, pc'[q] = "evaluate",
                    NEW s \in logs', org'[s] = org'[q], {q, s} \notin overlaps'
             PROVE  s \in snapshot'[q]
  BY DEF Seen
<1> USE DEF TypeOK, rowsOf, history
<1>1. CASE pc[q] = "evaluate"
  <2>1. q \notin logs'
    BY DEF SafeInv, Stage, InTransaction
  <2>2. s \in logs
    BY <1>1, <2>1, CommittedMeanwhile DEF InTransaction, Grows
  <2>3. s \in snapshot[q]
    BY <1>1, <2>2 DEF Seen, Grows
  <2>4. ASSUME NEW r \in Requests, Handle(r) PROVE snapshot'[q] = snapshot[q]
    <3>1. CASE r = q
      BY <1>1, <2>4, <3>1 DEF Handle, Goto, Ends, Receive, Analyze, AnalysisFails, Evaluate,
                               AlertFails, Assign, Notify, Commit, CommitFails, ReplyLost, Answer
    <3>2. CASE r # q
      BY <2>4, <3>2 DEF Handle, Receive, Analyze, AnalysisFails, Evaluate, AlertFails, Assign,
                        Notify, Commit, CommitFails, ReplyLost, Answer, RollBack, ReadsEnd
    <3> QED BY <3>1, <3>2
  <2>5. ~Crash
    BY <1>1 DEF Crash
  <2>6. Startup \/ UNCHANGED vars \/ (\E r \in Requests : Ages(r)) => snapshot' = snapshot
    BY DEF Startup, vars, Ages
  <2> QED BY <2>3, <2>4, <2>5, <2>6 DEF Next
<1>2. CASE pc[q] # "evaluate"
  <2>1. ASSUME NEW r \in Requests, Handle(r) PROVE Analyze(q)
    <3>1. r = q
      BY <1>2, <2>1, OthersSame DEF SameRequest
    <3> QED BY <1>2, <2>1, <3>1 DEF Handle, Goto, Ends, Receive, AnalysisFails, Evaluate,
                                 AlertFails, Assign, Notify, Commit, CommitFails, ReplyLost, Answer
  <2>2. ~Crash /\ ~Startup /\ ~UNCHANGED vars /\ ~\E r \in Requests : Ages(r)
    BY <1>2 DEF Crash, Startup, vars, Ages
  <2>3. Analyze(q)
    BY <2>1, <2>2 DEF Next
  <2>4. snapshot'[q] = logs /\ logs' = logs
    BY <2>3 DEF Analyze
  <2> QED BY <2>4
<1> QED BY <1>1, <1>2

\* Three errors counted are alerted, and an ERROR_BURST has counted three.
LEMMA DecisionOfBurst ==
  ASSUME TypeOK, NEW r \in Requests
  PROVE  /\ RecentErrors(r) >= BurstSize => Decision(r).should_alert
         /\ Decision(r).alert_type = "ERROR_BURST" => RecentErrors(r) >= BurstSize
<1> DEFINE e == [category |-> line[r].category, severity |-> line[r].severity,
                 confident |-> line[r].confident, keyword |-> line[r].keyword,
                 anomaly |-> analysis[r] = "anomaly",
                 errors |-> RecentErrors(r), anomalies |-> RecentAnomalies(r)]
<1>1. Decision(r) = EvaluateAlert(e) /\ e.errors = RecentErrors(r)
  BY DEF Decision
<1> HIDE DEF e
<1>2. ErrorBurst(e) => "error burst" \in Reasons(e)
  BY DEF Reasons
<1>3. AlertType(e) = "ERROR_BURST" => ErrorBurst(e)
  BY DEF AlertType
<1>4. RecentErrors(r) >= BurstSize <=> ErrorBurst(e)
  BY <1>1 DEF ErrorBurst
<1>5. /\ Decision(r).should_alert = (Reasons(e) # {})
      /\ Decision(r).alert_type = AlertType(e)
  BY <1>1 DEF EvaluateAlert
<1> QED BY <1>2, <1>3, <1>4, <1>5

\* What a request counts is finite and of its organization.
LEMMA ErrorsCounted ==
  ASSUME TypeOK, Snapshots, NEW r \in Requests
  PROVE  LET counted == {s \in Visible(r) : line[s].level = "ERROR" /\ age[s] = 0}
         IN  /\ IsFiniteSet(counted)
             /\ counted \subseteq {s \in logs \cup {r} : org[s] = org[r] /\ line[s].level = "ERROR"}
             /\ RecentErrors(r) = Cardinality(counted)
<1>1. IsFiniteSet(logs \cup {r})
  BY FS_AddElement DEF Snapshots
<1>2. {s \in Visible(r) : line[s].level = "ERROR" /\ age[s] = 0}
        \subseteq {s \in logs \cup {r} : org[s] = org[r] /\ line[s].level = "ERROR"}
  BY DEF Visible, Snapshots
<1>3. IsFiniteSet({s \in Visible(r) : line[s].level = "ERROR" /\ age[s] = 0})
  BY <1>1, <1>2, FS_Subset
<1> QED BY <1>2, <1>3 DEF RecentErrors

LEMMA LastAlertsStep ==
  ASSUME TypeOK, SafeInv, SafeInv', [Next]_vars, Grows,
         Fresh, Snapshots, OverlapsSeen, Seen, LastAlerts
  PROVE  LastAlerts'
<1> SUFFICES ASSUME NEW r \in Requests, pc'[r] \in {"assign", "notify", "commit"},
                    r \notin skipped',
                    NEW T \in SUBSET (logs' \cup {r}), r \in T, InOneBurst(T)'
             PROVE  alert'[r] # "NONE"
  BY DEF LastAlerts
<1> USE DEF TypeOK
<1>1. r \notin logs'
  BY DEF SafeInv, Stage, InTransaction
<1>2. InTransaction(r)
  <2>1. InTransaction(r)' /\ pc'[r] # "analyze"
    BY DEF InTransaction
  <2>2. ~InTransaction(r) => FALSE
    BY <2>1, TransactionsGoOn DEF Receive, Goto, Ends
  <2> QED BY <2>2
<1>3. T \subseteq logs \cup {r}
  BY <1>1, <1>2, CommittedMeanwhile DEF InOneBurst, Grows
<1>4. T \subseteq Requests
  BY <1>3
<1>5. InOneBurst(T) /\ r \notin skipped
  <2>1. Cardinality(T) = BurstSize
    BY DEF InOneBurst
  <2>2. \A q, s \in T : org[q] = org[s] /\ {q, s} \notin overlaps
    BY DEF InOneBurst, Grows
  <2>3. \A q \in T : line[q].level = "ERROR" /\ age[q] = 0
    BY <1>4 DEF InOneBurst, Grows
  <2> QED BY <2>1, <2>2, <2>3 DEF InOneBurst, Grows
<1>6. CASE UNCHANGED <<pc, alert>>
  BY <1>3, <1>5, <1>6 DEF LastAlerts
<1>7. ASSUME NEW q \in Requests, Handle(q), q # r PROVE alert'[r] # "NONE"
  <2>1. pc'[r] = pc[r] /\ alert'[r] = alert[r]
    BY <1>7, OthersSame DEF SameRequest
  <2> QED BY <1>3, <1>5, <2>1 DEF LastAlerts
<1>8. ASSUME Handle(r) PROVE alert'[r] # "NONE"
  <2>1. CASE pc[r] \in {"assign", "notify", "commit"}
    <3>1. alert'[r] = alert[r]
      BY <1>8, <2>1 DEF Handle, rowsOf, Receive, Analyze, AnalysisFails, Evaluate, Assign, Notify,
                         AlertFails, Commit, CommitFails, Ends, Goto, ReplyLost, Answer
    <3> QED BY <1>3, <1>5, <2>1, <3>1 DEF LastAlerts
  <2>2. CASE pc[r] = "evaluate"
    <3>1. Evaluate(r)
      BY <1>8, <2>2 DEF Handle, Receive, Analyze, AnalysisFails, Assign, Notify, AlertFails,
                         Commit, CommitFails, ReplyLost, Answer
    <3>2. T \subseteq {s \in Visible(r) : line[s].level = "ERROR" /\ age[s] = 0}
      BY <1>3, <1>5, <2>2 DEF Visible, Seen, InOneBurst
    <3>3. RecentErrors(r) \in Nat /\ RecentErrors(r) >= BurstSize
      <4> DEFINE counted == {s \in Visible(r) : line[s].level = "ERROR" /\ age[s] = 0}
      <4>1. IsFiniteSet(counted) /\ RecentErrors(r) = Cardinality(counted)
        BY ErrorsCounted
      <4>2. T \subseteq counted
        BY <3>2
      <4> HIDE DEF counted
      <4>3. /\ Cardinality(counted) \in Nat /\ Cardinality(T) \in Nat
            /\ Cardinality(T) <= Cardinality(counted)
        BY <4>1, <4>2, FS_Subset, FS_CardinalityType
      <4> QED BY <1>5, <4>1, <4>3 DEF InOneBurst
    <3>4. Decision(r).should_alert
      BY <3>3, DecisionOfBurst
    <3> QED BY <3>1, <3>4, DecisionType DEF Evaluate, AlertNames
  <2>3. CASE pc[r] = "analyze"
    BY <1>8, <2>3 DEF Handle, Receive, Analyze, AnalysisFails, Evaluate, Assign, Notify, AlertFails,
                       Commit, CommitFails, ReplyLost, Answer, Goto
  <2> QED BY <1>2, <2>1, <2>2, <2>3 DEF InTransaction
<1>9. ~Crash
  BY DEF Crash
<1>10. Startup \/ UNCHANGED vars \/ (\E q \in Requests : Ages(q)) => UNCHANGED <<pc, alert>>
  BY DEF Startup, vars, rowsOf, Ages
<1> QED BY <1>6, <1>7, <1>8, <1>9, <1>10 DEF Next

LEMMA OwnStep ==
  ASSUME TypeOK, [Next]_vars, Grows, Snapshots, BurstIsOwn
  PROVE  BurstIsOwn'
<1> DEFINE own(r) == {s \in logs \cup {r} : org[s] = org[r] /\ line[s].level = "ERROR"}
<1> SUFFICES ASSUME NEW r \in Requests, alert'[r] = "ERROR_BURST"
             PROVE  Cardinality(own(r)') >= BurstSize
  BY DEF BurstIsOwn
<1> USE DEF TypeOK, rowsOf, history
<1>1. own(r) \subseteq own(r)' /\ IsFiniteSet(own(r)') /\ IsFiniteSet(own(r))
  <2>1. IsFiniteSet(logs') /\ IsFiniteSet(logs' \cup {r})
    BY SnapshotsStep, FS_AddElement DEF Snapshots
  <2>2. own(r) \subseteq own(r)' /\ own(r)' \subseteq logs' \cup {r}
    BY DEF Grows
  <2> QED BY <2>1, <2>2, FS_Subset
<1>2. CASE Cardinality(own(r)) >= BurstSize
  <2>1. /\ Cardinality(own(r)) \in Nat /\ Cardinality(own(r)') \in Nat
        /\ Cardinality(own(r)) <= Cardinality(own(r)')
    BY <1>1, FS_Subset, FS_CardinalityType
  <2> HIDE DEF own
  <2> QED BY <1>2, <2>1 DEF BurstSize
<1>3. alert[r] = "ERROR_BURST" => Cardinality(own(r)) >= BurstSize
  BY DEF BurstIsOwn
<1>4. ASSUME Evaluate(r) PROVE Cardinality(own(r)) >= BurstSize
  <2>1. CASE alert[r] = "ERROR_BURST"
    BY <1>3, <2>1
  <2>2. CASE alert[r] # "ERROR_BURST"
    <3>1. Decision(r).alert_type = "ERROR_BURST"
      BY <1>4, <2>2 DEF Evaluate
    <3>2. RecentErrors(r) >= BurstSize
      BY <3>1, DecisionOfBurst
    <3> DEFINE counted == {s \in Visible(r) : line[s].level = "ERROR" /\ age[s] = 0}
    <3>3. counted \subseteq own(r) /\ RecentErrors(r) = Cardinality(counted)
      BY ErrorsCounted
    <3>4. /\ Cardinality(counted) \in Nat /\ Cardinality(own(r)) \in Nat
          /\ Cardinality(counted) <= Cardinality(own(r))
      BY <1>1, <3>3, FS_Subset, FS_CardinalityType
    <3> HIDE DEF own, counted
    <3> QED BY <3>2, <3>3, <3>4 DEF BurstSize
  <2> QED BY <2>1, <2>2
<1>5. ASSUME ~Evaluate(r) PROVE alert[r] = "ERROR_BURST"
  <2>1. ASSUME NEW q \in Requests, Handle(q) PROVE alert'[r] \in {alert[r], "NONE"}
    <3>1. CASE q = r
      BY <1>5, <2>1, <3>1 DEF Handle, Receive, Analyze, AnalysisFails, Assign, Notify, AlertFails,
                               Commit, CommitFails, RollBack, ReplyLost, Answer
    <3>2. CASE q # r
      BY <2>1, <3>2, OthersSame DEF SameRequest
    <3> QED BY <3>1, <3>2
  <2>2. Crash => alert'[r] \in {alert[r], "NONE"}
    BY DEF Crash, RollBack
  <2>3. Startup \/ UNCHANGED vars \/ (\E q \in Requests : Ages(q)) => alert' = alert
    BY DEF Startup, vars, Ages
  <2> QED BY <2>1, <2>2, <2>3 DEF Next
<1> QED BY <1>2, <1>3, <1>4, <1>5

LEMMA AlertedStep ==
  ASSUME TypeOK, [Next]_vars, Grows, LastAlerts, BurstIsAlerted
  PROVE  BurstIsAlerted'
<1> SUFFICES ASSUME NEW T \in SUBSET (logs' \ skipped'), InOneBurst(T)'
             PROVE  \E r \in T : alert'[r] # "NONE"
  BY DEF BurstIsAlerted, InOneBurst
<1>1. T \subseteq Requests
  BY TypeStep DEF TypeOK
<1>2. InOneBurst(T)
  <2>1. Cardinality(T) = BurstSize
    BY DEF InOneBurst
  <2>2. \A q, s \in T : org[q] = org[s] /\ {q, s} \notin overlaps
    BY DEF InOneBurst, Grows
  <2>3. \A q \in T : line[q].level = "ERROR" /\ age[q] = 0
    BY <1>1 DEF InOneBurst, Grows
  <2> QED BY <2>1, <2>2, <2>3 DEF InOneBurst
<1>3. CASE T \subseteq logs
  <2>1. T \in SUBSET (logs \ skipped)
    BY <1>3 DEF Grows
  <2>2. \E r \in T : alert[r] # "NONE"
    BY <1>2, <2>1 DEF BurstIsAlerted, InOneBurst
  <2> QED BY <1>3, <2>2 DEF Grows
<1>4. CASE ~(T \subseteq logs)
  <2>1. PICK r \in Requests : Commit(r) /\ logs' = logs \cup {r}
    BY <1>4, OneCommits
  <2>2. r \in T /\ T \in SUBSET (logs \cup {r}) /\ r \notin skipped
    BY <1>4, <2>1 DEF Grows
  <2>3. pc[r] = "commit" /\ alert' = alert
    BY <2>1 DEF Commit, rowsOf
  <2>4. alert[r] # "NONE"
    BY <1>2, <2>2, <2>3 DEF LastAlerts
  <2> QED BY <2>2, <2>3, <2>4
<1> QED BY <1>3, <1>4

LEMMA BurstInit == Init => BurstInv
<1> SUFFICES ASSUME Init PROVE BurstInv
  OBVIOUS
<1>1. \A r \in Requests : ~InTransaction(r) /\ alert[r] = "NONE" /\ age[r] = 0
  BY DEF Init, InTransaction
<1>2. logs = {} /\ \A r \in Requests : snapshot[r] = {}
  BY DEF Init
<1>3. Fresh /\ OverlapsSeen /\ Seen /\ LastAlerts /\ BurstIsOwn
  BY <1>1, <1>2 DEF Fresh, OverlapsSeen, Seen, LastAlerts, BurstIsOwn, InTransaction
<1>4. Snapshots
  BY <1>2, FS_EmptySet DEF Snapshots
<1>5. BurstIsAlerted
  <2> SUFFICES ASSUME NEW T \in SUBSET (logs \ skipped), Cardinality(T) = BurstSize PROVE FALSE
    BY DEF BurstIsAlerted
  <2>1. T = {}
    BY <1>2
  <2> QED BY <2>1, FS_EmptySet DEF BurstSize
<1> QED BY <1>3, <1>4, <1>5 DEF BurstInv

LEMMA BurstStep == TypeOK /\ SafeInv /\ BurstInv /\ [Next]_vars => BurstInv'
<1> SUFFICES ASSUME TypeOK, SafeInv, BurstInv, [Next]_vars PROVE BurstInv'
  OBVIOUS
<1>1. Grows /\ SafeInv'
  BY StepGrows, SafeStep
<1>2. Fresh' /\ Snapshots'
  BY <1>1, FreshStep, SnapshotsStep DEF BurstInv
<1>3. OverlapsSeen'
  BY <1>1, OverlapsStep DEF BurstInv
<1>4. Seen'
  BY <1>1, SeenStep DEF BurstInv
<1>5. LastAlerts'
  BY <1>1, LastAlertsStep DEF BurstInv
<1>6. BurstIsOwn' /\ BurstIsAlerted'
  BY <1>1, OwnStep, AlertedStep DEF BurstInv
<1> QED BY <1>2, <1>3, <1>4, <1>5, <1>6 DEF BurstInv

LEMMA BurstInvariant == Spec => []BurstInv
BY SafeInvariant, TypeInit, TypeStep, SafeInit, SafeStep, BurstInit, BurstStep, PTL DEF Spec

\* No error of another organization is counted into a burst, of any number of requests.
THEOREM BurstsAreOwn == Spec => []BurstIsOwn
<1>1. BurstInv => BurstIsOwn
  BY DEF BurstInv
<1> QED BY <1>1, BurstInvariant, PTL

\* No burst passes unnoticed but by an exception or by overlapping transactions.
THEOREM BurstsAreAlerted == Spec => []BurstIsAlerted
<1>1. BurstInv => BurstIsAlerted
  BY DEF BurstInv
<1> QED BY <1>1, BurstInvariant, PTL

----------------------------------------------------------------------------
(* What is committed stays. *)

Stays ==
  /\ logs \subseteq logs'
  /\ \A r \in logs :
       /\ analysis'[r] = analysis[r] /\ alert'[r] = alert[r]
       /\ alertOrg'[r] # alertOrg[r]
            => ~up /\ alert[r] # "NONE" /\ alertOrg[r] = NoOrg /\ alertOrg'[r] = DefaultOrg

\* add_log and init_schema: no crash, failing commit or later request undoes or changes
\* what is committed for a line; only a start does, of an alert without organization.
THEOREM CommittedStays == Spec => [][Stays]_vars
<1>1. TypeOK /\ SafeInv /\ [Next]_vars => [Stays]_vars
  <2> SUFFICES ASSUME TypeOK, SafeInv, Next PROVE Stays
    BY DEF vars
  <2>0. \A r \in logs : r \in Requests /\ ~InTransaction(r)
    BY DEF TypeOK, SafeInv, Stage
  <2>1. logs \subseteq logs' /\ \A r \in logs : alert'[r] = alert[r]
    BY StepGrows DEF Grows
  <2>2. ASSUME UNCHANGED <<analysis, alertOrg>> PROVE Stays
    BY <2>1, <2>2 DEF Stays
  <2>3. ASSUME NEW r \in Requests, r \notin logs,
               \A q \in Requests \ {r} : analysis'[q] = analysis[q] /\ alertOrg'[q] = alertOrg[q]
        PROVE  Stays
    BY <2>0, <2>1, <2>3 DEF Stays
  <2>4. CASE Crash
    BY <2>0, <2>1, <2>4 DEF Crash, RollBack, Stays
  <2>5. CASE Startup
    BY <2>0, <2>1, <2>5 DEF Startup, Unassigned, Stays
  <2>6. ASSUME NEW r \in Requests, Analyze(r) \/ Assign(r) \/ CommitFails(r) PROVE Stays
    <3>1. r \notin logs
      BY <2>0, <2>6 DEF Analyze, Assign, CommitFails, InTransaction
    <3>2. \A q \in Requests \ {r} : analysis'[q] = analysis[q] /\ alertOrg'[q] = alertOrg[q]
      BY <2>6 DEF Analyze, Assign, CommitFails, RollBack, TypeOK
    <3> QED
      BY <2>3, <3>1, <3>2
  <2>7. ASSUME NEW r \in Requests,
               \/ Receive(r) \/ AnalysisFails(r) \/ Evaluate(r) \/ Notify(r) \/ AlertFails(r)
               \/ Commit(r) \/ ReplyLost(r) \/ Answer(r) \/ Ages(r)
        PROVE  Stays
    BY <2>2, <2>7 DEF Receive, AnalysisFails, Evaluate, Notify, AlertFails, Commit,
       ReplyLost, Answer, Ages,
       rowsOf
  <2> QED
    BY <2>4, <2>5, <2>6, <2>7 DEF Next, Handle
<1> QED
  BY <1>1, SafeInvariant, PTL DEF Spec

=============================================================================
