------------------------------- MODULE Ingest -------------------------------
(***************************************************************************)
(* POST /logs, add_log in main.py: each request stores its line, analyzes  *)
(* it and raises an alert in one database transaction, and notifies the    *)
(* developers from inside it.  Requests run concurrently in a thread pool; *)
(* the tables are InnoDB's, whose transactions read a snapshot and their   *)
(* own rows (REPEATABLE READ).  The process may crash at any step.         *)
(* Lines carry no timestamp of their own, as the agent sends them.         *)
(*                                                                         *)
(* A row of logs, ai_log_analysis or alerts is named by the request that   *)
(* inserted it, and visible to others once that request is in logs.  All   *)
(* lines name the same service.                                            *)
(***************************************************************************)
EXTENDS AlertEngine, FiniteSets

CONSTANTS Requests,    \* the POSTs made
          Lines,       \* kinds of line: records [level, category, severity, confident, keyword]
          Orgs,        \* organizations with a registered agent
          DefaultOrg,  \* the one of DEFAULT_ORGANIZATION_KEY
          NoOrg,       \* NULL
          MaxAge       \* bound: the age rows reach, 2 is past every window

ASSUME IngestConstants ==
  /\ MaxAge \in 0..2
  /\ DefaultOrg \in Orgs /\ NoOrg \notin Orgs
  /\ Lines \subseteq [level : KnownLevels, category : STRING, severity : {"LOW", "MEDIUM", "HIGH"},
                      confident : BOOLEAN, keyword : BOOLEAN]

VARIABLES
  up,        \* the process serves requests
  line, org, \* what each request posts, and the organization of its agent
  pc,        \* where its handler is
  logs,      \* the committed rows of logs
  snapshot,  \* the rows of logs the transaction of a request reads, while it does
  analysis,  \* the row in ai_log_analysis: "none", "normal" or "anomaly"
  alert,     \* the alert_type of the row in alerts, or "NONE"
  alertOrg,  \* the organization_id of that row
  answer,    \* "none", "stored", "alerted" (201 with an alert) or "error" (500)
  notified,  \* requests whose alert was notified: alert_payload is set
  age,       \* of a row, 0, 1: older than five minutes, 2: older than ten minutes
  skipped,   \* history: requests an exception of which was swallowed
  overlaps   \* history: pairs of requests of an organization that overlapped

rowsOf == <<analysis, alert, alertOrg>>
history == <<skipped, overlaps>>
vars == <<up, line, org, pc, logs, snapshot, rowsOf, answer, notified, age, history>>

Init ==
  /\ up = TRUE
  /\ line \in [Requests -> Lines] /\ org \in [Requests -> Orgs]
  /\ pc = [r \in Requests |-> "new"]
  /\ logs = {} /\ snapshot = [r \in Requests |-> {}]
  /\ analysis = [r \in Requests |-> "none"]
  /\ alert = [r \in Requests |-> "NONE"]
  /\ alertOrg = [r \in Requests |-> NoOrg]
  /\ answer = [r \in Requests |-> "none"]
  /\ notified = {} /\ age = [r \in Requests |-> 0]
  /\ skipped = {} /\ overlaps = {}

InTransaction(r) == pc[r] \in {"analyze", "evaluate", "assign", "notify", "commit"}
Goto(r, label) == pc' = [pc EXCEPT ![r] = label]
Ends(r, status) == Goto(r, "done") /\ answer' = [answer EXCEPT ![r] = status]

\* The counts are not read again.
ReadsEnd(r) == snapshot' = [snapshot EXCEPT ![r] = {}]

\* A transaction that does not commit leaves no rows.
RollBack(S) ==
  /\ snapshot' = [r \in Requests |-> IF r \in S THEN {} ELSE snapshot[r]]
  /\ analysis' = [r \in Requests |-> IF r \in S THEN "none" ELSE analysis[r]]
  /\ alert' = [r \in Requests |-> IF r \in S THEN "NONE" ELSE alert[r]]
  /\ alertOrg' = [r \in Requests |-> IF r \in S THEN NoOrg ELSE alertOrg[r]]

----------------------------------------------------------------------------
(* add_log *)

\* get_authorized_agent has answered; the line is inserted, or the request fails.
Receive(r) ==
  /\ up /\ pc[r] = "new"
  /\ \/ /\ Goto(r, "analyze")
        /\ overlaps' = overlaps \cup {{r, s} : s \in {q \in Requests : InTransaction(q) /\ org[q] = org[r]}}
        /\ UNCHANGED answer
     \/ Ends(r, "error") /\ UNCHANGED overlaps
  /\ UNCHANGED <<up, line, org, logs, snapshot, rowsOf, notified, age, skipped>>

\* get_recent_log_context, whose first SELECT fixes the snapshot, analyze_log and
\* save_ai_analysis.  The detector may say anything of the counts.
Analyze(r) ==
  /\ pc[r] = "analyze"
  /\ snapshot' = [snapshot EXCEPT ![r] = logs]
  /\ \E verdict \in {"normal", "anomaly"} : analysis' = [analysis EXCEPT ![r] = verdict]
  /\ Goto(r, "evaluate")
  /\ UNCHANGED <<up, line, org, logs, alert, alertOrg, answer, notified, age, history>>

\* Mutants: the commit is part of the try block; the alert is evaluated anyway.
CommitIsSkipped(r) ==
  /\ pc[r] = "analyze"
  /\ Ends(r, "stored")
  /\ UNCHANGED <<up, line, org, logs, snapshot, rowsOf, notified, age, history>>
EvaluatesAnyway(r) ==
  /\ pc[r] = "analyze"
  /\ snapshot' = [snapshot EXCEPT ![r] = logs]
  /\ Goto(r, "evaluate")
  /\ UNCHANGED <<up, line, org, logs, rowsOf, answer, notified, age, history>>

\* An exception before the analysis is saved is swallowed: no alert is evaluated.
AnalysisFails(r) ==
  /\ pc[r] = "analyze"
  /\ Goto(r, "commit")
  /\ skipped' = skipped \cup {r}
  /\ UNCHANGED <<up, line, org, logs, snapshot, rowsOf, answer, notified, age, overlaps>>

OthersVisible(r) == {s \in snapshot[r] \ {r} : org[s] = org[r]}  \* mutant: not its own row
AllVisible(r) == snapshot[r] \cup {r}                            \* mutant: no org_filter
\* The rows the counts read: of the snapshot and its own, of its organization.
Visible(r) == {s \in snapshot[r] \cup {r} : org[s] = org[r]}

\* _recent_error_count, _recent_anomaly_count
RecentErrors(r) ==
  Cardinality({s \in Visible(r) : line[s].level = "ERROR" /\ age[s] = 0})
RecentAnomalies(r) ==
  Cardinality({s \in Visible(r) : analysis[s] = "anomaly" /\ age[s] < 2})

Decision(r) ==
  EvaluateAlert([category |-> line[r].category, severity |-> line[r].severity,
                 confident |-> line[r].confident, keyword |-> line[r].keyword,
                 anomaly |-> analysis[r] = "anomaly",
                 errors |-> RecentErrors(r), anomalies |-> RecentAnomalies(r)])

\* evaluate_alert and save_alert, which leaves organization_id NULL.
Evaluate(r) ==
  /\ pc[r] = "evaluate"
  /\ ReadsEnd(r)
  /\ \/ /\ ~Decision(r).should_alert
        /\ Goto(r, "commit")
        /\ UNCHANGED alert
     \/ /\ Decision(r).should_alert
        /\ alert' = [alert EXCEPT ![r] = Decision(r).alert_type]
        /\ Goto(r, "assign")
  /\ UNCHANGED <<up, line, org, logs, analysis, alertOrg, answer, notified, age, history>>

\* UPDATE alerts SET organization_id.
Assign(r) ==
  /\ pc[r] = "assign"
  /\ alertOrg' = [alertOrg EXCEPT ![r] = org[r]]
  /\ Goto(r, "notify")
  /\ UNCHANGED <<up, line, org, logs, snapshot, analysis, alert, answer, notified, age, history>>

\* notify_developers: what a channel raises is caught, so either may have been told.
Notify(r) ==
  /\ pc[r] = "notify"
  /\ notified' = notified \cup {r}
  /\ Goto(r, "commit")
  /\ UNCHANGED <<up, line, org, logs, snapshot, rowsOf, answer, age, history>>

\* Any exception of these steps is swallowed, the rows written so far stay.
AlertFails(r) ==
  /\ pc[r] \in {"evaluate", "assign", "notify"}
  /\ ReadsEnd(r)
  /\ Goto(r, "commit")
  /\ skipped' = skipped \cup {r}
  /\ UNCHANGED <<up, line, org, logs, rowsOf, answer, notified, age, overlaps>>

Commit(r) ==
  /\ pc[r] = "commit"
  /\ logs' = logs \cup {r}
  /\ Goto(r, "answer")
  /\ UNCHANGED <<up, line, org, snapshot, rowsOf, answer, notified, age, history>>

\* Mutant: a failing commit is swallowed too.
CommitSwallowed(r) ==
  /\ pc[r] = "commit"
  /\ RollBack({r}) /\ Goto(r, "answer")
  /\ UNCHANGED <<up, line, org, logs, answer, notified, age, history>>

\* The connection is lost: commit raises, the client gets a 500.
CommitFails(r) ==
  /\ pc[r] = "commit"
  /\ RollBack({r}) /\ Ends(r, "error")
  /\ UNCHANGED <<up, line, org, logs, notified, age, history>>

\* It is lost after the commit, and with it the reply: a 500 for what is stored.
ReplyLost(r) ==
  /\ pc[r] = "answer"
  /\ Ends(r, "error")
  /\ UNCHANGED <<up, line, org, logs, snapshot, rowsOf, notified, age, history>>

Answer(r) ==
  /\ pc[r] = "answer"
  /\ Ends(r, IF r \in notified THEN "alerted" ELSE "stored")
  /\ UNCHANGED <<up, line, org, logs, snapshot, rowsOf, notified, age, history>>

----------------------------------------------------------------------------
(* The process and the clock. *)

Crash ==
  /\ up
  /\ up' = FALSE
  /\ pc' = [r \in Requests |-> IF pc[r] \in {"new", "done"} THEN pc[r] ELSE "lost"]
  /\ RollBack({r \in Requests : InTransaction(r)})
  /\ UNCHANGED <<line, org, logs, answer, notified, age, history>>

AnyAlert(r) == r \in logs /\ alert[r] # "NONE"   \* mutant: no WHERE organization_id IS NULL
Unassigned(r) == r \in logs /\ alert[r] # "NONE" /\ alertOrg[r] = NoOrg

\* init_schema gives every alert without organization to the default one.
Startup ==
  /\ ~up
  /\ up' = TRUE
  /\ alertOrg' = [r \in Requests |-> IF Unassigned(r) THEN DefaultOrg ELSE alertOrg[r]]
  /\ UNCHANGED <<line, org, pc, logs, snapshot, analysis, alert, answer, notified, age,
                 history>>

Ages(r) ==
  /\ r \in logs /\ age[r] < MaxAge
  /\ age' = [age EXCEPT ![r] = @ + 1]
  /\ UNCHANGED <<up, line, org, pc, logs, snapshot, rowsOf, answer, notified, history>>

Handle(r) ==
  \/ Receive(r) \/ Analyze(r) \/ AnalysisFails(r) \/ Evaluate(r) \/ Assign(r)
  \/ Notify(r) \/ AlertFails(r) \/ Commit(r) \/ CommitFails(r) \/ ReplyLost(r)
  \/ Answer(r)

Next == Crash \/ Startup \/ \E r \in Requests : Handle(r) \/ Ages(r)

Spec == Init /\ [][Next]_vars

----------------------------------------------------------------------------
(* Properties. *)

TypeOK ==
  /\ up \in BOOLEAN
  /\ line \in [Requests -> Lines] /\ org \in [Requests -> Orgs]
  /\ pc \in [Requests -> {"new", "analyze", "evaluate", "assign", "notify", "commit",
                          "answer", "done", "lost"}]
  /\ logs \subseteq Requests /\ snapshot \in [Requests -> SUBSET Requests]
  /\ analysis \in [Requests -> {"none", "normal", "anomaly"}]
  /\ alert \in [Requests -> {"NONE", "HIGH_SEVERITY", "ANOMALY", "ERROR_BURST",
                             "REPEATED_ANOMALY", "SECURITY_THREAT"}]
  /\ alertOrg \in [Requests -> Orgs \cup {NoOrg}]
  /\ answer \in [Requests -> {"none", "stored", "alerted", "error"}]
  /\ notified \subseteq Requests
  /\ age \in [Requests -> 0..2] /\ skipped \subseteq Requests
  /\ overlaps \subseteq SUBSET Requests

\* A line the agent is told was stored is stored: no failure of the analysis
\* or of the alert costs it, nor does a crash after the answer.
AnsweredMeansStored ==
  \A r \in Requests : answer[r] \in {"stored", "alerted"} => r \in logs

\* An alert in the table comes with the analysis that explains it.
AlertIsExplained == \A r \in logs : alert[r] # "NONE" => analysis[r] # "none"

\* Developers told of an alert whose request was answered with 201 find it,
\* under the organization of the agent, whatever happens later.  (A crash or a
\* lost connection after the notification leaves a notified alert nobody finds.)
NotifiedAlertIsFound ==
  \A r \in notified :
    answer[r] \in {"stored", "alerted"} => r \in logs /\ alert[r] # "NONE" /\ alertOrg[r] = org[r]

\* An alert is shown to another organization than its agent's only if an
\* exception was swallowed between the insert and the assignment of the alert.
ForeignAlertWasSkipped ==
  \A r \in logs :
    alert[r] # "NONE" /\ alertOrg[r] # org[r] => r \in skipped /\ alertOrg[r] \in {NoOrg, DefaultOrg}

\* An ERROR_BURST is made of three errors of the organization itself.
BurstIsOwn ==
  \A r \in Requests :
    alert[r] = "ERROR_BURST"
      => Cardinality({s \in logs \cup {r} : org[s] = org[r] /\ line[s].level = "ERROR"}) >= BurstSize

\* Three errors of an organization within five minutes raise an alert, unless
\* an exception was swallowed or two of the transactions overlapped: those do
\* not see each other's rows and a burst may pass unnoticed.
BurstIsAlerted ==
  \A T \in SUBSET (logs \ skipped) :
    /\ Cardinality(T) = BurstSize
    /\ \A r, s \in T : org[r] = org[s] /\ {r, s} \notin overlaps
    /\ \A r \in T : line[r].level = "ERROR" /\ age[r] = 0
    => \E r \in T : alert[r] # "NONE"

=============================================================================
