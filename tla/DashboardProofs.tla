--------------------------- MODULE DashboardProofs ---------------------------
(***************************************************************************)
(* What the dashboard shows belongs to the session and agrees with itself, *)
(* for any number of rows, organizations and refreshes under way.  The     *)
(* invariant follows the refreshes of the dashboard that is mounted now:   *)
(* one of an earlier dashboard may hold rows of one organization and       *)
(* counts of another, and never gets to show them.                         *)
(***************************************************************************)
EXTENDS Dashboard, FiniteSetTheorems, WellFoundedInduction, TLAPS

Answers == [list : SUBSET committed, total : Nat, by : [Levels -> Nat]]
Refreshes ==
  [at : {"idle", "logs", "listed", "metrics", "counted"}, mount : Nat, sent : Tokens,
   answer : Answers]

\* The types; the rows of a list are committed, and so there are finitely many.
Types ==
  /\ committed \subseteq Logs /\ IsFiniteSet(committed)
  /\ token \in Tokens /\ stored \in Tokens /\ session \in Tokens /\ me \in Tokens \cup {"idle"}
  /\ mounts \in Nat /\ shown \in Answers /\ call \in [Connections -> Refreshes]

\* The storage and the session of a tab that is alone agree but for an expired token.
SessionAgrees ==
  /\ session = stored /\ token \in {stored, "expired"}
  /\ me \in {"idle", stored, "expired"}

\* A dashboard that waits for fetchMe has not begun.
WaitingIsEmpty ==
  me # "idle" => shown = Nothing /\ \A c \in Connections : call[c].at = "idle"

OfOrg(answer, o) == \A l \in answer.list : OrgOf[l] = o
Agrees(answer) ==
  /\ \A v \in Levels : CountsOf(answer.list)[v] <= answer.by[v]
  /\ Cardinality(answer.list) <= answer.total

\* A refresh belongs to the mounted dashboard or to an earlier one, and one of the
\* mounted dashboard asks for what the session may see.
Asks(c) ==
  call[c].at # "idle" =>
    /\ call[c].mount <= mounts
    /\ call[c].mount = mounts /\ session # "none" =>
         /\ call[c].sent \in {session, "expired"}
         /\ OfOrg(call[c].answer, session)
         /\ call[c].at = "counted" => Agrees(call[c].answer)

Alone ==
  /\ SessionAgrees /\ WaitingIsEmpty
  /\ \A c \in Connections : Asks(c)
  /\ OfOrg(shown, session) /\ Agrees(shown)

DashboardInv == Types /\ (others = {} => Alone)

----------------------------------------------------------------------------
(* Answers. *)

LEMMA NoNameIsAnOrg == Orgs \cap {"none", "expired", "idle"} = {}
BY DashboardConstants

\* More rows are counted at least as often.
LEMMA MoreRowsCountMore ==
  ASSUME IsFiniteSet(committed), NEW T \in SUBSET committed, NEW S \in SUBSET T
  PROVE  /\ Cardinality(S) \in Nat /\ Cardinality(T) \in Nat
         /\ Cardinality(S) <= Cardinality(T)
         /\ CountsOf(S) \in [Levels -> Nat] /\ CountsOf(T) \in [Levels -> Nat]
         /\ \A v \in Levels : CountsOf(S)[v] <= CountsOf(T)[v]
<1>1. IsFiniteSet(T) /\ IsFiniteSet(S)
  BY FS_Subset
<1>2. ASSUME NEW v \in Levels
      PROVE  /\ Cardinality({l \in S : LevelOf[l] = v}) \in Nat
             /\ Cardinality({l \in T : LevelOf[l] = v}) \in Nat
             /\ Cardinality({l \in S : LevelOf[l] = v}) <= Cardinality({l \in T : LevelOf[l] = v})
  <2>1. {l \in T : LevelOf[l] = v} \subseteq T
        /\ {l \in S : LevelOf[l] = v} \subseteq {l \in T : LevelOf[l] = v}
    OBVIOUS
  <2>2. IsFiniteSet({l \in T : LevelOf[l] = v}) /\ IsFiniteSet({l \in S : LevelOf[l] = v})
    BY <1>1, <2>1, FS_Subset
  <2> QED
    BY <2>1, <2>2, FS_Subset, FS_CardinalityType
<1> QED
  BY <1>1, <1>2, FS_Subset, FS_CardinalityType DEF CountsOf

LEMMA EmptyAnswer ==
  ASSUME NEW o
  PROVE  Nothing \in Answers /\ Agrees(Nothing) /\ OfOrg(Nothing, o)
<1>1. Cardinality({}) = 0
  BY FS_EmptySet
<1>2. \A v \in Levels : CountsOf({})[v] = 0
  BY <1>1 DEF CountsOf
<1> QED
  BY <1>1, <1>2 DEF Nothing, Answers, Agrees, OfOrg

LEMMA IdleIsRefresh == Idle \in Refreshes /\ Idle.at = "idle"
BY EmptyAnswer DEF Idle, Refreshes, Tokens

\* Without metrics the list is counted, and agrees with itself.
LEMMA FallbackAgrees ==
  ASSUME IsFiniteSet(committed), NEW a \in Answers, NEW o, OfOrg(a, o)
  PROVE  Fallback(a.list) \in Answers /\ Agrees(Fallback(a.list)) /\ OfOrg(Fallback(a.list), o)
<1>1. a.list \in SUBSET committed
  BY DEF Answers
<1>2. /\ Cardinality(a.list) \in Nat /\ CountsOf(a.list) \in [Levels -> Nat]
  BY <1>1, MoreRowsCountMore
<1> QED
  BY <1>1, <1>2 DEF Fallback, Answers, Agrees, OfOrg

\* What get_logs adds to an answer.
LEMMA ListedAnswer ==
  ASSUME NEW c \in Connections, call[c] \in Refreshes, NEW list \in SUBSET committed
  PROVE  LET new == [call[c] EXCEPT !.at = "listed", !.answer.list = list]
         IN  /\ new \in Refreshes
             /\ new.at = "listed" /\ new.mount = call[c].mount /\ new.sent = call[c].sent
             /\ new.answer.list = list
BY DEF Refreshes, Answers

----------------------------------------------------------------------------
(* Types. *)

LEMMA NewestAreRows ==
  ASSUME NEW o PROVE Newest(RowsOf(o, committed)) \subseteq RowsOf(o, committed)
                     /\ RowsOf(o, committed) \subseteq committed
BY DEF Newest, RowsOf

\* The answer a refresh comes back with.
LEMMA ReadLogsAnswers ==
  ASSUME Types, NEW c \in Connections, ReadLogs(c)
  PROVE  \E new \in Refreshes :
           /\ call' = [call EXCEPT ![c] = new]
           /\ new.at = "listed" /\ new.mount = call[c].mount /\ new.sent = call[c].sent
           /\ new.answer.list \subseteq RowsOf(call[c].sent, committed)
<1> DEFINE list == Newest(RowsOf(call[c].sent, committed))
           new == [call[c] EXCEPT !.at = "listed", !.answer.list = list]
<1>1. call[c] \in Refreshes /\ list \in SUBSET committed
  BY NewestAreRows DEF Types
<1>2. call' = [call EXCEPT ![c] = new]
  BY DEF ReadLogs, Becomes
<1>3. /\ new \in Refreshes
      /\ new.at = "listed" /\ new.mount = call[c].mount /\ new.sent = call[c].sent
      /\ new.answer.list = list
  BY <1>1, ListedAnswer
<1> HIDE DEF new
<1> QED
  BY <1>2, <1>3, NewestAreRows

LEMMA CountAnswers ==
  ASSUME Types, NEW c \in Connections, Count(c)
  PROVE  \E new \in Refreshes :
           /\ call' = [call EXCEPT ![c] = new]
           /\ new.at = "counted" /\ new.mount = call[c].mount /\ new.sent = call[c].sent
           /\ new.answer.list = call[c].answer.list
           /\ new.answer.total = Cardinality(RowsOf(call[c].sent, committed))
           /\ new.answer.by = CountsOf(RowsOf(call[c].sent, committed))
<1> DEFINE rows == RowsOf(call[c].sent, committed)
           n == Cardinality(rows)
           counts == CountsOf(rows)
           new == [call[c] EXCEPT !.at = "counted", !.answer.total = n, !.answer.by = counts]
<1>1. call[c] \in Refreshes /\ rows \in SUBSET committed /\ IsFiniteSet(committed)
  BY NewestAreRows DEF Types
<1>2. n \in Nat /\ counts \in [Levels -> Nat]
  BY <1>1, MoreRowsCountMore
<1>3. call' = [call EXCEPT ![c] = new]
  BY DEF Count, Becomes
<1>4. n = Cardinality(RowsOf(call[c].sent, committed))
      /\ counts = CountsOf(RowsOf(call[c].sent, committed))
  OBVIOUS
<1> HIDE DEF n, counts
<1>5. /\ new \in Refreshes
      /\ new.at = "counted" /\ new.mount = call[c].mount /\ new.sent = call[c].sent
      /\ new.answer.list = call[c].answer.list
      /\ new.answer.total = n /\ new.answer.by = counts
  BY <1>1, <1>2 DEF Refreshes, Answers
<1> HIDE DEF new
<1>6. /\ new.answer.total = Cardinality(RowsOf(call[c].sent, committed))
      /\ new.answer.by = CountsOf(RowsOf(call[c].sent, committed))
  BY <1>4, <1>5
<1> QED
  BY <1>3, <1>5, <1>6, Zenon

\* An answer that is shown ends its refresh, and is shown by a mounted dashboard only.
LEMMA ShowShows ==
  ASSUME NEW c \in Connections, NEW answer, Show(c, answer)
  PROVE  /\ call' = [call EXCEPT ![c] = Idle]
         /\ shown' = IF Current(c) THEN answer ELSE shown
BY DEF Show, Becomes, display

LEMMA TypesInit == Init => Types
BY EmptyAnswer, IdleIsRefresh, FS_EmptySet DEF Init, Types, Tokens

LEMMA TypesStep == Types /\ [Next]_vars => Types'
<1> SUFFICES ASSUME Types, [Next]_vars PROVE Types'
  OBVIOUS
<1> USE DEF browser, display
<1>1. /\ Nothing \in Answers /\ Idle \in Refreshes
  BY EmptyAnswer, IdleIsRefresh
<1>2. ASSUME committed' = committed PROVE Answers' = Answers /\ Refreshes' = Refreshes
  BY <1>2 DEF Answers, Refreshes
<1>3. ASSUME NEW o \in Orgs, Login(o) PROVE Types'
  BY <1>1, <1>2, <1>3 DEF Login, Mounts, Types, Tokens
<1>4. CASE Logout
  BY <1>1, <1>2, <1>4 DEF Logout, Types, Tokens
<1>5. CASE Reload
  BY <1>1, <1>2, <1>5 DEF Reload, Mounts, Types
<1>6. CASE MeSucceeds \/ MeFails \/ Expire
  BY <1>2, <1>6 DEF MeSucceeds, MeFails, Expire, Types, Tokens
<1>7. ASSUME NEW o \in Orgs \cup {"none"}, OtherTab(o) PROVE Types'
  BY <1>2, <1>7 DEF OtherTab, Types, Tokens
<1>8. ASSUME NEW l \in Logs, CommitLog(l) PROVE Types'
  <2>1. committed' = committed \cup {l} /\ UNCHANGED <<browser, shown, call>>
    BY <1>8 DEF CommitLog
  <2>2. committed' \subseteq Logs /\ IsFiniteSet(committed')
    BY <2>1, FS_AddElement DEF Types
  <2>3. Answers \subseteq Answers' /\ Refreshes \subseteq Refreshes'
    BY <2>1 DEF Answers, Refreshes
  <2> QED
    BY <2>1, <2>2, <2>3 DEF Types
<1>9. CASE Disturb
  BY <1>2, <1>9 DEF Disturb, Types
<1>10. ASSUME NEW c \in Connections, Refresh(c) PROVE Types'
  <2>1. [Idle EXCEPT !.at = "logs", !.mount = mounts, !.sent = token] \in Refreshes
    BY <1>1 DEF Types, Refreshes
  <2> QED
    BY <1>2, <1>10, <2>1 DEF Refresh, Becomes, Types
<1>11. ASSUME NEW c \in Connections, Answered(c) \/ Failed(c) PROVE Types'
  <2>1. call[c] \in Refreshes /\ call[c].answer \in Answers /\ IsFiniteSet(committed)
    BY DEF Types, Refreshes
  <2>2. UNCHANGED <<committed, token, stored, session, me, mounts>>
    BY <1>11 DEF Answered, Failed, ReadLogs, FetchMetrics, Count, ShowMetrics, MetricsFail,
       LogsFail, Show
  <2>3. ASSUME \E new \in Refreshes : call' = [call EXCEPT ![c] = new], shown' \in Answers
        PROVE  Types'
    BY <1>2, <2>2, <2>3 DEF Types
  <2>4. CASE ReadLogs(c)
    BY <2>3, <2>4, ReadLogsAnswers DEF ReadLogs, Types
  <2>5. CASE Count(c)
    BY <2>3, <2>5, CountAnswers DEF Count, Types
  <2>6. CASE FetchMetrics(c)
    <3>1. [call[c] EXCEPT !.at = "metrics", !.sent = token] \in Refreshes
      BY <2>1 DEF Types, Refreshes
    <3> QED
      BY <2>3, <2>6, <3>1 DEF FetchMetrics, Becomes, Types
  <2>7. CASE ShowMetrics(c)
    BY <1>1, <2>1, <2>3, <2>7, ShowShows DEF ShowMetrics, Types
  <2>8. CASE MetricsFail(c)
    <3>1. Fallback(call[c].answer.list) \in Answers
      <4>1. call[c].answer.list \in SUBSET committed
        BY <2>1 DEF Answers
      <4> QED
        BY <2>1, <4>1, MoreRowsCountMore DEF Fallback, Answers
    <3> QED
      BY <1>1, <2>3, <2>8, <3>1, ShowShows DEF MetricsFail, Types
  <2>9. CASE LogsFail(c)
    BY <1>1, <2>3, <2>9 DEF LogsFail, Becomes, Types
  <2> QED
    BY <1>11, <2>4, <2>5, <2>6, <2>7, <2>8, <2>9 DEF Answered, Failed
<1>12. CASE UNCHANGED vars
  BY <1>2, <1>12 DEF vars, Types
<1> QED
  BY <1>3, <1>4, <1>5, <1>6, <1>7, <1>8, <1>9, <1>10, <1>11, <1>12 DEF Next

----------------------------------------------------------------------------
(* A tab that is alone. *)

LEMMA AsksStays ==
  ASSUME NEW c \in Connections, Asks(c), call'[c] = call[c], mounts' = mounts,
         session' \in {session, "none"}
  PROVE  Asks(c)'
BY DEF Asks, OfOrg, Agrees, CountsOf

LEMMA AnswerOfOrg ==
  ASSUME NEW o, NEW list \in SUBSET RowsOf(o, committed), NEW a, a.list = list
  PROVE  OfOrg(a, o)
BY DEF OfOrg, RowsOf

\* A request that is answered was made with a good token: that of the session.
LEMMA AnsweredIsOwn ==
  ASSUME NEW c \in Connections, Asks(c), call[c].at # "idle", call[c].sent \in Orgs,
         call[c].mount = mounts, session # "none"
  PROVE  call[c].sent = session
BY NoNameIsAnOrg DEF Asks

\* What is counted is at least what is listed, however many rows came in between.
LEMMA CountedAgrees ==
  ASSUME Types, NEW o, NEW a \in Answers, OfOrg(a, o), NEW b, b.list = a.list,
         b.total = Cardinality(RowsOf(o, committed)), b.by = CountsOf(RowsOf(o, committed))
  PROVE  Agrees(b)
<1> DEFINE list == a.list
           rows == RowsOf(o, committed)
<1>1. rows \in SUBSET committed /\ list \in SUBSET rows /\ IsFiniteSet(committed)
  BY DEF OfOrg, RowsOf, Answers, Types
<1>2. /\ Cardinality(list) <= Cardinality(rows)
      /\ \A v \in Levels : CountsOf(list)[v] <= CountsOf(rows)[v]
  BY <1>1, MoreRowsCountMore
<1> QED
  BY <1>2 DEF Agrees

LEMMA AloneInit == Init => Alone
BY EmptyAnswer, IdleIsRefresh
   DEF Init, Alone, SessionAgrees, WaitingIsEmpty, Asks

\* The steps of one refresh.
LEMMA AloneRefreshes ==
  ASSUME Types, Alone, NEW c \in Connections, Refresh(c) \/ Answered(c) \/ Failed(c)
  PROVE  Alone'
<1> USE DEF browser, display
<1>1. /\ UNCHANGED <<committed, token, stored, session, me, mounts>>
      /\ \E new : call' = [call EXCEPT ![c] = new]
  BY DEF Refresh, Answered, Failed, ReadLogs, FetchMetrics, Count, ShowMetrics, MetricsFail,
     LogsFail, Show, Becomes
<1>2. /\ call[c] \in Refreshes /\ call[c].answer \in Answers /\ call[c].mount \in Nat
      /\ IsFiniteSet(committed) /\ mounts \in Nat
      /\ \A new : [call EXCEPT ![c] = new][c] = new
  BY DEF Types, Refreshes
<1>3. Asks(c) /\ OfOrg(shown, session) /\ Agrees(shown)
  BY DEF Alone
<1>4. me = "idle"
  BY DEF Alone, WaitingIsEmpty, Refresh, Mounted, Answered, Failed, ReadLogs, FetchMetrics, Count,
     ShowMetrics, MetricsFail, LogsFail, Is
<1>5. \A d \in Connections \ {c} : Asks(d)'
  <2> TAKE d \in Connections \ {c}
  <2>1. call'[d] = call[d]
    BY <1>1 DEF Types
  <2> QED
    BY <1>1, <2>1, AsksStays DEF Alone
<1>6. SUFFICES Asks(c)' /\ (shown' = shown \/ (OfOrg(shown', session) /\ Agrees(shown')))
  BY <1>1, <1>3, <1>4, <1>5
     DEF Alone, SessionAgrees, WaitingIsEmpty, OfOrg, Agrees, CountsOf
<1>7. ASSUME call'[c] = Idle PROVE Asks(c)'
  BY <1>7, IdleIsRefresh DEF Asks
<1>8. CASE Refresh(c)
  <2>1. /\ call'[c] = [Idle EXCEPT !.at = "logs", !.mount = mounts, !.sent = token]
        /\ shown' = shown
    BY <1>2, <1>8 DEF Refresh, Becomes
  <2>2. call'[c].at = "logs" /\ call'[c].mount = mounts /\ call'[c].sent = token
        /\ call'[c].answer = Nothing
    BY <2>1 DEF Idle
  <2>3. token \in {session, "expired"}
    BY DEF Alone, SessionAgrees
  <2> QED
    BY <1>1, <1>2, <2>1, <2>2, <2>3, EmptyAnswer DEF Asks
<1>9. CASE ReadLogs(c)
  <2>1. PICK new \in Refreshes :
          /\ call' = [call EXCEPT ![c] = new]
          /\ new.at = "listed" /\ new.mount = call[c].mount /\ new.sent = call[c].sent
          /\ new.answer.list \subseteq RowsOf(call[c].sent, committed)
    BY <1>9, ReadLogsAnswers
  <2>2. call'[c] = new /\ shown' = shown /\ call[c].at # "idle" /\ call[c].sent \in Orgs
    BY <1>2, <1>9, <2>1 DEF ReadLogs, Is
  <2>3. OfOrg(new.answer, call[c].sent)
    BY <2>1, AnswerOfOrg
  <2> QED
    BY <1>1, <1>3, <2>1, <2>2, <2>3, AnsweredIsOwn DEF Asks
<1>10. CASE FetchMetrics(c)
  <2>1. /\ call'[c] = [call[c] EXCEPT !.at = "metrics", !.sent = token]
        /\ shown' = shown /\ call[c].at # "idle"
    BY <1>2, <1>10 DEF FetchMetrics, Becomes, Is
  <2>2. call'[c].at = "metrics" /\ call'[c].mount = call[c].mount /\ call'[c].sent = token
        /\ call'[c].answer = call[c].answer
    BY <1>2, <2>1 DEF Refreshes
  <2>3. token \in {session, "expired"}
    BY DEF Alone, SessionAgrees
  <2> QED
    BY <1>1, <1>3, <2>1, <2>2, <2>3 DEF Asks
<1>11. CASE Count(c)
  <2>1. PICK new \in Refreshes :
          /\ call' = [call EXCEPT ![c] = new]
          /\ new.at = "counted" /\ new.mount = call[c].mount /\ new.sent = call[c].sent
          /\ new.answer.list = call[c].answer.list
          /\ new.answer.total = Cardinality(RowsOf(call[c].sent, committed))
          /\ new.answer.by = CountsOf(RowsOf(call[c].sent, committed))
    BY <1>11, CountAnswers
  <2>2. call'[c] = new /\ shown' = shown /\ call[c].at # "idle" /\ call[c].sent \in Orgs
    BY <1>2, <1>11, <2>1 DEF Count, Is
  <2>3. ASSUME new.mount = mounts, session # "none"
        PROVE  call[c].sent = session /\ OfOrg(new.answer, session) /\ Agrees(new.answer)
    <3>1. call[c].sent = session /\ OfOrg(call[c].answer, session)
      BY <1>3, <2>1, <2>2, <2>3, AnsweredIsOwn DEF Asks
    <3> QED
      BY <1>2, <2>1, <3>1, CountedAgrees DEF OfOrg
  <2> QED
    BY <1>1, <1>3, <2>1, <2>2, <2>3 DEF Asks
<1>12. CASE ShowMetrics(c)
  <2>1. call[c].at = "counted" /\ Show(c, call[c].answer)
    BY <1>12 DEF ShowMetrics, Is
  <2>2. Current(c) => OfOrg(call[c].answer, session) /\ Agrees(call[c].answer)
    BY <1>3, <2>1 DEF Current, Mounted, Asks
  <2> QED
    BY <1>2, <1>7, <2>1, <2>2, ShowShows
<1>13. CASE MetricsFail(c)
  <2> DEFINE counted == Fallback(call[c].answer.list)
  <2>1. call[c].at # "idle" /\ Show(c, counted)
    BY <1>13 DEF MetricsFail
  <2>2. ASSUME Current(c) PROVE OfOrg(counted, session) /\ Agrees(counted)
    <3>1. OfOrg(call[c].answer, session)
      BY <1>3, <2>1, <2>2 DEF Current, Mounted, Asks
    <3> QED
      BY <1>2, <3>1, FallbackAgrees
  <2> HIDE DEF counted
  <2> QED
    BY <1>2, <1>7, <2>1, <2>2, ShowShows
<1>14. CASE LogsFail(c)
  BY <1>2, <1>7, <1>14 DEF LogsFail, Becomes
<1> QED
  BY <1>8, <1>9, <1>10, <1>11, <1>12, <1>13, <1>14 DEF Answered, Failed

LEMMA AloneStep == Types /\ Alone /\ [Next]_vars /\ others' = {} => Alone'
<1> SUFFICES ASSUME Types, Alone, [Next]_vars, others' = {} PROVE Alone'
  OBVIOUS
<1> USE DEF browser, display
<1>1. SessionAgrees /\ WaitingIsEmpty /\ (\A c \in Connections : Asks(c))
      /\ OfOrg(shown, session) /\ Agrees(shown)
  BY DEF Alone
<1>2. /\ token \in Tokens /\ stored \in Tokens /\ session \in Tokens /\ mounts \in Nat
      /\ \A c \in Connections : call[c].mount \in Nat
  BY DEF Types, Refreshes
<1>3. ASSUME UNCHANGED <<call, mounts>>, session' \in {session, "none"}
      PROVE  \A c \in Connections : Asks(c)'
  BY <1>1, <1>3, AsksStays
<1>4. ASSUME UNCHANGED <<shown, session>>
      PROVE  OfOrg(shown, session)' /\ Agrees(shown)'
  BY <1>1, <1>4 DEF OfOrg, Agrees, CountsOf
<1>5. ASSUME shown' = Nothing
      PROVE  OfOrg(shown, session)' /\ Agrees(shown)'
  BY <1>5, EmptyAnswer DEF OfOrg, Agrees, CountsOf
<1>6. ASSUME NEW o \in Orgs, Login(o) PROVE Alone'
  <2>1. shown' = Nothing /\ me' = "idle" /\ session' = o /\ stored' = o /\ token' = o
    BY <1>6 DEF Login, Mounts
  <2>2. \A c \in Connections : Asks(c)'
    <3> SUFFICES ASSUME NEW c \in Connections, call[c].at # "idle"
                 PROVE  call[c].mount <= mounts + 1 /\ call[c].mount # mounts + 1
      BY <1>6 DEF Login, Mounts, Asks
    <3> QED
      BY <1>1, <1>2 DEF Asks
  <2> QED
    BY <1>5, <2>1, <2>2 DEF Alone, SessionAgrees, WaitingIsEmpty
<1>7. CASE Logout
  BY <1>1, <1>3, <1>5, <1>7 DEF Logout, Mounted, Alone, SessionAgrees, WaitingIsEmpty
<1>8. CASE Reload
  <2>1. \A c \in Connections : call'[c] = Idle /\ Asks(c)'
    BY <1>8, IdleIsRefresh DEF Reload, Asks
  <2>2. SessionAgrees'
    BY <1>1, <1>8 DEF Reload, SessionAgrees
  <2> QED
    BY <1>5, <1>8, <2>1, <2>2, IdleIsRefresh DEF Reload, Mounts, Alone, WaitingIsEmpty
<1>9. CASE MeSucceeds
  <2>1. me = stored /\ me = session /\ me # "idle"
    BY <1>1, <1>9, NoNameIsAnOrg DEF MeSucceeds, SessionAgrees
  <2> QED
    BY <1>1, <1>3, <1>4, <1>9, <2>1 DEF MeSucceeds, Alone, SessionAgrees, WaitingIsEmpty
<1>10. CASE MeFails
  BY <1>1, <1>3, <1>5, <1>10 DEF MeFails, Alone, SessionAgrees, WaitingIsEmpty
<1>11. CASE Expire
  BY <1>1, <1>3, <1>4, <1>11 DEF Expire, Alone, SessionAgrees, WaitingIsEmpty
<1>12. ASSUME NEW o \in Orgs \cup {"none"}, OtherTab(o) PROVE Alone'
  BY <1>12 DEF OtherTab
<1>13. ASSUME UNCHANGED <<browser, shown, call>> PROVE Alone'
  BY <1>1, <1>3, <1>4, <1>13 DEF Alone, SessionAgrees, WaitingIsEmpty
<1> QED
  BY <1>6, <1>7, <1>8, <1>9, <1>10, <1>11, <1>12, <1>13, AloneRefreshes
     DEF Next, CommitLog, Disturb, vars

----------------------------------------------------------------------------
(* The invariant and what follows from it. *)

\* Once another tab has changed the token, this tab is never alone again.
LEMMA NeverAloneAgain == [Next]_vars /\ others' = {} => others = {}
BY DEF Next, vars, Login, Logout, Reload, MeSucceeds, MeFails, Expire, OtherTab, CommitLog, Disturb,
   Refresh, Answered, Failed, ReadLogs, FetchMetrics, Count, ShowMetrics, MetricsFail, LogsFail,
   Show

LEMMA DashboardInvInit == Init => DashboardInv
BY TypesInit, AloneInit DEF DashboardInv

LEMMA DashboardInvStep == DashboardInv /\ [Next]_vars => DashboardInv'
BY TypesStep, AloneStep, NeverAloneAgain DEF DashboardInv

\* The list a tab shows is of the organization it is logged in to and its counts are
\* never smaller than what it lists (refresh of useLogs.js, the session of App.jsx).
THEOREM ShownIsOwn == Spec => []ShownAgrees
<1>1. DashboardInv => ShownAgrees
  BY DEF DashboardInv, Alone, OfOrg, Agrees, ShownAgrees
<1> QED
  BY <1>1, DashboardInvInit, DashboardInvStep, PTL DEF Spec

----------------------------------------------------------------------------
(* Pages: the LIMIT of get_logs, for any number of rows.                   *)

Above(l, rows) == {k \in rows : k > l}

LEMMA AbovesAreFinite ==
  ASSUME NEW rows, IsFiniteSet(rows), NEW l
  PROVE  IsFiniteSet(Above(l, rows)) /\ Cardinality(Above(l, rows)) \in Nat
<1>1. Above(l, rows) \in SUBSET rows
  BY DEF Above
<1> QED
  BY <1>1, FS_Subset, FS_CardinalityType

LEMMA LeastNatural ==
  ASSUME NEW S \in SUBSET Nat, S # {}
  PROVE  \E m \in S : \A k \in S : m <= k
<1> DEFINE R == OpToRel(<, Nat)
<1>1. IsWellFoundedOn(R, Nat)
  BY NatLessThanWellFounded
<1>2. \A i, j \in Nat : <<i, j>> \in R <=> i < j
  BY DEF OpToRel
<1> HIDE DEF R
<1>3. PICK m \in S : \A k \in S : ~(<<k, m>> \in R)
  BY <1>1, WFMin
<1>4. ASSUME NEW k \in S PROVE m <= k
  <2>1. k \in Nat /\ m \in Nat /\ ~(k < m)
    BY <1>2, <1>3
  <2> QED
    BY <2>1
<1> QED
  BY <1>4

\* All rows of a page but its oldest are above that one.
LEMMA PageIsShort ==
  ASSUME NEW rows \in SUBSET Nat, IsFiniteSet(rows)
  PROVE  /\ IsFiniteSet(Newest(rows)) /\ Cardinality(Newest(rows)) \in Nat
         /\ Cardinality(Newest(rows)) <= PageSize
<1> DEFINE page == Newest(rows)
<1>1. page \in SUBSET rows /\ \A l \in page : Cardinality(Above(l, rows)) < PageSize
  BY DEF Newest, Above
<1>2. IsFiniteSet(page) /\ Cardinality(page) \in Nat /\ PageSize \in Nat
  BY <1>1, FS_Subset, FS_CardinalityType, DashboardConstants
<1> SUFFICES Cardinality(page) <= PageSize
  BY <1>2
<1> HIDE DEF page
<1>3. CASE page = {}
  BY <1>2, <1>3, FS_EmptySet
<1>4. CASE page # {}
  <2>1. PICK oldest \in page : \A l \in page : oldest <= l
    BY <1>1, <1>4, LeastNatural
  <2>2. page \ {oldest} \in SUBSET Above(oldest, rows)
    <3>1. page \in SUBSET Nat
      BY <1>1
    <3> QED
      BY <1>1, <2>1, <3>1 DEF Above
  <2>3. Cardinality(page \ {oldest}) = Cardinality(page) - 1
    BY <1>2, <2>1, FS_RemoveElement
  <2>4. Cardinality(page \ {oldest}) <= Cardinality(Above(oldest, rows))
    BY <2>2, AbovesAreFinite, FS_Subset
  <2> QED
    BY <1>1, <1>2, <2>1, <2>3, <2>4, AbovesAreFinite
<1> QED
  BY <1>3, <1>4

\* The newest row that is not on the page has a full page above it.
LEMMA PageIsFull ==
  ASSUME NEW rows \in SUBSET Nat, IsFiniteSet(rows), Newest(rows) # rows
  PROVE  Cardinality(Newest(rows)) = PageSize
<1> DEFINE page == Newest(rows)
           left == rows \ page
           sizes == {Cardinality(Above(l, rows)) : l \in left}
<1>1. /\ page \in SUBSET rows /\ left # {} /\ PageSize \in Nat
      /\ \A l \in left : ~(Cardinality(Above(l, rows)) < PageSize)
  BY DashboardConstants DEF Newest, Above
<1>2. sizes \in SUBSET Nat /\ sizes # {}
  BY <1>1, AbovesAreFinite
<1> HIDE DEF page
<1>3. PICK l \in left : \A k \in left : Cardinality(Above(l, rows)) <= Cardinality(Above(k, rows))
  <2> HIDE DEF sizes
  <2>1. PICK n \in sizes : \A m \in sizes : n <= m
    BY <1>2, LeastNatural
  <2> USE DEF sizes
  <2> QED
    BY <2>1
<1>4. Above(l, rows) \in SUBSET page
  <2> SUFFICES ASSUME NEW k \in Above(l, rows), k \in left PROVE FALSE
    BY DEF Above
  <2>1. Above(k, rows) \in SUBSET (Above(l, rows) \ {k})
    <3>1. k \in Nat /\ l \in Nat /\ k > l
      BY DEF Above
    <3>2. ASSUME NEW j \in Above(k, rows) PROVE j \in Above(l, rows) /\ j # k
      <4>1. j \in rows /\ j \in Nat /\ j > k
        BY DEF Above
      <4> QED
        BY <3>1, <4>1 DEF Above
    <3> QED
      BY <3>2
  <2>2. /\ IsFiniteSet(Above(l, rows) \ {k})
        /\ Cardinality(Above(l, rows) \ {k}) = Cardinality(Above(l, rows)) - 1
    BY AbovesAreFinite, FS_RemoveElement
  <2>3. Cardinality(Above(k, rows)) <= Cardinality(Above(l, rows)) - 1
    BY <2>1, <2>2, FS_Subset
  <2> QED
    BY <1>3, <2>3, AbovesAreFinite
<1>5. Cardinality(Above(l, rows)) <= Cardinality(page)
  BY <1>1, <1>4, FS_Subset
<1> QED
  BY <1>1, <1>5, PageIsShort, AbovesAreFinite DEF page

PageLengths ==
  /\ Cardinality(shown.list) <= PageSize
  /\ \A c \in Connections : Cardinality(call[c].answer.list) <= PageSize

LEMMA PageLengthsInit == Init => PageLengths
<1>1. Cardinality(Nothing.list) <= PageSize
  BY FS_EmptySet, DashboardConstants DEF Nothing
<1>2. Idle.answer = Nothing
  BY DEF Idle
<1> QED
  BY <1>1, <1>2 DEF Init, PageLengths

LEMMA PageLengthsStep == Types /\ PageLengths /\ [Next]_vars => PageLengths'
<1> SUFFICES ASSUME Types, PageLengths, [Next]_vars PROVE PageLengths'
  OBVIOUS
<1> USE DEF browser, display
<1>1. Cardinality(Nothing.list) <= PageSize /\ Cardinality(Idle.answer.list) <= PageSize
  BY FS_EmptySet, DashboardConstants DEF Idle, Nothing
<1>2. ASSUME shown' \in {shown, Nothing},
             UNCHANGED call \/ call' = [c \in Connections |-> Idle]
      PROVE  PageLengths'
  BY <1>1, <1>2 DEF PageLengths
<1>3. ASSUME NEW c \in Connections, NEW new, call' = [call EXCEPT ![c] = new],
             Cardinality(new.answer.list) <= PageSize, Cardinality(shown'.list) <= PageSize
      PROVE  PageLengths'
  BY <1>3 DEF PageLengths, Types
<1>4. ASSUME NEW c \in Connections, Refresh(c) \/ Answered(c) \/ Failed(c) PROVE PageLengths'
  <2>1. call[c] \in Refreshes /\ Cardinality(call[c].answer.list) <= PageSize
        /\ Cardinality(shown.list) <= PageSize
    BY DEF Types, PageLengths
  <2>2. CASE Refresh(c)
    <3>1. [Idle EXCEPT !.at = "logs", !.mount = mounts, !.sent = token].answer = Idle.answer
      BY DEF Idle
    <3> HIDE DEF Idle
    <3> QED
      BY <1>1, <1>3, <2>1, <2>2, <3>1 DEF Refresh, Becomes
  <2>3. CASE ReadLogs(c)
    <3> DEFINE list == Newest(RowsOf(call[c].sent, committed))
               new == [call[c] EXCEPT !.at = "listed", !.answer.list = list]
    <3>1. RowsOf(call[c].sent, committed) \in SUBSET committed
          /\ committed \in SUBSET Nat /\ IsFiniteSet(committed)
      BY DashboardConstants DEF RowsOf, Types
    <3>2. Cardinality(list) <= PageSize
      BY <3>1, FS_Subset, PageIsShort
    <3> HIDE DEF list
    <3>3. new.answer.list = list
      BY <2>1 DEF Refreshes, Answers
    <3>4. call' = [call EXCEPT ![c] = new] /\ shown' = shown
      BY <2>3 DEF ReadLogs, Becomes, list
    <3> HIDE DEF new
    <3> QED
      BY <1>3, <2>1, <3>2, <3>3, <3>4
  <2>4. CASE FetchMetrics(c)
    <3> DEFINE new == [call[c] EXCEPT !.at = "metrics", !.sent = token]
    <3>1. new.answer = call[c].answer
      BY <2>1 DEF Refreshes
    <3>2. call' = [call EXCEPT ![c] = new] /\ shown' = shown
      BY <2>4 DEF FetchMetrics, Becomes
    <3> HIDE DEF new
    <3> QED
      BY <1>3, <2>1, <3>1, <3>2
  <2>5. CASE Count(c)
    BY <1>3, <2>1, <2>5, CountAnswers DEF Count
  <2>6. ASSUME NEW answer, Show(c, answer), answer.list = call[c].answer.list PROVE PageLengths'
    BY <1>1, <1>3, <2>1, <2>6, ShowShows
  <2>7. CASE ShowMetrics(c)
    BY <2>6, <2>7 DEF ShowMetrics
  <2>8. CASE MetricsFail(c)
    BY <2>6, <2>8 DEF MetricsFail, Fallback
  <2>9. CASE LogsFail(c)
    BY <1>1, <1>3, <2>1, <2>9 DEF LogsFail, Becomes
  <2> QED
    BY <1>4, <2>2, <2>3, <2>4, <2>5, <2>7, <2>8, <2>9 DEF Answered, Failed
<1> QED
  BY <1>2, <1>4 DEF Next, Login, Logout, Reload, Mounts, MeSucceeds, MeFails, Expire, OtherTab,
     CommitLog, Disturb, vars

\* The dashboard never lists more than the LIMIT of get_logs, and what it converges to
\* (UpToDate) leaves out no row unless it lists as many as that.
THEOREM PagesAreWhole ==
  Spec => [](/\ Cardinality(shown.list) <= PageSize
             /\ \/ UpToDate.list = RowsOf(token, committed)
                \/ Cardinality(UpToDate.list) = PageSize)
<1>1. Types => \/ UpToDate.list = RowsOf(token, committed)
               \/ Cardinality(UpToDate.list) = PageSize
  <2> SUFFICES ASSUME Types PROVE \/ UpToDate.list = RowsOf(token, committed)
                                 \/ Cardinality(UpToDate.list) = PageSize
    OBVIOUS
  <2>1. RowsOf(token, committed) \in SUBSET committed
        /\ committed \in SUBSET Nat /\ IsFiniteSet(committed)
    BY DashboardConstants DEF RowsOf, Types
  <2> QED
    BY <2>1, FS_Subset, PageIsFull DEF UpToDate
<1>2. PageLengths => Cardinality(shown.list) <= PageSize
  BY DEF PageLengths
<1> QED
  BY <1>1, <1>2, TypesInit, TypesStep, PageLengthsInit, PageLengthsStep, PTL DEF Spec

=============================================================================
