------------------------------ MODULE Dashboard ------------------------------
(***************************************************************************)
(* One browser tab: its session (App.jsx) and the list of logs with the    *)
(* counts above it (useLogs.js), which every refresh gets with two         *)
(* requests, one after the other, of get_logs and of get_metrics.          *)
(* Refreshes overlap, their answers arrive in any order, some outlive a    *)
(* logout, and other tabs share the token in localStorage.                 *)
(***************************************************************************)
EXTENDS Naturals, FiniteSets

CONSTANTS Logs,         \* ids of rows of the table logs
          Orgs,         \* organizations
          OrgOf, LevelOf,
          Connections,  \* bound: refreshes under way
          PageSize,     \* LIMIT of get_logs
          MaxMounts     \* bound: how often the dashboard is mounted

Levels == {"ERROR", "WARNING", "INFO"}

ASSUME DashboardConstants ==
  /\ Logs \subseteq Nat /\ PageSize \in Nat /\ MaxMounts \in Nat
  /\ OrgOf \in [Logs -> Orgs] /\ LevelOf \in [Logs -> Levels]
  /\ Orgs \cap {"none", "expired", "idle"} = {}

VARIABLES
  committed,     \* the rows of logs
  down,          \* whether requests may fail: the network or the backend is disturbed
  token, stored, \* access_token and session in localStorage, by organization
  session,       \* the session App renders
  me,            \* "idle", or the token of the GET /auth/me under way
  mounts,        \* how often a dashboard was mounted
  shown,         \* its list and its counts
  error,         \* whether it reports a connection issue
  call,          \* what each refresh does
  others         \* history: another tab has changed the token

browser == <<token, stored, session, me, mounts>>
display == <<shown, error>>
vars == <<committed, down, browser, display, call, others>>

Tokens == Orgs \cup {"none", "expired"}
CountsOf(rows) == [v \in Levels |-> Cardinality({l \in rows : LevelOf[l] = v})]
Nothing == [list |-> {}, total |-> 0, by |-> [v \in Levels |-> 0]]
Idle == [at |-> "idle", mount |-> 0, sent |-> "none", answer |-> Nothing]

Init ==
  /\ committed = {} /\ down = {}
  /\ token = "none" /\ stored = "none" /\ session = "none" /\ me = "idle"
  /\ mounts = 0 /\ shown = Nothing /\ error = {}
  /\ call = [c \in Connections |-> Idle]
  /\ others = {}

Mounted == me = "idle" /\ session # "none"

----------------------------------------------------------------------------
(* The session. *)

\* A mounted dashboard is a new one: it shows nothing of the one before it.
Mounts ==
  /\ mounts < MaxMounts /\ mounts' = mounts + 1
  /\ shown' = Nothing /\ error' = {}

\* handleAuthenticated.
Login(o) ==
  /\ me = "idle" /\ session = "none"
  /\ token' = o /\ stored' = o /\ session' = o
  /\ Mounts
  /\ UNCHANGED <<committed, down, me, call, others>>

Logout ==
  /\ Mounted
  /\ token' = "none" /\ stored' = "none" /\ session' = "none"
  /\ shown' = Nothing /\ error' = {}
  /\ UNCHANGED <<committed, down, me, mounts, call, others>>

\* The tab is loaded again, and what was under way in it is no more.
Reload ==
  /\ session' = stored
  /\ me' = IF token = "none" THEN "idle" ELSE token
  /\ Mounts
  /\ call' = [c \in Connections |-> Idle]
  /\ UNCHANGED <<committed, down, token, stored, others>>

MeSucceeds ==
  /\ me \in Orgs
  /\ stored' = me /\ session' = me /\ me' = "idle"
  /\ UNCHANGED <<committed, down, token, mounts, display, call, others>>

\* Any failure of fetchMe ends the session, in every tab.
MeFails ==
  /\ me # "idle" /\ (down # {} \/ me \notin Orgs)
  /\ token' = "none" /\ stored' = "none" /\ session' = "none" /\ me' = "idle"
  /\ UNCHANGED <<committed, down, mounts, display, call, others>>

Expire ==
  /\ token \in Orgs /\ token' = "expired"
  /\ UNCHANGED <<committed, down, stored, session, me, mounts, display, call, others>>

\* A user logs in, or out, in another tab (bound: once).
OtherTab(o) ==
  /\ others = {}
  /\ token' = o /\ stored' = o /\ others' = {"yes"}
  /\ UNCHANGED <<committed, down, session, me, mounts, display, call>>

----------------------------------------------------------------------------
(* The backend. *)

CommitLog(l) ==
  /\ l \notin committed /\ committed' = committed \cup {l}
  /\ UNCHANGED <<down, browser, display, call, others>>

Disturb ==
  /\ down' = {"yes"} \ down
  /\ UNCHANGED <<committed, browser, display, call, others>>

RowsOf(o, rows) == {l \in rows : OrgOf[l] = o}
Newest(rows) == {l \in rows : Cardinality({k \in rows : k > l}) < PageSize}

Is(c, where) == call[c].at = where
Becomes(c, state) == call' = [call EXCEPT ![c] = state]

\* get_logs.
ReadLogs(c) ==
  /\ Is(c, "logs") /\ call[c].sent \in Orgs
  /\ Becomes(c, [call[c] EXCEPT !.at = "listed",
                                !.answer.list = Newest(RowsOf(call[c].sent, committed))])
  /\ UNCHANGED <<committed, down, browser, display, others>>

\* get_metrics: its COUNTs are one transaction, and so of one snapshot.
Count(c) ==
  /\ Is(c, "metrics") /\ call[c].sent \in Orgs
  /\ LET rows == RowsOf(call[c].sent, committed)
     IN Becomes(c, [call[c] EXCEPT !.at = "counted",
                      !.answer.total = Cardinality(rows), !.answer.by = CountsOf(rows)])
  /\ UNCHANGED <<committed, down, browser, display, others>>

----------------------------------------------------------------------------
(* refresh of useLogs.js. *)

\* On mounting, every three seconds and by the button.
Refresh(c) ==
  /\ Mounted /\ Is(c, "idle")
  /\ Becomes(c, [Idle EXCEPT !.at = "logs", !.mount = mounts, !.sent = token])
  /\ UNCHANGED <<committed, down, browser, display, others>>

\* The list is there and the metrics are asked for, with the token of now.
FetchMetrics(c) ==
  /\ Is(c, "listed")
  /\ Becomes(c, [call[c] EXCEPT !.at = "metrics", !.sent = token])
  /\ UNCHANGED <<committed, down, browser, display, others>>

AnyMount(c) == Mounted   \* mutant: the state survives the dashboard
\* A setter of a dashboard that is no longer mounted does nothing.
Current(c) == Mounted /\ call[c].mount = mounts

ShowNewer(c, answer) ==   \* mutant: an answer that is not longer is taken for an old one
  /\ IF Current(c) /\ answer.total > shown.total
     THEN shown' = answer /\ error' = {} ELSE UNCHANGED display
  /\ Becomes(c, Idle)
  /\ UNCHANGED <<committed, down, browser, others>>

\* setLogs, setMetrics and setError, in one go.
Show(c, answer) ==
  /\ IF Current(c) THEN shown' = answer /\ error' = {} ELSE UNCHANGED display
  /\ Becomes(c, Idle)
  /\ UNCHANGED <<committed, down, browser, others>>

ShowMetrics(c) == Is(c, "counted") /\ Show(c, call[c].answer)

\* Not answered, or with 500, or with 401.
CanFail(c) == down # {} \/ call[c].sent \notin Orgs

\* calculateMetrics: without metrics, the list itself is counted.
Fallback(list) == [list |-> list, total |-> Cardinality(list), by |-> CountsOf(list)]
MetricsFail(c) ==
  /\ call[c].at \in {"metrics", "counted"} /\ CanFail(c)
  /\ Show(c, Fallback(call[c].answer.list))

\* The first request fails: the list stays as it is.
LogsFail(c) ==
  /\ call[c].at \in {"logs", "listed"} /\ CanFail(c)
  /\ error' = IF Current(c) THEN {"yes"} ELSE error
  /\ Becomes(c, Idle)
  /\ UNCHANGED <<committed, down, browser, shown, others>>

Answered(c) == ReadLogs(c) \/ FetchMetrics(c) \/ Count(c) \/ ShowMetrics(c)
Failed(c) == MetricsFail(c) \/ LogsFail(c)

Next ==
  \/ \E o \in Orgs : Login(o)
  \/ Logout \/ Reload \/ MeSucceeds \/ MeFails \/ Expire
  \/ \E o \in Orgs \cup {"none"} : OtherTab(o)
  \/ \E l \in Logs : CommitLog(l)
  \/ Disturb
  \/ \E c \in Connections : Refresh(c) \/ Answered(c) \/ Failed(c)

Spec == Init /\ [][Next]_vars

\* The interval goes off again and again, and every request ends.
FairSpec ==
  /\ Spec
  /\ WF_vars(\E c \in Connections : Refresh(c))
  /\ \A c \in Connections : WF_vars(Answered(c) \/ Failed(c))

----------------------------------------------------------------------------
(* Properties. *)

\* As long as no other tab changes the token, the list is of the organization
\* the tab is logged in to, also after a logout and a login with refreshes of
\* the old session under way; and the counts above it are never smaller than
\* what it shows, whatever is written between the two requests of a refresh.
ShownAgrees ==
  others = {} =>
    /\ \A l \in shown.list : OrgOf[l] = session
    /\ \A v \in Levels : CountsOf(shown.list)[v] <= shown.by[v]
    /\ Cardinality(shown.list) <= shown.total

\* Once nothing is written, nobody logs in or out and the backend is well or
\* not, the dashboard ends up showing what there is, without an error, if it is
\* well and the token good, whatever refreshes were under way and whatever they
\* have shown: the rows of the organization of the token, that is.
Quiet == UNCHANGED <<committed, down, browser>>
UpToDate == [list |-> Newest(RowsOf(token, committed)),
             total |-> Cardinality(RowsOf(token, committed)),
             by |-> CountsOf(RowsOf(token, committed))]
DashboardConverges ==
  <>[][Quiet]_vars =>
    <>[](Mounted /\ down = {} /\ token \in Orgs => shown = UpToDate /\ error = {})

=============================================================================
