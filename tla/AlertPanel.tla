----------------------------- MODULE AlertPanel -----------------------------
(***************************************************************************)
(* The life of the alerts of one organization: update_alert, acknowledge   *)
(* and resolve of main.py, and the panels of its users (AlertsPanel.jsx),  *)
(* which list the open ones every three seconds and act on what they list. *)
(* A browser has several requests under way at once and their answers      *)
(* arrive in any order, so that a panel may show, and act on, what is no   *)
(* longer true.                                                            *)
(***************************************************************************)
EXTENDS Naturals, FiniteSets

CONSTANTS Alerts,      \* rows of the table alerts
          Panels,      \* open dashboards
          Connections, \* bound: requests of a browser under way
          Patches,     \* payloads other clients send with PATCH
          PageSize,    \* LIMIT of get_alerts
          Times,       \* values of created_at
          NoAlert      \* no alert is meant

Columns == [acknowledged : {"null", "true", "false"}, resolved : {"null", "true", "false"},
            status : {"null", "OPEN", "ACKNOWLEDGED", "RESOLVED"}]

ASSUME PanelConstants ==
  PageSize \in Nat /\ Times \subseteq Nat /\ NoAlert \notin Alerts /\ Patches \subseteq Columns

VARIABLES
  inserted,     \* the alerts in the table
  createdAt,    \* created_at, a time at which transactions insert and not commit
  acknowledged, resolved, status,
  shown,        \* the list a panel renders
  call,         \* what each connection of a panel does
  patched       \* history: the alerts a PATCH was sent for

table == <<inserted, createdAt, acknowledged, resolved, status>>
vars == <<table, shown, call, patched>>

NoPage == [alerts |-> {}, acknowledged |-> {}]
Free == [does |-> "nothing", phase |-> "sent", alert |-> NoAlert, page |-> NoPage]
Listing == [Free EXCEPT !.does = "list"]
Posting(what, a) == [Free EXCEPT !.does = what, !.alert = a]

Init ==
  /\ inserted = {} /\ createdAt \in [Alerts -> Times]
  /\ acknowledged = {} /\ resolved = {} /\ status = [a \in Alerts |-> "OPEN"]
  /\ shown = [p \in Panels |-> NoPage]
  /\ call = [p \in Panels |-> [c \in Connections |-> Free]]
  /\ patched = {}

----------------------------------------------------------------------------
(* The backend. *)

\* An alert of Ingest is committed.
Raise(a) ==
  /\ a \notin inserted
  /\ inserted' = inserted \cup {a}
  /\ UNCHANGED <<createdAt, acknowledged, resolved, status, shown, call, patched>>

AnyAlert == inserted   \* mutant: resolved alerts are listed too

\* WHERE resolved = FALSE.
Open == inserted \ resolved

\* ORDER BY created_at DESC LIMIT: the newest, and any of those inserted within
\* the same second.
IsNewest(page) ==
  /\ page \subseteq Open
  /\ Cardinality(page) <= PageSize
  /\ page # Open => Cardinality(page) = PageSize
  /\ \A a \in page, b \in Open \ page : createdAt[a] >= createdAt[b]

\* What get_alerts may answer.
Pages == {[alerts |-> page, acknowledged |-> page \cap acknowledged] :
            page \in {S \in SUBSET Open : IsNewest(S)}}

ReopeningAcknowledge ==   \* mutant
  [acknowledged |-> "true", resolved |-> "false", status |-> "ACKNOWLEDGED"]
ResolveOnly ==            \* mutant
  [acknowledged |-> "null", resolved |-> "true", status |-> "RESOLVED"]
Acknowledge == [acknowledged |-> "true", resolved |-> "null", status |-> "ACKNOWLEDGED"]
Resolve == [acknowledged |-> "true", resolved |-> "true", status |-> "RESOLVED"]
Payload(what) == IF what = "acknowledge" THEN Acknowledge ELSE Resolve

\* column=%s, for the alerts with the value TRUE; a null is not among the updates.
Assign(column, a, value) ==
  IF value = "null" THEN column
  ELSE IF value = "true" THEN column \cup {a} ELSE column \ {a}
NewStatus(a, payload) == IF payload.status = "null" THEN status[a] ELSE payload.status

\* Mutant: every id is taken for an alert.
ChangesAny(a, payload) ==
  \/ Assign(acknowledged, a, payload.acknowledged) # acknowledged
  \/ Assign(resolved, a, payload.resolved) # resolved
  \/ NewStatus(a, payload) # status[a]

\* rowcount: MySQL counts the rows an UPDATE changes, not those it finds.
Changes(a, payload) ==
  /\ a \in inserted
  /\ \/ Assign(acknowledged, a, payload.acknowledged) # acknowledged
     \/ Assign(resolved, a, payload.resolved) # resolved
     \/ NewStatus(a, payload) # status[a]

\* The UPDATE and its commit.
Update(a, payload) ==
  /\ acknowledged' = Assign(acknowledged, a, payload.acknowledged)
  /\ resolved' = Assign(resolved, a, payload.resolved)
  /\ status' = [status EXCEPT ![a] = NewStatus(a, payload)]
  /\ UNCHANGED <<inserted, createdAt>>

\* PATCH /api/alerts/{alert_id}, of which only the effect matters here.
Patch(a, payload) ==
  /\ Changes(a, payload)
  /\ Update(a, payload)
  /\ patched' = patched \cup {a}
  /\ UNCHANGED <<shown, call>>

----------------------------------------------------------------------------
(* A panel p and its connection c. *)

Is(p, c, what, phase) == call[p][c].does = what /\ call[p][c].phase = phase
Becomes(p, c, state) == call' = [call EXCEPT ![p][c] = state]

\* refresh, on mounting and at every interval.
Poll(p, c) ==
  /\ Is(p, c, "nothing", "sent")
  /\ Becomes(p, c, Listing)
  /\ UNCHANGED <<table, shown, patched>>

\* get_alerts.
Read(p, c) ==
  /\ Is(p, c, "list", "sent")
  /\ \E page \in Pages : Becomes(p, c, [Listing EXCEPT !.phase = "ok", !.page = page])
  /\ UNCHANGED <<table, shown, patched>>

\* Mutant: the list is extended, as for a log.
Extend(p, c) ==
  /\ Is(p, c, "list", "ok")
  /\ shown' = [shown EXCEPT ![p] =
                 [alerts |-> @.alerts \cup call[p][c].page.alerts,
                  acknowledged |-> @.acknowledged \cup call[p][c].page.acknowledged]]
  /\ Becomes(p, c, Free)
  /\ UNCHANGED <<table, patched>>

\* setAlerts(res.data), whatever was listed meanwhile.
SetAlerts(p, c) ==
  /\ Is(p, c, "list", "ok")
  /\ shown' = [shown EXCEPT ![p] = call[p][c].page]
  /\ Becomes(p, c, Free)
  /\ UNCHANGED <<table, patched>>

LooksOpen(page, a) == a \in page.alerts \ page.acknowledged

\* Mutant: the button is not taken away from acknowledged alerts.
AcknowledgeAgain(p, c, a) ==
  /\ Is(p, c, "nothing", "sent") /\ a \in shown[p].alerts
  /\ Becomes(p, c, Posting("acknowledge", a))
  /\ UNCHANGED <<table, shown, patched>>

\* The buttons of an alert.  Nothing disables them while a request is under way.
ClickAcknowledge(p, c, a) ==
  /\ Is(p, c, "nothing", "sent") /\ LooksOpen(shown[p], a)
  /\ Becomes(p, c, Posting("acknowledge", a))
  /\ UNCHANGED <<table, shown, patched>>
ClickResolve(p, c, a) ==
  /\ Is(p, c, "nothing", "sent") /\ a \in shown[p].alerts
  /\ Becomes(p, c, Posting("resolve", a))
  /\ UNCHANGED <<table, shown, patched>>

\* acknowledge_alert and resolve_alert: update_alert commits or answers 404.
Post(p, c, what) ==
  /\ Is(p, c, what, "sent")
  /\ LET a == call[p][c].alert
     IN \/ /\ Changes(a, Payload(what))
           /\ Update(a, Payload(what))
           /\ Becomes(p, c, [call[p][c] EXCEPT !.phase = "ok"])
        \/ /\ ~Changes(a, Payload(what))
           /\ Becomes(p, c, [call[p][c] EXCEPT !.phase = "notfound"])
           /\ UNCHANGED table
  /\ UNCHANGED <<shown, patched>>

\* After the await, fetchAlerts; a 404 makes the await throw.
Return(p, c, what) ==
  /\ \/ Is(p, c, what, "ok") /\ Becomes(p, c, Listing)
     \/ Is(p, c, what, "notfound") /\ Becomes(p, c, Free)
  /\ UNCHANGED <<table, shown, patched>>

\* A request or its answer is lost, or answered 401 or 500: the promise is
\* rejected and nothing is fetched.
Fail(p, c) ==
  /\ call[p][c].does # "nothing"
  /\ Becomes(p, c, Free)
  /\ UNCHANGED <<table, shown, patched>>

Click(p, c) == \E a \in Alerts : ClickAcknowledge(p, c, a) \/ ClickResolve(p, c, a)
Ends(p, c) ==
  \/ Read(p, c) \/ SetAlerts(p, c) \/ Fail(p, c)
  \/ \E what \in {"acknowledge", "resolve"} : Post(p, c, what) \/ Return(p, c, what)

Next ==
  \/ \E a \in Alerts : Raise(a) \/ \E payload \in Patches : Patch(a, payload)
  \/ \E p \in Panels, c \in Connections : Poll(p, c) \/ Click(p, c) \/ Ends(p, c)

Spec == Init /\ [][Next]_vars

\* Every request ends; the interval goes off again and again, and not every
\* GET fails.
PollsArrive ==
  \A p \in Panels :
    /\ SF_vars(\E c \in Connections : Poll(p, c))
    /\ SF_vars(\E c \in Connections : Read(p, c))
    /\ SF_vars(\E c \in Connections : SetAlerts(p, c))
    /\ \A c \in Connections : WF_vars(Ends(p, c))
FairSpec == Spec /\ PollsArrive

\* The users resolve what they are shown, and not every such POST fails.
PostsResolve(p, c, a) == Post(p, c, "resolve") /\ call[p][c].alert = a
UsersRespond ==
  \A p \in Panels, a \in Alerts :
    /\ SF_vars(\E c \in Connections : ClickResolve(p, c, a))
    /\ SF_vars(\E c \in Connections : PostsResolve(p, c, a))

----------------------------------------------------------------------------
(* Properties. *)

PageType == [alerts : SUBSET Alerts, acknowledged : SUBSET Alerts]
CallType == [does : {"nothing", "list", "acknowledge", "resolve"},
             phase : {"sent", "ok", "notfound"}, alert : Alerts \cup {NoAlert}, page : PageType]

TypeOK ==
  /\ inserted \subseteq Alerts /\ createdAt \in [Alerts -> Times]
  /\ acknowledged \subseteq inserted /\ resolved \subseteq inserted
  /\ status \in [Alerts -> {"OPEN", "ACKNOWLEDGED", "RESOLVED"}]
  /\ shown \in [Panels -> PageType]
  /\ call \in [Panels -> [Connections -> CallType]]
  /\ patched \subseteq Alerts

\* However a click is answered, with the alert or with 404 because another
\* user was first, what the user wanted is done and stays done, whatever the
\* others click; only a PATCH can undo it.
AnsweredMeansDone ==
  \A p \in Panels, c \in Connections :
    LET k == call[p][c]
    IN k.phase \in {"ok", "notfound"} /\ k.alert \notin patched =>
         /\ k.does = "acknowledge" => k.alert \in acknowledged
         /\ k.does = "resolve" => k.alert \in resolved \cap acknowledged

\* The status the history shows never claims more than the flags the panel
\* and the metrics select by.
StatusAgrees ==
  \A a \in inserted \ patched :
    /\ status[a] = "OPEN" <=> a \notin acknowledged
    /\ status[a] = "RESOLVED" => a \in resolved
    /\ a \in resolved => a \in acknowledged

\* Resolved, and neither a list shown or under way offers to acknowledge it
\* nor is an acknowledgement under way.
Settled(a) ==
  /\ a \in resolved /\ status[a] = "RESOLVED"
  /\ \A p \in Panels :
       /\ ~LooksOpen(shown[p], a)
       /\ \A c \in Connections :
            /\ ~LooksOpen(call[p][c].page, a)
            /\ ~(Is(p, c, "acknowledge", "sent") /\ call[p][c].alert = a)

\* A resolution is set back to ACKNOWLEDGED by nothing but an acknowledgement
\* under way or a list from before it: once those are gone it is final.
SettledIsFinal == [][\A a \in Alerts \ patched' : Settled(a) => Settled(a)']_vars

\* When the table no longer changes, every panel ends up showing the newest
\* open alerts, however many stale lists were under way.
PanelsConverge ==
  \A p \in Panels : <>[][UNCHANGED table]_vars => <>[](shown[p] \in Pages)

\* If its users resolve what they are shown, an alert is resolved, also one
\* that the LIMIT hides when it is raised, once no alerts are raised that are
\* listed before it.  Under a stream of newer ones it need never be listed.
NewerOnesStop(a) == <>[][\A b \in inserted' \ inserted : createdAt[b] < createdAt[a]]_vars
BacklogDrains ==
  UsersRespond =>
    \A a \in Alerts : NewerOnesStop(a) => (a \in inserted ~> a \in resolved)

\* The answer 404 "Alert not found" means that there is no such alert.
NotFoundMeansAbsent ==
  \A p \in Panels, c \in Connections :
    call[p][c].phase = "notfound" => call[p][c].alert \notin inserted

=============================================================================
