-------------------------- MODULE AlertPanelProofs --------------------------
(***************************************************************************)
(* Safety of AlertPanel for any number of alerts, users, requests under    *)
(* way and payloads, and any LIMIT.  An answered click is done when it is  *)
(* answered, and no click undoes another: what ties the two together is    *)
(* that panels and requests name only alerts of the table.                 *)
(***************************************************************************)
EXTENDS AlertPanel, TLAPS

----------------------------------------------------------------------------
(* What requests and lists look like. *)

LEMMA FreeIsCall == Free \in CallType /\ NoPage \in PageType
  BY DEF Free, NoPage, CallType, PageType

LEMMA ListingIsCall == Listing \in CallType /\ Listing.does = "list" /\ Listing.page = NoPage
  BY DEF Listing, Free, NoPage, CallType, PageType

LEMMA PostingIsCall ==
  ASSUME NEW what \in {"acknowledge", "resolve"}, NEW a \in Alerts
  PROVE  /\ Posting(what, a) \in CallType
         /\ Posting(what, a).does = what /\ Posting(what, a).phase = "sent"
         /\ Posting(what, a).alert = a /\ Posting(what, a).page = NoPage
  BY DEF Posting, Free, NoPage, CallType, PageType

\* A list holds only open alerts.
LEMMA PagesListOpen ==
  ASSUME TypeOK, NEW page \in Pages
  PROVE  page \in PageType /\ page.alerts \subseteq Open
<1>1. PICK S \in SUBSET Open :
         page = [alerts |-> S, acknowledged |-> S \cap acknowledged]
  BY DEF Pages
<1>2. S \subseteq Alerts  BY <1>1 DEF TypeOK, Open
<1> QED  BY <1>1, <1>2 DEF PageType

LEMMA ListedIsCall ==
  ASSUME NEW page \in PageType
  PROVE  LET k == [Listing EXCEPT !.phase = "ok", !.page = page]
         IN k \in CallType /\ k.does = "list" /\ k.phase = "ok" /\ k.page = page
  BY DEF Listing, Free, NoPage, CallType, PageType

LEMMA PhaseIsCall ==
  ASSUME NEW k \in CallType, NEW phase \in {"ok", "notfound"}
  PROVE  LET n == [k EXCEPT !.phase = phase]
         IN n \in CallType /\ n.does = k.does /\ n.phase = phase /\ n.alert = k.alert
              /\ n.page = k.page
  BY DEF CallType

\* What a POST writes.
LEMMA PostWrites ==
  ASSUME NEW a \in Alerts, NEW what \in {"acknowledge", "resolve"}, Update(a, Payload(what))
  PROVE  /\ acknowledged' = acknowledged \cup {a}
         /\ resolved' = IF what = "resolve" THEN resolved \cup {a} ELSE resolved
         /\ status' = [status EXCEPT ![a] =
                         IF what = "resolve" THEN "RESOLVED" ELSE "ACKNOWLEDGED"]
         /\ UNCHANGED <<inserted, createdAt>>
<1>1. CASE what = "acknowledge"
  BY <1>1 DEF Update, Payload, Acknowledge, Assign, NewStatus
<1>2. CASE what = "resolve"
  BY <1>2 DEF Update, Payload, Resolve, Assign, NewStatus
<1> QED  BY <1>1, <1>2

\* A POST that changes nothing finds what it wants done.
LEMMA NotFoundIsDone ==
  ASSUME NEW a \in inserted, NEW what \in {"acknowledge", "resolve"}, ~Changes(a, Payload(what))
  PROVE  a \in acknowledged /\ (what = "resolve" => a \in resolved)
<1>1. CASE what = "acknowledge"
  BY <1>1 DEF Changes, Payload, Acknowledge, Assign
<1>2. CASE what = "resolve"
  BY <1>2 DEF Changes, Payload, Resolve, Assign
<1> QED  BY <1>1, <1>2

\* A PATCH concerns one alert.
LEMMA PatchWrites ==
  ASSUME TypeOK, NEW a \in Alerts, NEW payload \in Patches, Patch(a, payload)
  PROVE  /\ a \in inserted
         /\ acknowledged' \in {acknowledged, acknowledged \cup {a}, acknowledged \ {a}}
         /\ resolved' \in {resolved, resolved \cup {a}, resolved \ {a}}
         /\ status' \in [Alerts -> {"OPEN", "ACKNOWLEDGED", "RESOLVED"}]
         /\ \A b \in Alerts \ {a} : status'[b] = status[b]
         /\ patched' = patched \cup {a}
         /\ UNCHANGED <<inserted, createdAt, shown, call>>
<1>1. payload.status \in {"null", "OPEN", "ACKNOWLEDGED", "RESOLVED"}
  BY PanelConstants DEF Columns
<1>2. NewStatus(a, payload) \in {"OPEN", "ACKNOWLEDGED", "RESOLVED"}
  BY <1>1 DEF NewStatus, TypeOK
<1> QED  BY <1>2 DEF Patch, Update, Changes, Assign, TypeOK

----------------------------------------------------------------------------
(* Types. *)

LEMMA TypeInit == Init => TypeOK
BY FreeIsCall DEF Init, TypeOK

LEMMA TypeStep == TypeOK /\ [Next]_vars => TypeOK'
<1> SUFFICES ASSUME TypeOK, [Next]_vars PROVE TypeOK'
  OBVIOUS
<1> USE DEF table
\* A step of a connection of a panel that leaves the table alone.
<1>1. ASSUME NEW p \in Panels, NEW c \in Connections, NEW k \in CallType, Becomes(p, c, k),
             shown' \in [Panels -> PageType], UNCHANGED <<table, patched>>
      PROVE  TypeOK'
  BY <1>1 DEF TypeOK, Becomes
<1>2. CASE UNCHANGED vars
  BY <1>2 DEF vars, TypeOK
<1>3. ASSUME NEW a \in Alerts, Raise(a) PROVE TypeOK'
  BY <1>3 DEF Raise, TypeOK
<1>4. ASSUME NEW a \in Alerts, NEW payload \in Patches, Patch(a, payload) PROVE TypeOK'
  BY <1>4, PatchWrites DEF TypeOK
<1>5. ASSUME NEW p \in Panels, NEW c \in Connections, Poll(p, c) PROVE TypeOK'
  BY <1>5, <1>1, ListingIsCall DEF Poll, TypeOK
<1>6. ASSUME NEW p \in Panels, NEW c \in Connections, Click(p, c) PROVE TypeOK'
  <2>1. PICK a \in Alerts : ClickAcknowledge(p, c, a) \/ ClickResolve(p, c, a)
    BY <1>6 DEF Click
  <2> QED  BY <2>1, <1>1, PostingIsCall DEF ClickAcknowledge, ClickResolve, TypeOK
<1>7. ASSUME NEW p \in Panels, NEW c \in Connections, Ends(p, c) PROVE TypeOK'
  <2>0. call[p][c] \in CallType
    BY DEF TypeOK
  <2>1. CASE Read(p, c)
    <3>1. PICK page \in Pages : Becomes(p, c, [Listing EXCEPT !.phase = "ok", !.page = page])
      BY <2>1 DEF Read
    <3>2. page \in PageType
      BY PagesListOpen
    <3> QED  BY <2>1, <3>1, <3>2, <1>1, ListedIsCall DEF Read, TypeOK
  <2>2. CASE SetAlerts(p, c)
    <3>1. call[p][c].page \in PageType
      BY <2>0 DEF CallType
    <3>2. shown' \in [Panels -> PageType]
      BY <2>2, <3>1 DEF SetAlerts, TypeOK
    <3> QED  BY <2>2, <3>2, <1>1, FreeIsCall DEF SetAlerts
  <2>3. CASE Fail(p, c)
    BY <2>3, <1>1, FreeIsCall DEF Fail, TypeOK
  <2>4. ASSUME NEW what \in {"acknowledge", "resolve"}, Post(p, c, what) PROVE TypeOK'
    <3> DEFINE a == call[p][c].alert
    <3>1. CASE /\ Changes(a, Payload(what)) /\ Update(a, Payload(what))
               /\ Becomes(p, c, [call[p][c] EXCEPT !.phase = "ok"])
      <4>1. a \in inserted /\ a \in Alerts
        BY <3>1 DEF Changes, TypeOK
      <4>2. [call[p][c] EXCEPT !.phase = "ok"] \in CallType
        BY <2>0, PhaseIsCall
      <4>3. call' \in [Panels -> [Connections -> CallType]]
        BY <3>1, <4>2 DEF Becomes, TypeOK
      <4>4. /\ acknowledged' \subseteq inserted /\ resolved' \subseteq inserted
            /\ status' \in [Alerts -> {"OPEN", "ACKNOWLEDGED", "RESOLVED"}]
            /\ UNCHANGED <<inserted, createdAt>>
        BY <3>1, <4>1, PostWrites DEF TypeOK
      <4> QED  BY <2>4, <4>3, <4>4 DEF Post, TypeOK
    <3>2. CASE /\ Becomes(p, c, [call[p][c] EXCEPT !.phase = "notfound"])
               /\ UNCHANGED table
      <4>1. [call[p][c] EXCEPT !.phase = "notfound"] \in CallType
        BY <2>0, PhaseIsCall
      <4> QED  BY <2>4, <3>2, <4>1, <1>1 DEF Post, TypeOK
    <3> QED  BY <2>4, <3>1, <3>2 DEF Post
  <2>5. ASSUME NEW what \in {"acknowledge", "resolve"}, Return(p, c, what) PROVE TypeOK'
    BY <2>5, <1>1, FreeIsCall, ListingIsCall DEF Return, TypeOK
  <2> QED  BY <1>7, <2>1, <2>2, <2>3, <2>4, <2>5 DEF Ends
<1> QED  BY <1>2, <1>3, <1>4, <1>5, <1>6, <1>7 DEF Next

\* The table, the lists and the requests always have their types, and no alert
\* is acknowledged or resolved that is not in the table.
THEOREM TypeCorrect == Spec => []TypeOK
BY TypeInit, TypeStep, PTL DEF Spec

----------------------------------------------------------------------------
(* Clicks are answered truly, and the columns agree. *)

NamesRows(k) ==
  /\ k.page.alerts \subseteq inserted
  /\ k.does \in {"acknowledge", "resolve"} => k.alert \in inserted
IsDone(k) ==
  k.phase \in {"ok", "notfound"} /\ k.alert \notin patched =>
    /\ k.does = "acknowledge" => k.alert \in acknowledged
    /\ k.does = "resolve" => k.alert \in resolved \cap acknowledged

SafeInv ==
  /\ StatusAgrees
  /\ \A a \in Alerts \ inserted : status[a] = "OPEN"
  /\ \A p \in Panels : /\ shown[p].alerts \subseteq inserted
                        /\ \A c \in Connections : NamesRows(call[p][c]) /\ IsDone(call[p][c])

LEMMA SafeInit == Init => SafeInv
BY FreeIsCall DEF Init, SafeInv, StatusAgrees, NamesRows, IsDone, Free, NoPage

LEMMA SafeStep == TypeOK /\ SafeInv /\ [Next]_vars => SafeInv'
<1> SUFFICES ASSUME TypeOK, SafeInv, [Next]_vars PROVE SafeInv'
  OBVIOUS
<1> USE DEF table
\* A step of a connection that leaves the table alone and ends in state k.
<1>1. ASSUME NEW p \in Panels, NEW c \in Connections, NEW k \in CallType, Becomes(p, c, k),
             NamesRows(k), IsDone(k), UNCHANGED <<table, patched>>,
             \A q \in Panels : shown'[q].alerts \subseteq inserted
      PROVE  SafeInv'
  <2>1. \A q \in Panels, d \in Connections : call'[q][d] \in {k, call[q][d]}
    BY <1>1 DEF Becomes, TypeOK
  <2>2. \A q \in Panels, d \in Connections : NamesRows(call'[q][d]) /\ IsDone(call'[q][d])
    BY <2>1, <1>1 DEF SafeInv
  <2>3. StatusAgrees'
    BY <1>1 DEF SafeInv, StatusAgrees
  <2> QED  BY <1>1, <2>2, <2>3 DEF SafeInv, NamesRows, IsDone
<1>2. CASE UNCHANGED vars
  BY <1>2 DEF vars, SafeInv, StatusAgrees, NamesRows, IsDone
<1>3. ASSUME NEW a \in Alerts, Raise(a) PROVE SafeInv'
  BY <1>3 DEF Raise, TypeOK, SafeInv, StatusAgrees, NamesRows, IsDone
<1>4. ASSUME NEW a \in Alerts, NEW payload \in Patches, Patch(a, payload) PROVE SafeInv'
  BY <1>4, PatchWrites DEF TypeOK, SafeInv, StatusAgrees, NamesRows, IsDone
<1>5. ASSUME NEW p \in Panels, NEW c \in Connections, Poll(p, c) PROVE SafeInv'
  BY <1>5, <1>1, ListingIsCall DEF Poll, SafeInv, NamesRows, IsDone, NoPage
<1>6. ASSUME NEW p \in Panels, NEW c \in Connections, Click(p, c) PROVE SafeInv'
  <2>1. PICK a \in Alerts : ClickAcknowledge(p, c, a) \/ ClickResolve(p, c, a)
    BY <1>6 DEF Click
  <2>2. a \in inserted
    BY <2>1 DEF ClickAcknowledge, ClickResolve, LooksOpen, SafeInv
  <2> QED  BY <2>1, <2>2, <1>1, PostingIsCall
           DEF ClickAcknowledge, ClickResolve, SafeInv, NamesRows, IsDone, NoPage
<1>7. ASSUME NEW p \in Panels, NEW c \in Connections, Ends(p, c) PROVE SafeInv'
  <2>0. call[p][c] \in CallType /\ NamesRows(call[p][c]) /\ IsDone(call[p][c])
    BY DEF TypeOK, SafeInv
  <2>1. CASE Read(p, c)
    <3>1. PICK page \in Pages : Becomes(p, c, [Listing EXCEPT !.phase = "ok", !.page = page])
      BY <2>1 DEF Read
    <3>2. page \in PageType /\ page.alerts \subseteq inserted
      BY PagesListOpen DEF Open
    <3> QED  BY <2>1, <3>1, <3>2, <1>1, ListedIsCall DEF Read, SafeInv, NamesRows, IsDone
  <2>2. CASE SetAlerts(p, c)
    <3>1. \A q \in Panels : shown'[q].alerts \subseteq inserted
      BY <2>2, <2>0 DEF SetAlerts, TypeOK, SafeInv, NamesRows
    <3> QED  BY <2>2, <3>1, <1>1, FreeIsCall DEF SetAlerts, NamesRows, IsDone, Free, NoPage
  <2>3. CASE Fail(p, c)
    BY <2>3, <1>1, FreeIsCall DEF Fail, SafeInv, NamesRows, IsDone, Free, NoPage
  <2>4. ASSUME NEW what \in {"acknowledge", "resolve"}, Post(p, c, what) PROVE SafeInv'
    <3> DEFINE a == call[p][c].alert
    <3>0. a \in inserted /\ a \in Alerts /\ call[p][c].does = what
      BY <2>4, <2>0 DEF Post, Is, NamesRows, TypeOK
    <3>1. CASE /\ Changes(a, Payload(what)) /\ Update(a, Payload(what))
               /\ Becomes(p, c, [call[p][c] EXCEPT !.phase = "ok"])
      <4> DEFINE k == [call[p][c] EXCEPT !.phase = "ok"]
      <4>1. /\ acknowledged' = acknowledged \cup {a}
            /\ resolved' = IF what = "resolve" THEN resolved \cup {a} ELSE resolved
            /\ status' = [status EXCEPT ![a] =
                            IF what = "resolve" THEN "RESOLVED" ELSE "ACKNOWLEDGED"]
            /\ UNCHANGED <<inserted, shown, patched>>
        BY <2>4, <3>0, <3>1, PostWrites DEF Post
      <4>2. StatusAgrees'
        BY <4>1, <3>0 DEF SafeInv, StatusAgrees, TypeOK
      <4>3. k.does = what /\ k.alert = a /\ k.page = call[p][c].page
        BY <2>0, <3>0, PhaseIsCall
      <4>4. \A q \in Panels, d \in Connections : call'[q][d] \in {k, call[q][d]}
        BY <3>1 DEF Becomes, TypeOK
      <4> HIDE DEF k
      <4>5. ASSUME NEW q \in Panels, NEW d \in Connections
            PROVE  NamesRows(call[q][d])' /\ IsDone(call[q][d])'
        <5>1. NamesRows(call[q][d])'
          BY <4>1, <4>3, <4>4, <2>0, <3>0 DEF SafeInv, NamesRows
        <5> QED  BY <5>1, <4>1, <4>3, <4>4 DEF SafeInv, IsDone
      <4>6. \A b \in Alerts \ inserted : status'[b] = "OPEN"
        BY <4>1, <3>0 DEF SafeInv, TypeOK
      <4>7. \A q \in Panels : shown'[q].alerts \subseteq inserted'
        BY <4>1 DEF SafeInv
      <4> QED  BY <4>1, <4>2, <4>5, <4>6, <4>7 DEF SafeInv
    <3>2. CASE /\ ~Changes(a, Payload(what))
               /\ Becomes(p, c, [call[p][c] EXCEPT !.phase = "notfound"])
               /\ UNCHANGED table
      <4>1. a \in acknowledged /\ (what = "resolve" => a \in resolved)
        BY <3>0, <3>2, NotFoundIsDone
      <4> QED  BY <2>4, <3>0, <3>2, <4>1, <2>0, <1>1, PhaseIsCall
               DEF Post, SafeInv, NamesRows, IsDone
    <3> QED  BY <2>4, <3>1, <3>2 DEF Post
  <2>5. ASSUME NEW what \in {"acknowledge", "resolve"}, Return(p, c, what) PROVE SafeInv'
    BY <2>5, <1>1, FreeIsCall, ListingIsCall
    DEF Return, SafeInv, NamesRows, IsDone, Free, NoPage
  <2> QED  BY <1>7, <2>1, <2>2, <2>3, <2>4, <2>5 DEF Ends
<1> QED  BY <1>2, <1>3, <1>4, <1>5, <1>6, <1>7 DEF Next

\* Whatever a click is answered, with the alert or with 404, what it asked for
\* is done and no other click undoes it.
THEOREM ClicksAreDone == Spec => []AnsweredMeansDone
<1>1. SafeInv => AnsweredMeansDone
  BY DEF SafeInv, IsDone, AnsweredMeansDone
<1> QED  BY <1>1, TypeInit, TypeStep, SafeInit, SafeStep, PTL DEF Spec

\* The status in the history never says more than the flags do.
THEOREM ColumnsAgree == Spec => []StatusAgrees
<1>1. SafeInv => StatusAgrees
  BY DEF SafeInv
<1> QED  BY <1>1, TypeInit, TypeStep, SafeInit, SafeStep, PTL DEF Spec

----------------------------------------------------------------------------
(* A resolution is final once no list and no request is behind it. *)

\* A request that offers or asks for an acknowledgement of a.
Threatens(k, a) ==
  \/ LooksOpen(k.page, a)
  \/ k.does = "acknowledge" /\ k.phase = "sent" /\ k.alert = a

LEMMA SettledStep ==
  ASSUME TypeOK, [Next]_vars, NEW a \in Alerts, a \notin patched', Settled(a)
  PROVE  Settled(a)'
<1> USE DEF table
<1>0. /\ a \in resolved /\ status[a] = "RESOLVED"
      /\ \A p \in Panels : /\ ~LooksOpen(shown[p], a)
                            /\ \A c \in Connections : ~Threatens(call[p][c], a)
  BY DEF Settled, Threatens, Is
\* A step that leaves a resolved and adds no threat.
<1>1. ASSUME NEW p \in Panels, NEW c \in Connections, NEW k \in CallType, Becomes(p, c, k),
             ~Threatens(k, a), \A q \in Panels : ~LooksOpen(shown'[q], a),
             a \in resolved', status'[a] = "RESOLVED"
      PROVE  Settled(a)'
  <2>1. \A q \in Panels, d \in Connections : call'[q][d] \in {k, call[q][d]}
    BY <1>1 DEF Becomes, TypeOK
  <2>2. \A q \in Panels, d \in Connections : ~Threatens(call'[q][d], a)
    BY <2>1, <1>0, <1>1
  <2> QED  BY <1>1, <2>2 DEF Settled, Threatens, Is, LooksOpen
<1>2. CASE UNCHANGED vars
  BY <1>2 DEF vars, Settled, Is, LooksOpen
<1>3. ASSUME NEW b \in Alerts, Raise(b) PROVE Settled(a)'
  BY <1>3 DEF Raise, Settled, Is, LooksOpen
<1>4. ASSUME NEW b \in Alerts, NEW payload \in Patches, Patch(b, payload) PROVE Settled(a)'
  <2>1. a # b
    BY <1>4 DEF Patch
  <2> QED  BY <1>4, <2>1, PatchWrites DEF Settled, Is, LooksOpen
<1>5. ASSUME NEW p \in Panels, NEW c \in Connections, Poll(p, c) PROVE Settled(a)'
  BY <1>0, <1>5, <1>1, ListingIsCall DEF Poll, Threatens, LooksOpen, NoPage
<1>6. ASSUME NEW p \in Panels, NEW c \in Connections, Click(p, c) PROVE Settled(a)'
  <2>1. PICK b \in Alerts : ClickAcknowledge(p, c, b) \/ ClickResolve(p, c, b)
    BY <1>6 DEF Click
  <2>2. CASE ClickAcknowledge(p, c, b)
    <3>1. a # b
      BY <1>0, <2>2 DEF ClickAcknowledge
    <3> QED  BY <1>0, <2>2, <3>1, <1>1, PostingIsCall
             DEF ClickAcknowledge, Threatens, LooksOpen, NoPage
  <2>3. CASE ClickResolve(p, c, b)
    BY <1>0, <2>3, <1>1, PostingIsCall DEF ClickResolve, Threatens, LooksOpen, NoPage
  <2> QED  BY <2>1, <2>2, <2>3
<1>7. ASSUME NEW p \in Panels, NEW c \in Connections, Ends(p, c) PROVE Settled(a)'
  <2>0. call[p][c] \in CallType /\ ~Threatens(call[p][c], a)
    BY <1>0 DEF TypeOK
  <2>1. CASE Read(p, c)
    <3>1. PICK page \in Pages : Becomes(p, c, [Listing EXCEPT !.phase = "ok", !.page = page])
      BY <2>1 DEF Read
    <3>2. page \in PageType /\ a \notin page.alerts
      BY <1>0, PagesListOpen DEF Open
    <3> QED  BY <1>0, <2>1, <3>1, <3>2, <1>1, ListedIsCall DEF Read, Threatens, LooksOpen
  <2>2. CASE SetAlerts(p, c)
    <3>1. \A q \in Panels : ~LooksOpen(shown'[q], a)
      BY <1>0, <2>0, <2>2 DEF SetAlerts, TypeOK, Threatens
    <3> QED  BY <1>0, <2>2, <3>1, <1>1, FreeIsCall
             DEF SetAlerts, Threatens, LooksOpen, Free, NoPage
  <2>3. CASE Fail(p, c)
    BY <1>0, <2>3, <1>1, FreeIsCall DEF Fail, Threatens, LooksOpen, Free, NoPage
  <2>4. ASSUME NEW what \in {"acknowledge", "resolve"}, Post(p, c, what) PROVE Settled(a)'
    <3> DEFINE b == call[p][c].alert
    <3>1. CASE /\ Changes(b, Payload(what)) /\ Update(b, Payload(what))
               /\ Becomes(p, c, [call[p][c] EXCEPT !.phase = "ok"])
      <4>1. b \in Alerts
        BY <3>1 DEF Changes, TypeOK
      <4>2. what = "acknowledge" => a # b
        BY <2>0, <2>4 DEF Post, Is, Threatens
      <4>3. a \in resolved' /\ status'[a] = "RESOLVED"
        BY <1>0, <3>1, <4>1, <4>2, PostWrites DEF TypeOK
      <4> QED  BY <1>0, <2>0, <2>4, <3>1, <4>3, <1>1, PhaseIsCall DEF Post, Threatens
    <3>2. CASE /\ Becomes(p, c, [call[p][c] EXCEPT !.phase = "notfound"])
               /\ UNCHANGED table
      BY <1>0, <2>0, <2>4, <3>2, <1>1, PhaseIsCall DEF Post, Threatens
    <3> QED  BY <2>4, <3>1, <3>2 DEF Post
  <2>5. ASSUME NEW what \in {"acknowledge", "resolve"}, Return(p, c, what) PROVE Settled(a)'
    BY <1>0, <2>5, <1>1, FreeIsCall, ListingIsCall
    DEF Return, Threatens, LooksOpen, Free, NoPage
  <2> QED  BY <1>7, <2>1, <2>2, <2>3, <2>4, <2>5 DEF Ends
<1> QED  BY <1>2, <1>3, <1>4, <1>5, <1>6, <1>7 DEF Next

\* Once no panel shows a resolved alert as open, and no such list and no
\* acknowledgement is under way, its status stays RESOLVED until a PATCH.
THEOREM ResolutionIsFinal == Spec => SettledIsFinal
<1>1. TypeOK /\ [Next]_vars => [\A a \in Alerts \ patched' : Settled(a) => Settled(a)']_vars
  BY SettledStep
<1> QED  BY <1>1, TypeCorrect, PTL DEF Spec, SettledIsFinal

=============================================================================
