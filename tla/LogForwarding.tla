--------------------------- MODULE LogForwarding ---------------------------
(***************************************************************************)
(* What the agent promises about a detected line, without threads, tokens  *)
(* or files: it stays in memory until the backend stores it or it is       *)
(* buffered on disk, the buffer outlives the process, and only a halt or   *)
(* the death of the sender loses a line.                                   *)
(***************************************************************************)
CONSTANT Logs

VARIABLES
  memory,    \* detected lines, not buffered and not done with
  disk,      \* buffered lines
  delivered, \* lines the backend stored at least once
  status     \* "down", "up", or "stuck": running without its sender

vars == <<memory, disk, delivered, status>>

TypeOK ==
  /\ memory \subseteq Logs /\ disk \subseteq Logs /\ delivered \subseteq Logs
  /\ status \in {"down", "up", "stuck"}

Init == memory = {} /\ disk = {} /\ delivered = {} /\ status = "down"

\* l is no longer worked on; a line read twice may have a second copy left.
Done(l) == memory' \in {memory, memory \ {l}}

Start ==
  /\ status = "down" /\ status' = "up"
  /\ memory' = disk /\ disk' = {}
  /\ UNCHANGED delivered

Detect(l) ==
  /\ status # "down"
  /\ memory' = memory \cup {l}
  /\ UNCHANGED <<disk, delivered, status>>

Deliver(l) ==
  /\ status = "up" /\ l \in memory
  /\ delivered' = delivered \cup {l}
  /\ Done(l)
  /\ UNCHANGED <<disk, status>>

Buffer(l) ==
  /\ status = "up" /\ l \in memory
  /\ disk' = disk \cup {l}
  /\ Done(l)
  /\ UNCHANGED <<delivered, status>>

SenderDies(l) ==
  /\ status = "up" /\ status' = "stuck"
  /\ l \in memory /\ Done(l)
  /\ UNCHANGED <<disk, delivered>>

Halt ==
  /\ status # "down" /\ status' = "down"
  /\ memory' = {}
  /\ UNCHANGED <<disk, delivered>>

Next ==
  \/ Start \/ Halt
  \/ \E l \in Logs : Detect(l) \/ Deliver(l) \/ Buffer(l) \/ SenderDies(l)

Spec == Init /\ [][Next]_vars

----------------------------------------------------------------------------
(* What follows from it. *)

\* A line is lost only by a step that ends the process or the sender.
KeepsLines ==
  \A l \in memory \cup disk :
    l \in memory' \cup disk' \cup delivered' \/ (status # "down" /\ status' # status)
Kept == [][KeepsLines]_vars

\* Being stored is final, and a buffered line stays buffered until a start.
KeepsStored == delivered \subseteq delivered' /\ (status # "down" => disk \subseteq disk')
Final == [][KeepsStored]_vars

=============================================================================
