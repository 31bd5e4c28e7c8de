---------------------------- MODULE LineFollowing ----------------------------
(***************************************************************************)
(* What a follower of a log file promises as long as its writer writes     *)
(* whole lines to a file that only grows: from where it began, every line  *)
(* is handed on once, whole and in order, and blank ones are left out.     *)
(***************************************************************************)
EXTENDS Integers, Sequences

CONSTANTS Blank   \* the lines with nothing but white space
VARIABLES
  lines,    \* how many lines are in the file
  cursor,   \* how many of them the follower is done with, -1 before it begins
  passed    \* the lines it handed on

vars == <<lines, cursor, passed>>

Init == lines \in Nat /\ cursor = -1 /\ passed = <<>>

Write == lines' = lines + 1 /\ UNCHANGED <<cursor, passed>>

Begin ==
  /\ cursor = -1
  /\ cursor' \in {0, lines}
  /\ UNCHANGED <<lines, passed>>

Pass ==
  /\ 0 <= cursor /\ cursor < lines
  /\ cursor' = cursor + 1
  /\ passed' = IF cursor' \in Blank THEN passed ELSE Append(passed, cursor')
  /\ UNCHANGED lines

Next == Write \/ Begin \/ Pass

\* What is handed on, and in which order; and that it is handed on in the end.
InOrder == Init /\ [][Next]_vars
Spec == InOrder /\ WF_vars(Pass)

=============================================================================
