---------------------------- MODULE MCAlertPanel ----------------------------
(* Instances of AlertPanel for TLC. *)
EXTENDS AlertPanel, TLC

MCTimes == {1, 2}
\* A client that reopens what was resolved, and one that only marks it.
MCPatches ==
  {[acknowledged |-> "null", resolved |-> "false", status |-> "OPEN"],
   [acknowledged |-> "null", resolved |-> "true", status |-> "null"]}
NoPatches == {}
MCSymmetry == Permutations(Panels) \cup Permutations(Connections)
=============================================================================
