------------------------------ MODULE MCAgent ------------------------------
(* Values of the agent's constants for TLC. *)
EXTENDS Agent

CONSTANTS f1, c1, c2

MCFiles == {f1}
MCLogs == [file : {f1}, line : 1..MaxLines]
MCBlank == {[file |-> f1, line |-> 2]}
=============================================================================
