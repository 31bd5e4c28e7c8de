----------------------------- MODULE MCFollower ------------------------------
(* An instance of Follower for TLC. *)
EXTENDS Follower

MCBlank == {2}
=============================================================================
