---------------------------- MODULE MCDashboard ------------------------------
(* An instance of Dashboard for TLC. *)
EXTENDS Dashboard

CONSTANTS o1, o2
MCOrgs == {o1, o2}
MCLogs == 1 .. 2
MCOrgOf == [l \in MCLogs |-> o1]
MCLevelOf == [l \in MCLogs |-> IF l = 1 THEN "INFO" ELSE "ERROR"]
=============================================================================
