------------------------------- MODULE Startup -------------------------------
(***************************************************************************)
(* The start of a backend process: init_schema of main.py against a        *)
(* database that other processes use and start on at the same time, as in  *)
(* a deployment that starts the new process before it stops the old one.   *)
(* An ALTER TABLE commits by itself; the organization and the backfill of  *)
(* rows without organization are one transaction.                          *)
(***************************************************************************)
EXTENDS Naturals, FiniteSets

CONSTANTS Starts,    \* starts of a process, each of which happens once at most
          Columns,   \* how many columns ensure_column adds
          Rows       \* rows of logs, agents, alerts or agent_heartbeats

ASSUME StartupConstants == Columns \in Nat \ {0} /\ Starts \cap {"absent", "null"} = {}

VARIABLES
  columns,    \* the columns there are, out of 1 .. Columns
  default,    \* committed organizations with the default key, named by their start
  owner,      \* the organization_id of every row
  pc, column, \* where a start is, and at which column
  org,        \* default_org_id
  claimed,    \* the rows its transaction has set to it
  saw,        \* default when its transaction took its snapshot
  gone,       \* processes that ended
  older       \* history: the rows without organization when it began

database == <<columns, default, owner>>
session == <<pc, column, org, claimed, saw>>
startup == <<database, session, gone, older>>

NoOrg == "null"

\* The database is new or of an earlier version, with some of the columns.
StartupInit ==
  /\ columns \in SUBSET (1 .. Columns) /\ default = {}
  /\ owner \in [Rows -> {"absent", "null"}]
  /\ pc = [s \in Starts |-> "down"] /\ column = [s \in Starts |-> 1]
  /\ org = [s \in Starts |-> NoOrg] /\ claimed = [s \in Starts |-> {}]
  /\ saw = [s \in Starts |-> {}]
  /\ gone = {}
  /\ older = [s \in Starts |-> {}]

UnderWay == {"columns", "altering", "organization", "inserting", "backfilling", "committing"}
Starting == {s \in Starts : pc[s] \in UnderWay}
Serving == {s \in Starts : pc[s] = "serving" /\ s \notin gone}
Unowned == {r \in Rows : owner[r] = "null"}

Goes(s, where) == pc' = [pc EXCEPT ![s] = where]
\* init_schema is left, and with it its variables and its connection.
Leaves(s, where) ==
  /\ Goes(s, where)
  /\ column' = [column EXCEPT ![s] = 1] /\ org' = [org EXCEPT ![s] = NoOrg]
  /\ claimed' = [claimed EXCEPT ![s] = {}] /\ saw' = [saw EXCEPT ![s] = {}]
\* A statement raises, uvicorn ends, the connection rolls back.
Fails(s) == Leaves(s, "failed") /\ UNCHANGED database
NextColumnOrNone(s) ==   \* mutant: off by one
  /\ column' = [column EXCEPT ![s] = @ + 1]
  /\ Goes(s, IF column[s] > Columns THEN "organization" ELSE "columns")
NextColumn(s) ==
  /\ column' = [column EXCEPT ![s] = @ + 1]
  /\ Goes(s, IF column[s] = Columns THEN "organization" ELSE "columns")

----------------------------------------------------------------------------

\* A row without organization: an alert after a swallowed exception (Ingest),
\* or a line stored by backend/server.py.  The UPDATEs of a start lock the table.
WriteUnowned(r) ==
  /\ owner[r] = "absent" /\ \A s \in Starts : pc[s] # "committing"
  /\ owner' = [owner EXCEPT ![r] = "null"]
  /\ UNCHANGED <<columns, default, session, gone, older>>

\* The process starts; the tables are there or are created by the first one.
Boot(s) ==
  /\ pc[s] = "down"
  /\ Goes(s, "columns")
  /\ saw' = [saw EXCEPT ![s] = default]
  /\ older' = [older EXCEPT ![s] = Unowned]
  /\ UNCHANGED <<database, column, org, claimed, gone>>

AlterUnchecked(s) ==   \* mutant: ALTER TABLE without a look at the schema
  /\ pc[s] = "columns" /\ s \notin gone
  /\ Goes(s, "altering")
  /\ UNCHANGED <<database, column, org, claimed, saw, gone, older>>

\* ensure_column: the SELECT.
SelectColumn(s) ==
  /\ pc[s] = "columns" /\ s \notin gone
  /\ IF column[s] \in columns THEN NextColumn(s)
     ELSE Goes(s, "altering") /\ UNCHANGED column
  /\ UNCHANGED <<database, org, claimed, saw, gone, older>>

\* ensure_column: the ALTER TABLE, which fails on a column that exists.  The
\* database ends a statement whether or not the process is still there.
Alter(s) ==
  /\ pc[s] = "altering"
  /\ \/ /\ column[s] \in columns
        /\ Fails(s)
     \/ /\ column[s] \notin columns
        /\ columns' = columns \cup {column[s]}
        /\ \/ /\ s \in gone
              /\ Leaves(s, "failed")
           \/ /\ s \notin gone
              /\ NextColumn(s)
              /\ saw' = [saw EXCEPT ![s] = default]
              /\ UNCHANGED <<org, claimed>>
        /\ UNCHANGED <<default, owner>>
  /\ UNCHANGED <<gone, older>>

\* ensure_default_organization: the SELECT.  What it sees is no older than the
\* last implicit commit of its connection, and perhaps no newer.
SelectOrganization(s) ==
  /\ pc[s] = "organization" /\ s \notin gone
  /\ \E seen \in {saw[s], default} :
       \/ /\ seen # {}
          /\ \E o \in seen : org' = [org EXCEPT ![s] = o]
          /\ Goes(s, "backfilling")
       \/ /\ seen = {}
          /\ Goes(s, "inserting")
          /\ UNCHANGED org
  /\ UNCHANGED <<database, column, claimed, saw, gone, older>>

\* The connections with an uncommitted organization of the default key.
Pending == {s \in Starts : org[s] = s /\ pc[s] \in {"backfilling", "committing"}}

InsertUnchecked(s) ==   \* mutant: no unique key
  /\ pc[s] = "inserting" /\ s \notin gone
  /\ org' = [org EXCEPT ![s] = s]
  /\ Goes(s, "backfilling")
  /\ UNCHANGED <<database, column, claimed, saw, gone, older>>

\* The INSERT: waits for an uncommitted one, fails on a committed one.
InsertOrganization(s) ==
  /\ pc[s] = "inserting" /\ s \notin gone /\ Pending = {}
  /\ \/ /\ default # {}
        /\ Fails(s)
     \/ /\ default = {}
        /\ org' = [org EXCEPT ![s] = s]
        /\ Goes(s, "backfilling")
        /\ UNCHANGED <<database, column, claimed, saw>>
  /\ UNCHANGED <<gone, older>>

\* The four UPDATEs ... WHERE organization_id IS NULL, which wait for the locks
\* of another start.
Backfill(s) ==
  /\ pc[s] = "backfilling" /\ s \notin gone
  /\ \A t \in Starts : pc[t] # "committing"
  /\ claimed' = [claimed EXCEPT ![s] = Unowned]
  /\ Goes(s, "committing")
  /\ UNCHANGED <<database, column, org, saw, gone, older>>

CommitForgotten(s) ==   \* mutant
  /\ pc[s] = "committing"
  /\ Leaves(s, IF s \in gone THEN "failed" ELSE "serving")
  /\ UNCHANGED <<database, gone, older>>

Commit(s) ==
  /\ pc[s] = "committing"
  /\ default' = IF org[s] = s THEN default \cup {s} ELSE default
  /\ owner' = [r \in Rows |-> IF r \in claimed[s] THEN org[s] ELSE owner[r]]
  /\ Leaves(s, IF s \in gone THEN "failed" ELSE "serving")
  /\ UNCHANGED <<columns, gone, older>>

\* The process ends or loses its connection.  A statement it has sent may end
\* after it; what is not committed is rolled back.
Dies(s) ==
  /\ pc[s] \in UnderWay \cup {"serving"} /\ s \notin gone
  /\ gone' = gone \cup {s}
  /\ UNCHANGED <<database, session, older>>
RolledBack(s) ==
  /\ s \in gone /\ pc[s] \in UnderWay
  /\ Fails(s)
  /\ UNCHANGED <<gone, older>>

Step(s) ==
  \/ SelectColumn(s) \/ Alter(s) \/ SelectOrganization(s) \/ InsertOrganization(s)
  \/ Backfill(s) \/ Commit(s) \/ RolledBack(s)

StartupNext == (\E r \in Rows : WriteUnowned(r)) \/ \E s \in Starts : Boot(s) \/ Dies(s) \/ Step(s)

StartupSpec == StartupInit /\ [][StartupNext]_startup

----------------------------------------------------------------------------
(* Properties. *)

StartupTypeOK ==
  /\ columns \subseteq 1 .. Columns /\ default \subseteq Starts
  /\ owner \in [Rows -> Starts \cup {"absent", "null"}]
  /\ pc \in [Starts -> UnderWay \cup {"down", "serving", "failed"}]
  /\ column \in [Starts -> 1 .. Columns + 1]
  /\ org \in [Starts -> Starts \cup {NoOrg}]
  /\ claimed \in [Starts -> SUBSET Rows] /\ saw \in [Starts -> SUBSET Starts]
  /\ gone \subseteq Starts
  /\ older \in [Starts -> SUBSET Rows]

\* Whatever starts race and die at whatever statement: a process that serves
\* finds every column and one default organization, and the rows that had no
\* organization when it began belong to it.
ServingMeansReady ==
  \A s \in Starts : pc[s] = "serving" =>
    /\ columns = 1 .. Columns
    /\ Cardinality(default) = 1
    /\ \A r \in older[s] : owner[r] \in default

\* Starts that race do not bring each other down: one of them serves in the
\* end, if none of the processes ends.
OneStartServes ==
  \A s \in Starts : s \in Starting ~> gone # {} \/ Serving # {}

=============================================================================
