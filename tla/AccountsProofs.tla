--------------------------- MODULE AccountsProofs ----------------------------
(***************************************************************************)
(* Safety of Startup and Accounts for any number of starts, columns, rows, *)
(* signups, emails and agents.  The starts first, whose invariant relates  *)
(* every start to the columns, to the one default organization and to the  *)
(* rows; then the accounts, which leave all of that alone and need of it   *)
(* only that a process that serves has a default organization.             *)
(***************************************************************************)
EXTENDS Accounts, TLAPS, FiniteSetTheorems

----------------------------------------------------------------------------
(* The invariant of the starts. *)

\* The columns before the one a start is at are there; after the last, all are.
ColumnsAdded ==
  \A s \in Starts :
    /\ pc[s] = "down" => column[s] = 1
    /\ pc[s] \in {"columns", "altering"} =>
         column[s] <= Columns /\ \A c \in 1 .. Columns : c < column[s] => c \in columns
    /\ pc[s] \in {"organization", "inserting", "backfilling", "committing", "serving"} =>
         columns = 1 .. Columns

\* There is one default organization, committed or not; a start that is past
\* the SELECT has it.
OneDefault ==
  /\ \A s, t \in default : s = t
  /\ \A s \in default : pc[s] \in {"serving", "failed"}
  /\ \A s, t \in Pending : s = t
  /\ Pending # {} => default = {}
  /\ \A s \in Starts :
       /\ saw[s] \subseteq default
       /\ pc[s] \in {"backfilling", "committing"} => org[s] \in default \cup {s}
       /\ pc[s] = "serving" => default # {}

\* One start at a time holds the rows, and holds all that have no organization.
RowsOwned ==
  /\ \A s, t \in Starts : pc[s] = "committing" /\ pc[t] = "committing" => s = t
  /\ \A s \in Starts : pc[s] = "committing" => claimed[s] = Unowned
  /\ \A r \in Rows : owner[r] \in default \cup {"absent", "null"}
  /\ \A s \in Starts : \A r \in older[s] :
       owner[r] # "absent" /\ (pc[s] = "serving" => owner[r] \in default)

StartupInv == StartupTypeOK /\ ColumnsAdded /\ OneDefault /\ RowsOwned

----------------------------------------------------------------------------
(* What a step of a start does. *)

\* Leaving init_schema forgets its variables.
LEMMA LeavesWrites ==
  ASSUME StartupTypeOK, NEW s \in Starts, NEW where \in {"serving", "failed"}, Leaves(s, where)
  PROVE  /\ pc' = [pc EXCEPT ![s] = where]
         /\ pc' \in [Starts -> UnderWay \cup {"down", "serving", "failed"}]
         /\ column' \in [Starts -> 1 .. Columns + 1]
         /\ org' \in [Starts -> Starts \cup {NoOrg}]
         /\ claimed' \in [Starts -> SUBSET Rows] /\ saw' \in [Starts -> SUBSET Starts]
         /\ \A t \in Starts : saw'[t] \subseteq saw[t]
         /\ \A t \in Starts \ {s} :
              column'[t] = column[t] /\ org'[t] = org[t] /\ claimed'[t] = claimed[t]
BY StartupConstants DEF Leaves, Goes, StartupTypeOK

\* The next column, or the organization after the last one.
LEMMA NextColumnWrites ==
  ASSUME StartupTypeOK, NEW s \in Starts, column[s] \in 1 .. Columns, NextColumn(s)
  PROVE  /\ pc' = [pc EXCEPT ![s] = IF column[s] = Columns THEN "organization" ELSE "columns"]
         /\ pc' \in [Starts -> UnderWay \cup {"down", "serving", "failed"}]
         /\ column' = [column EXCEPT ![s] = column[s] + 1]
         /\ column' \in [Starts -> 1 .. Columns + 1]
<1>1. /\ pc' = [pc EXCEPT ![s] = IF column[s] = Columns THEN "organization" ELSE "columns"]
      /\ column' = [column EXCEPT ![s] = column[s] + 1]
  BY DEF NextColumn, Goes
<1>2. column[s] + 1 \in 1 .. Columns + 1
  BY StartupConstants
<1>3. pc' \in [Starts -> UnderWay \cup {"down", "serving", "failed"}]
  BY <1>1 DEF StartupTypeOK, UnderWay
<1>4. column' \in [Starts -> 1 .. Columns + 1]
  BY <1>1, <1>2 DEF StartupTypeOK
<1> QED  BY <1>1, <1>3, <1>4

LEMMA StartupInit1 == StartupInit => StartupInv
<1> SUFFICES ASSUME StartupInit PROVE StartupInv
  OBVIOUS
<1>1. StartupTypeOK
  BY StartupConstants DEF StartupInit, StartupTypeOK
<1>2. ColumnsAdded
  BY DEF StartupInit, ColumnsAdded
<1>3. OneDefault
  BY DEF StartupInit, OneDefault, Pending
<1>4. RowsOwned
  BY DEF StartupInit, RowsOwned
<1> QED  BY <1>1, <1>2, <1>3, <1>4 DEF StartupInv

LEMMA StartupTypeStep ==
  ASSUME StartupTypeOK, ColumnsAdded, [StartupNext]_startup
  PROVE  StartupTypeOK'
<1> USE StartupConstants DEF database, session
<1>1. CASE UNCHANGED startup
  BY <1>1 DEF startup, StartupTypeOK
<1>2. ASSUME NEW r \in Rows, WriteUnowned(r) PROVE StartupTypeOK'
  BY <1>2 DEF WriteUnowned, StartupTypeOK
<1>3. ASSUME NEW s \in Starts, Boot(s) PROVE StartupTypeOK'
  BY <1>3 DEF Boot, Goes, Unowned, StartupTypeOK, UnderWay
<1>4. ASSUME NEW s \in Starts, Dies(s) PROVE StartupTypeOK'
  BY <1>4 DEF Dies, StartupTypeOK
<1>5. ASSUME NEW s \in Starts, SelectColumn(s) PROVE StartupTypeOK'
  <2>1. column[s] \in 1 .. Columns
    BY <1>5 DEF SelectColumn, ColumnsAdded, StartupTypeOK
  <2>2. CASE NextColumn(s)
    BY <2>1, <2>2, <1>5, NextColumnWrites DEF SelectColumn, StartupTypeOK
  <2>3. CASE Goes(s, "altering") /\ UNCHANGED column
    BY <2>3, <1>5 DEF SelectColumn, Goes, StartupTypeOK, UnderWay
  <2> QED  BY <2>2, <2>3, <1>5 DEF SelectColumn
<1>6. ASSUME NEW s \in Starts, Alter(s) PROVE StartupTypeOK'
  <2>1. CASE Fails(s)
    BY <2>1, <1>6, LeavesWrites DEF Alter, Fails, StartupTypeOK
  <2>2. CASE ~Fails(s)
    <3>1. /\ columns' = columns \cup {column[s]} /\ column[s] \in 1 .. Columns
          /\ UNCHANGED <<default, owner, gone, older>>
      BY <2>2, <1>6 DEF Alter, ColumnsAdded, StartupTypeOK
    <3>2. CASE Leaves(s, "failed")
      BY <3>1, <3>2, LeavesWrites DEF StartupTypeOK
    <3>3. CASE NextColumn(s) /\ saw' = [saw EXCEPT ![s] = default] /\ UNCHANGED <<org, claimed>>
      BY <3>1, <3>3, NextColumnWrites DEF StartupTypeOK
    <3> QED  BY <2>2, <3>2, <3>3, <1>6 DEF Alter
  <2> QED  BY <2>1, <2>2
<1>7. ASSUME NEW s \in Starts, SelectOrganization(s) PROVE StartupTypeOK'
  BY <1>7 DEF SelectOrganization, Goes, StartupTypeOK, UnderWay
<1>8. ASSUME NEW s \in Starts, InsertOrganization(s) PROVE StartupTypeOK'
  <2>1. CASE Fails(s)
    BY <2>1, <1>8, LeavesWrites DEF InsertOrganization, Fails, StartupTypeOK
  <2>2. CASE ~Fails(s)
    <3>1. /\ org' = [org EXCEPT ![s] = s] /\ pc' = [pc EXCEPT ![s] = "backfilling"]
          /\ UNCHANGED <<database, column, claimed, saw, gone, older>>
      BY <2>2, <1>8 DEF InsertOrganization, Goes
    <3> QED  BY <3>1 DEF StartupTypeOK, UnderWay
  <2> QED  BY <2>1, <2>2
<1>9. ASSUME NEW s \in Starts, Backfill(s) PROVE StartupTypeOK'
  BY <1>9 DEF Backfill, Goes, Unowned, StartupTypeOK, UnderWay
<1>10. ASSUME NEW s \in Starts, Commit(s) PROVE StartupTypeOK'
  <2>1. PICK where \in {"serving", "failed"} : Leaves(s, where)
    BY <1>10 DEF Commit
  <2>2. /\ default' = (IF org[s] = s THEN default \cup {s} ELSE default)
        /\ owner' = [r \in Rows |-> IF r \in claimed[s] THEN org[s] ELSE owner[r]]
        /\ UNCHANGED <<columns, gone, older>>
    BY <1>10 DEF Commit
  <2>3. org[s] \in Starts \cup {"null"}
    BY DEF StartupTypeOK, NoOrg
  <2>4. default' \subseteq Starts /\ owner' \in [Rows -> Starts \cup {"absent", "null"}]
    BY <2>2, <2>3 DEF StartupTypeOK
  <2> QED  BY <2>1, <2>2, <2>4, LeavesWrites DEF StartupTypeOK
<1>11. ASSUME NEW s \in Starts, RolledBack(s) PROVE StartupTypeOK'
  BY <1>11, LeavesWrites DEF RolledBack, Fails, StartupTypeOK
<1> QED
  BY <1>1, <1>2, <1>3, <1>4, <1>5, <1>6, <1>7, <1>8, <1>9, <1>10, <1>11 DEF StartupNext, Step

LEMMA ColumnsStep ==
  ASSUME StartupTypeOK, ColumnsAdded, [StartupNext]_startup
  PROVE  ColumnsAdded'
<1> USE StartupConstants DEF database, session, ColumnsAdded
<1>1. CASE UNCHANGED startup
  BY <1>1 DEF startup
<1>2. ASSUME NEW r \in Rows, WriteUnowned(r) PROVE ColumnsAdded'
  BY <1>2 DEF WriteUnowned
<1>3. ASSUME NEW s \in Starts, Boot(s) PROVE ColumnsAdded'
  BY <1>3 DEF Boot, Goes, StartupTypeOK
<1>4. ASSUME NEW s \in Starts, Dies(s) PROVE ColumnsAdded'
  BY <1>4 DEF Dies
\* To go on from a column that is there.
<1>5. ASSUME NEW s \in Starts, pc[s] \in {"columns", "altering"}, NextColumn(s),
             columns \subseteq columns', columns' \subseteq 1 .. Columns, column[s] \in columns'
      PROVE  ColumnsAdded'
  <2>1. column[s] \in 1 .. Columns
    BY <1>5 DEF StartupTypeOK
  <2>2. /\ pc' = [pc EXCEPT ![s] = IF column[s] = Columns THEN "organization" ELSE "columns"]
        /\ column' = [column EXCEPT ![s] = column[s] + 1]
    BY <1>5, <2>1, NextColumnWrites
  <2>3. \A c \in 1 .. Columns : c < column[s] + 1 => c \in columns'
    BY <1>5, <2>1
  <2>4. ASSUME NEW t \in Starts \ {s}
        PROVE  pc'[t] = pc[t] /\ column'[t] = column[t]
    BY <2>2 DEF StartupTypeOK
  <2>5. pc'[s] = (IF column[s] = Columns THEN "organization" ELSE "columns")
        /\ column'[s] = column[s] + 1
    BY <2>2 DEF StartupTypeOK
  <2>6. CASE column[s] = Columns
    <3>1. columns' = 1 .. Columns
      <4>1. \A c \in 1 .. Columns : c < column[s] + 1
        BY <2>6
      <4>2. 1 .. Columns \subseteq columns'
        BY <2>3, <4>1
      <4> QED  BY <4>2, <1>5
    <3> QED  BY <2>4, <2>5, <2>6, <3>1
  <2>7. CASE column[s] # Columns
    <3>1. column'[s] <= Columns /\ pc'[s] = "columns"
      BY <2>1, <2>5, <2>7
    <3> QED  BY <2>3, <2>4, <2>5, <3>1, <1>5
  <2> QED  BY <2>6, <2>7
<1>6. ASSUME NEW s \in Starts, SelectColumn(s) PROVE ColumnsAdded'
  <2>1. CASE column[s] \in columns
    BY <2>1, <1>5, <1>6 DEF SelectColumn, StartupTypeOK
  <2>2. CASE column[s] \notin columns
    <3>1. /\ pc[s] = "columns" /\ pc' = [pc EXCEPT ![s] = "altering"]
          /\ UNCHANGED <<columns, column>>
      BY <2>2, <1>6 DEF SelectColumn, Goes
    <3>2. pc'[s] = "altering" /\ \A t \in Starts \ {s} : pc'[t] = pc[t]
      BY <3>1 DEF StartupTypeOK
    <3> QED  BY <3>1, <3>2
  <2> QED  BY <2>1, <2>2
<1>7. ASSUME NEW s \in Starts, NEW where \in {"serving", "failed"}, Leaves(s, where),
             columns \subseteq columns', columns' \subseteq 1 .. Columns,
             where = "serving" => columns' = 1 .. Columns
      PROVE  ColumnsAdded'
  <2>1. /\ pc' = [pc EXCEPT ![s] = where]
        /\ \A t \in Starts \ {s} : column'[t] = column[t]
    BY <1>7, LeavesWrites
  <2>2. pc'[s] = where /\ \A t \in Starts \ {s} : pc'[t] = pc[t]
    BY <2>1 DEF StartupTypeOK
  <2>3. columns = 1 .. Columns => columns' = 1 .. Columns
    BY <1>7
  <2>4. ASSUME NEW t \in Starts \ {s}
        PROVE  /\ pc'[t] = "down" => column'[t] = 1
               /\ pc'[t] \in {"columns", "altering"} =>
                    column'[t] <= Columns /\ \A c \in 1 .. Columns : c < column'[t] => c \in columns'
               /\ pc'[t] \in {"organization", "inserting", "backfilling", "committing", "serving"} =>
                    columns' = 1 .. Columns
    BY <2>1, <2>2, <2>3, <2>4, <1>7
  <2> QED  BY <2>2, <2>4, <1>7
<1>8. ASSUME NEW s \in Starts, Alter(s) PROVE ColumnsAdded'
  <2>1. column[s] \in 1 .. Columns /\ pc[s] = "altering"
    BY <1>8 DEF Alter, StartupTypeOK
  <2>2. columns' = columns \/ columns' = columns \cup {column[s]}
    BY <1>8 DEF Alter, Fails
  <2>3. columns \subseteq columns' /\ columns' \subseteq 1 .. Columns
    BY <2>1, <2>2 DEF StartupTypeOK
  <2>4. CASE Leaves(s, "failed")
    BY <2>3, <2>4, <1>7
  <2>5. CASE NextColumn(s) /\ columns' = columns \cup {column[s]}
    BY <2>1, <2>3, <2>5, <1>5
  <2> QED  BY <2>4, <2>5, <1>8 DEF Alter, Fails
<1>9. ASSUME NEW s \in Starts, SelectOrganization(s) PROVE ColumnsAdded'
  BY <1>9 DEF SelectOrganization, Goes, StartupTypeOK
<1>10. ASSUME NEW s \in Starts, InsertOrganization(s) PROVE ColumnsAdded'
  <2>1. CASE Fails(s)
    BY <2>1, <1>7 DEF Fails, StartupTypeOK
  <2>2. CASE ~Fails(s)
    BY <2>2, <1>10 DEF InsertOrganization, Goes, StartupTypeOK
  <2> QED  BY <2>1, <2>2
<1>11. ASSUME NEW s \in Starts, Backfill(s) PROVE ColumnsAdded'
  BY <1>11 DEF Backfill, Goes, StartupTypeOK
<1>12. ASSUME NEW s \in Starts, Commit(s) PROVE ColumnsAdded'
  <2>1. PICK where \in {"serving", "failed"} : Leaves(s, where)
    BY <1>12 DEF Commit
  <2>2. UNCHANGED columns /\ columns = 1 .. Columns
    BY <1>12 DEF Commit
  <2> QED  BY <2>1, <2>2, <1>7
<1>13. ASSUME NEW s \in Starts, RolledBack(s) PROVE ColumnsAdded'
  BY <1>13, <1>7 DEF RolledBack, Fails, StartupTypeOK
<1> QED
  BY <1>1, <1>2, <1>3, <1>4, <1>6, <1>8, <1>9, <1>10, <1>11, <1>12, <1>13 DEF StartupNext, Step

LEMMA OneDefaultStep ==
  ASSUME StartupTypeOK, OneDefault, [StartupNext]_startup
  PROVE  OneDefault' /\ default \subseteq default'
<1> USE StartupConstants DEF database, session
<1> DEFINE Goal == OneDefault' /\ default \subseteq default'
\* A start moves between two places before the organization.
<1>1. ASSUME NEW s \in Starts,
             pc' \in [Starts -> UnderWay \cup {"down", "serving", "failed"}],
             pc[s] \notin {"serving", "failed", "backfilling", "committing"},
             pc'[s] \notin {"serving", "backfilling", "committing"},
             \A t \in Starts \ {s} : pc'[t] = pc[t] /\ org'[t] = org[t],
             \A t \in Starts : saw'[t] \subseteq default,
             UNCHANGED default
      PROVE  Goal
  <2>1. Pending' = Pending
    BY <1>1 DEF Pending
  <2> QED  BY <1>1, <2>1 DEF OneDefault, StartupTypeOK
\* A start gives up.
<1>2. ASSUME NEW s \in Starts, Fails(s), pc[s] \in UnderWay PROVE Goal
  <2>1. /\ pc' = [pc EXCEPT ![s] = "failed"] /\ UNCHANGED default
        /\ \A t \in Starts : saw'[t] \subseteq default
        /\ \A t \in Starts \ {s} : org'[t] = org[t]
    BY <1>2, LeavesWrites DEF Fails, OneDefault
  <2>2. /\ \A t \in Starts \ {s} : pc'[t] = pc[t]
        /\ pc'[s] = "failed"
    BY <2>1 DEF StartupTypeOK
  <2>3. Pending' = Pending \ {s}
    BY <2>1, <2>2 DEF Pending
  <2> QED  BY <1>2, <2>1, <2>2, <2>3 DEF OneDefault, StartupTypeOK, UnderWay
<1>3. CASE UNCHANGED startup
  BY <1>3 DEF startup, OneDefault, Pending
<1>4. ASSUME NEW r \in Rows, WriteUnowned(r) PROVE Goal
  BY <1>4 DEF WriteUnowned, OneDefault, Pending
<1>5. ASSUME NEW s \in Starts, Boot(s) PROVE Goal
  BY <1>5, <1>1 DEF Boot, Goes, OneDefault, StartupTypeOK, UnderWay
<1>6. ASSUME NEW s \in Starts, Dies(s) PROVE Goal
  BY <1>6 DEF Dies, OneDefault, Pending
<1>7. ASSUME NEW s \in Starts, SelectColumn(s) PROVE Goal
  <2>1. /\ pc[s] = "columns"
        /\ \E where \in {"columns", "altering", "organization"} : pc' = [pc EXCEPT ![s] = where]
        /\ UNCHANGED <<default, org, saw>>
    BY <1>7 DEF SelectColumn, NextColumn, Goes
  <2> QED  BY <2>1, <1>1 DEF OneDefault, StartupTypeOK, UnderWay
<1>8. ASSUME NEW s \in Starts, Alter(s) PROVE Goal
  <2>1. CASE Fails(s)
    BY <2>1, <1>2, <1>8 DEF Alter, UnderWay
  <2>2. CASE ~Fails(s)
    <3>1. UNCHANGED default /\ pc[s] = "altering"
      BY <2>2, <1>8 DEF Alter
    <3>2. CASE Leaves(s, "failed")
      BY <3>1, <3>2, <1>1, LeavesWrites DEF OneDefault, StartupTypeOK
    <3>3. CASE NextColumn(s) /\ saw' = [saw EXCEPT ![s] = default] /\ UNCHANGED org
      <4>1. \E where \in {"columns", "organization"} : pc' = [pc EXCEPT ![s] = where]
        BY <3>3 DEF NextColumn, Goes
      <4>2. \A t \in Starts : saw'[t] \subseteq default
        BY <3>3 DEF OneDefault, StartupTypeOK
      <4> QED  BY <4>1, <4>2, <3>1, <3>3, <1>1 DEF StartupTypeOK, UnderWay
    <3> QED  BY <2>2, <3>2, <3>3, <1>8 DEF Alter
  <2> QED  BY <2>1, <2>2
<1>9. ASSUME NEW s \in Starts, SelectOrganization(s) PROVE Goal
  <2>1. PICK seen \in {saw[s], default} :
          \/ /\ \E o \in seen : org' = [org EXCEPT ![s] = o]
             /\ Goes(s, "backfilling")
          \/ Goes(s, "inserting") /\ UNCHANGED org
    BY <1>9 DEF SelectOrganization
  <2>2. /\ pc[s] = "organization" /\ seen \subseteq default
        /\ UNCHANGED <<default, saw>>
    BY <1>9, <2>1 DEF SelectOrganization, OneDefault
  <2>3. CASE Goes(s, "inserting") /\ UNCHANGED org
    BY <2>2, <2>3, <1>1 DEF Goes, OneDefault, StartupTypeOK, UnderWay
  <2>4. ASSUME NEW o \in seen, org' = [org EXCEPT ![s] = o], Goes(s, "backfilling") PROVE Goal
    <3>1. o # s /\ o \in default
      BY <2>2 DEF OneDefault
    <3>2. /\ pc'[s] = "backfilling" /\ org'[s] = o
          /\ \A t \in Starts \ {s} : pc'[t] = pc[t] /\ org'[t] = org[t]
      BY <2>4 DEF Goes, StartupTypeOK
    <3>3. Pending' = Pending
      BY <2>2, <3>1, <3>2 DEF Pending
    <3>4. s \notin default
      BY <2>2 DEF OneDefault
    <3> QED  BY <2>2, <3>1, <3>2, <3>3, <3>4 DEF OneDefault, StartupTypeOK
  <2> QED  BY <2>1, <2>3, <2>4
<1>10. ASSUME NEW s \in Starts, InsertOrganization(s) PROVE Goal
  <2>1. CASE Fails(s)
    BY <2>1, <1>2, <1>10 DEF InsertOrganization, UnderWay
  <2>2. CASE ~Fails(s)
    <3>1. /\ default = {} /\ Pending = {}
          /\ org' = [org EXCEPT ![s] = s] /\ pc' = [pc EXCEPT ![s] = "backfilling"]
          /\ UNCHANGED <<default, saw>>
      BY <2>2, <1>10 DEF InsertOrganization, Goes
    <3>2. /\ pc'[s] = "backfilling" /\ org'[s] = s
          /\ \A t \in Starts \ {s} : pc'[t] = pc[t] /\ org'[t] = org[t]
      BY <3>1 DEF StartupTypeOK
    <3>3. Pending' = {s}
      BY <3>1, <3>2 DEF Pending
    <3> QED  BY <3>1, <3>2, <3>3 DEF OneDefault, StartupTypeOK
  <2> QED  BY <2>1, <2>2
<1>11. ASSUME NEW s \in Starts, Backfill(s) PROVE Goal
  <2>1. /\ pc[s] = "backfilling" /\ pc' = [pc EXCEPT ![s] = "committing"]
        /\ UNCHANGED <<default, org, saw>>
    BY <1>11 DEF Backfill, Goes
  <2>2. pc'[s] = "committing" /\ \A t \in Starts \ {s} : pc'[t] = pc[t]
    BY <2>1 DEF StartupTypeOK
  <2>3. Pending' = Pending
    BY <2>1, <2>2 DEF Pending
  <2> QED  BY <2>1, <2>2, <2>3 DEF OneDefault, StartupTypeOK
<1>12. ASSUME NEW s \in Starts, Commit(s) PROVE Goal
  <2>1. PICK where \in {"serving", "failed"} : Leaves(s, where)
    BY <1>12 DEF Commit
  <2>2. /\ pc'[s] = where
        /\ \A t \in Starts \ {s} : pc'[t] = pc[t] /\ org'[t] = org[t]
        /\ \A t \in Starts : saw'[t] \subseteq saw[t]
    BY <2>1, LeavesWrites DEF StartupTypeOK
  <2>3. pc[s] = "committing" /\ default' = IF org[s] = s THEN default \cup {s} ELSE default
    BY <1>12 DEF Commit
  <2>4. Pending' = Pending \ {s}
    BY <2>2 DEF Pending
  <2>5. CASE org[s] = s
    <3>1. s \in Pending /\ Pending' = {} /\ default = {} /\ default' = {s}
      BY <2>3, <2>4, <2>5 DEF Pending, OneDefault
    <3>2. \A t \in Starts \ {s} : pc[t] \in {"backfilling", "committing"} => FALSE
      BY <3>1, <2>5 DEF OneDefault, Pending
    <3> QED  BY <2>2, <3>1, <3>2 DEF OneDefault, StartupTypeOK
  <2>6. CASE org[s] # s
    <3>1. default' = default /\ default # {}
      BY <2>3, <2>6 DEF OneDefault
    <3> QED  BY <2>2, <2>4, <2>3, <3>1 DEF OneDefault, StartupTypeOK
  <2> QED  BY <2>5, <2>6
<1>13. ASSUME NEW s \in Starts, RolledBack(s) PROVE Goal
  BY <1>13, <1>2 DEF RolledBack
<1> QED
  BY <1>3, <1>4, <1>5, <1>6, <1>7, <1>8, <1>9, <1>10, <1>11, <1>12, <1>13 DEF StartupNext, Step

LEMMA RowsStep ==
  ASSUME StartupTypeOK, OneDefault, RowsOwned, OneDefault', default \subseteq default',
         [StartupNext]_startup
  PROVE  RowsOwned'
<1> USE StartupConstants DEF database, session
\* A start goes on or gives up, neither to nor from the rows.
<1>1. ASSUME NEW s \in Starts, NEW where \in UnderWay \cup {"failed"}, where # "committing",
             pc' = [pc EXCEPT ![s] = where],
             \A t \in Starts \ {s} : claimed'[t] = claimed[t],
             UNCHANGED <<default, owner, older>>
      PROVE  RowsOwned'
  <2>1. pc'[s] = where /\ \A t \in Starts \ {s} : pc'[t] = pc[t]
    BY <1>1 DEF StartupTypeOK
  <2>2. Unowned' = Unowned
    BY <1>1 DEF Unowned
  <2>3. where # "serving"
    BY DEF UnderWay
  <2> QED  BY <1>1, <2>1, <2>2, <2>3 DEF RowsOwned
<1>2. ASSUME NEW s \in Starts, Fails(s), UNCHANGED older PROVE RowsOwned'
  BY <1>1, <1>2, LeavesWrites DEF Fails
<1>3. CASE UNCHANGED startup
  BY <1>3 DEF startup, RowsOwned, Unowned
<1>4. ASSUME NEW r \in Rows, WriteUnowned(r) PROVE RowsOwned'
  <2>1. /\ owner[r] = "absent" /\ owner' = [owner EXCEPT ![r] = "null"]
        /\ \A s \in Starts : pc[s] # "committing"
        /\ UNCHANGED <<default, pc, claimed, older>>
    BY <1>4 DEF WriteUnowned
  <2>2. owner'[r] = "null" /\ \A q \in Rows \ {r} : owner'[q] = owner[q]
    BY <2>1 DEF StartupTypeOK
  <2>3. \A s \in Starts : older[s] \subseteq Rows \ {r}
    BY <2>1 DEF StartupTypeOK, RowsOwned
  <2> QED  BY <2>1, <2>2, <2>3 DEF RowsOwned
<1>5. ASSUME NEW s \in Starts, Boot(s) PROVE RowsOwned'
  <2>1. /\ pc' = [pc EXCEPT ![s] = "columns"]
        /\ older' = [older EXCEPT ![s] = Unowned]
        /\ UNCHANGED <<default, owner, claimed>>
    BY <1>5 DEF Boot, Goes
  <2>2. /\ pc'[s] = "columns" /\ older'[s] = Unowned
        /\ \A t \in Starts \ {s} : pc'[t] = pc[t] /\ older'[t] = older[t]
    BY <2>1 DEF StartupTypeOK
  <2>3. Unowned' = Unowned /\ \A r \in Unowned : owner[r] # "absent"
    BY <2>1 DEF Unowned
  <2> QED  BY <2>1, <2>2, <2>3 DEF RowsOwned
<1>6. ASSUME NEW s \in Starts, Dies(s) PROVE RowsOwned'
  BY <1>6 DEF Dies, RowsOwned, Unowned
<1>7. ASSUME NEW s \in Starts, SelectColumn(s) PROVE RowsOwned'
  <2>1. /\ \E where \in {"columns", "altering", "organization"} : pc' = [pc EXCEPT ![s] = where]
        /\ UNCHANGED <<default, owner, claimed, older>>
    BY <1>7 DEF SelectColumn, NextColumn, Goes
  <2> QED  BY <2>1, <1>1 DEF UnderWay
<1>8. ASSUME NEW s \in Starts, Alter(s) PROVE RowsOwned'
  <2>1. UNCHANGED <<default, owner, older>>
    BY <1>8 DEF Alter, Fails
  <2>2. CASE Leaves(s, "failed")
    BY <2>1, <2>2, <1>1, LeavesWrites
  <2>3. CASE NextColumn(s) /\ UNCHANGED claimed
    <3>1. \E where \in {"columns", "organization"} : pc' = [pc EXCEPT ![s] = where]
      BY <2>3 DEF NextColumn, Goes
    <3> QED  BY <3>1, <2>1, <2>3, <1>1 DEF UnderWay
  <2> QED  BY <2>2, <2>3, <1>8 DEF Alter, Fails
<1>9. ASSUME NEW s \in Starts, SelectOrganization(s) PROVE RowsOwned'
  <2>1. /\ \E where \in {"inserting", "backfilling"} : pc' = [pc EXCEPT ![s] = where]
        /\ UNCHANGED <<default, owner, claimed, older>>
    BY <1>9 DEF SelectOrganization, Goes
  <2> QED  BY <2>1, <1>1 DEF UnderWay
<1>10. ASSUME NEW s \in Starts, InsertOrganization(s) PROVE RowsOwned'
  <2>1. CASE Fails(s)
    BY <2>1, <1>2, <1>10 DEF InsertOrganization
  <2>2. CASE ~Fails(s)
    <3>1. /\ pc' = [pc EXCEPT ![s] = "backfilling"]
          /\ UNCHANGED <<default, owner, claimed, older>>
      BY <2>2, <1>10 DEF InsertOrganization, Goes
    <3> QED  BY <3>1, <1>1 DEF UnderWay
  <2> QED  BY <2>1, <2>2
<1>11. ASSUME NEW s \in Starts, Backfill(s) PROVE RowsOwned'
  <2>1. /\ pc' = [pc EXCEPT ![s] = "committing"] /\ claimed' = [claimed EXCEPT ![s] = Unowned]
        /\ \A t \in Starts : pc[t] # "committing"
        /\ UNCHANGED <<default, owner, older>>
    BY <1>11 DEF Backfill, Goes
  <2>2. /\ pc'[s] = "committing" /\ claimed'[s] = Unowned
        /\ \A t \in Starts \ {s} : pc'[t] = pc[t]
    BY <2>1 DEF StartupTypeOK
  <2>3. Unowned' = Unowned
    BY <2>1 DEF Unowned
  <2> QED  BY <2>1, <2>2, <2>3 DEF RowsOwned
<1>12. ASSUME NEW s \in Starts, Commit(s) PROVE RowsOwned'
  <2>1. PICK where \in {"serving", "failed"} : Leaves(s, where)
    BY <1>12 DEF Commit
  <2>2. pc'[s] = where /\ \A t \in Starts \ {s} : pc'[t] = pc[t]
    BY <2>1, LeavesWrites DEF StartupTypeOK
  <2>3. /\ pc[s] = "committing" /\ claimed[s] = Unowned
        /\ org[s] \in default'
    BY <1>12 DEF Commit, OneDefault, RowsOwned
  <2>4. \A t \in Starts : pc'[t] # "committing"
    BY <2>2, <2>3 DEF RowsOwned
  <2>5. /\ owner' = [r \in Rows |-> IF r \in Unowned THEN org[s] ELSE owner[r]]
        /\ UNCHANGED older
    BY <1>12, <2>3 DEF Commit
  <2>6. ASSUME NEW r \in Rows
        PROVE  owner'[r] \in default' \cup {"absent"} /\ (owner'[r] = "absent" => owner[r] = "absent")
    <3>1. CASE r \in Unowned
      <4>1. owner'[r] = org[s]
        BY <3>1, <2>5
      <4>2. owner'[r] \in Starts
        BY <4>1, <2>3, <1>12 DEF Commit, StartupTypeOK
      <4> QED  BY <4>1, <4>2, <2>3
    <3>2. CASE r \notin Unowned
      BY <3>2, <2>5 DEF Unowned, RowsOwned
    <3> QED  BY <3>1, <3>2
  <2>7. \A t \in Starts : older'[t] \subseteq Rows
    BY <2>5 DEF StartupTypeOK
  <2> QED  BY <2>4, <2>5, <2>6, <2>7 DEF RowsOwned
<1>13. ASSUME NEW s \in Starts, RolledBack(s) PROVE RowsOwned'
  BY <1>13, <1>2 DEF RolledBack
<1> QED
  BY <1>3, <1>4, <1>5, <1>6, <1>7, <1>8, <1>9, <1>10, <1>11, <1>12, <1>13 DEF StartupNext, Step

LEMMA StartupStep ==
  ASSUME StartupInv, [StartupNext]_startup
  PROVE  StartupInv' /\ default \subseteq default'
BY StartupTypeStep, ColumnsStep, OneDefaultStep, RowsStep DEF StartupInv

LEMMA StartupSafety == StartupInv => ServingMeansReady
<1> SUFFICES ASSUME StartupInv, NEW s \in Starts, pc[s] = "serving"
             PROVE  /\ columns = 1 .. Columns
                    /\ Cardinality(default) = 1
                    /\ \A r \in older[s] : owner[r] \in default
  BY DEF ServingMeansReady
<1>1. PICK o \in default : default = {o}
  BY DEF StartupInv, OneDefault
<1>2. Cardinality(default) = 1
  BY <1>1, FS_Singleton
<1> QED  BY <1>2 DEF StartupInv, ColumnsAdded, RowsOwned

----------------------------------------------------------------------------
(* The accounts.  One signup of an email at a time has inserted its user and *)
(* not committed it; a user is one whose signup was committed.               *)

UsersCommitted ==
  /\ users = tenants
  /\ \A r \in Requests :
       /\ at[r] \in {"committed", "ok"} => r \in users
       /\ r \in users => at[r] \in {"committed", "ok", "error", "lost"}
       /\ at[r] = "conflict" => Taken(r)

OneOfAnEmail ==
  \A r, q \in Requests :
    r # q /\ email[r] = email[q] =>
      ~ (r \in users \cup Uncommitted /\ q \in users \cup Uncommitted)

AccountsInv == TypeOK /\ StartupInv /\ UsersCommitted /\ OneOfAnEmail /\ KnownKeysWork

LEMMA AccountsInit == Init => AccountsInv
<1> SUFFICES ASSUME Init PROVE AccountsInv
  OBVIOUS
<1>1. StartupInv
  BY StartupInit1 DEF Init
<1>2. TypeOK
  BY <1>1 DEF Init, TypeOK, StartupInv, Keys, NotYet
<1>3. UsersCommitted /\ OneOfAnEmail
  BY DEF Init, UsersCommitted, OneOfAnEmail, Uncommitted
<1>4. KnownKeysWork
  BY DEF Init, KnownKeysWork, NotYet
<1> QED  BY <1>1, <1>2, <1>3, <1>4 DEF AccountsInv

\* What every step of a signup does: it moves, and perhaps commits.
LEMMA SignupMoves ==
  ASSUME TypeOK, NEW r \in Requests, Signup(r)
  PROVE  /\ UNCHANGED <<startup, email, registered>>
         /\ server' \in [Requests -> Starts \cup {"none"}]
         /\ \E where \in {"checked", "inserted", "committed", "ok", "conflict", "error", "lost"} :
              /\ at' = [at EXCEPT ![r] = where]
              /\ where = "committed" => at[r] = "inserted" /\ users' = users \cup {r} /\ tenants' = tenants \cup {r}
              /\ where # "committed" => UNCHANGED <<users, tenants>>
              /\ where = "ok" => at[r] = "committed"
              /\ where = "lost" => at[r] \in {"checked", "inserted", "committed"}
              /\ where = "error" => at[r] \in {"client", "checked", "inserted", "committed"}
              /\ where \in {"checked", "conflict", "inserted"} => at[r] \in {"client", "checked"}
              /\ where = "conflict" => Taken(r)
              /\ where = "inserted" => ~Taken(r) /\ Uncommitted \cap SameEmail(r) = {}
<1>1. CASE CheckEmail(r)
  BY <1>1 DEF CheckEmail, Moves, TypeOK, Serving
<1>2. CASE InsertUser(r)
  BY <1>2 DEF InsertUser, Moves, TypeOK
<1>3. CASE Raises(r)
  BY <1>3 DEF Raises, Moves, TypeOK, Serving
<1>4. CASE CommitSignup(r)
  BY <1>4 DEF CommitSignup, Moves, TypeOK
<1>5. CASE Answer(r)
  BY <1>5 DEF Answer, Moves, TypeOK
<1>6. CASE LoseRequest(r)
  BY <1>6 DEF LoseRequest, Moves, TypeOK
<1> QED  BY <1>1, <1>2, <1>3, <1>4, <1>5, <1>6 DEF Signup

LEMMA SignupStep ==
  ASSUME AccountsInv, NEW r \in Requests, Signup(r)
  PROVE  AccountsInv'
<1>1. UNCHANGED <<startup, email, registered>> /\ server' \in [Requests -> Starts \cup {"none"}]
  BY SignupMoves DEF AccountsInv
<1>2. PICK where \in {"checked", "inserted", "committed", "ok", "conflict", "error", "lost"} :
        /\ at' = [at EXCEPT ![r] = where]
        /\ where = "committed" => at[r] = "inserted" /\ users' = users \cup {r} /\ tenants' = tenants \cup {r}
        /\ where # "committed" => UNCHANGED <<users, tenants>>
        /\ where = "ok" => at[r] = "committed"
        /\ where = "lost" => at[r] \in {"checked", "inserted", "committed"}
        /\ where = "error" => at[r] \in {"client", "checked", "inserted", "committed"}
        /\ where \in {"checked", "conflict", "inserted"} => at[r] \in {"client", "checked"}
        /\ where = "conflict" => Taken(r)
        /\ where = "inserted" => ~Taken(r) /\ Uncommitted \cap SameEmail(r) = {}
  BY SignupMoves DEF AccountsInv
<1>3. at'[r] = where /\ \A q \in Requests \ {r} : at'[q] = at[q]
  BY <1>2 DEF AccountsInv, TypeOK
<1>4. StartupInv' /\ StartupTypeOK'
  <2>1. StartupInv'
    BY <1>1, StartupStep DEF AccountsInv
  <2> QED  BY <2>1 DEF StartupInv
<1>5. TypeOK'
  BY <1>1, <1>2, <1>4 DEF AccountsInv, TypeOK
<1>6. SameEmail(r)' = SameEmail(r) /\ \A q \in Requests : SameEmail(q)' = SameEmail(q)
  BY <1>1 DEF SameEmail
<1>7. users \subseteq users' /\ users' \subseteq users \cup {r}
  BY <1>2
<1>8. UsersCommitted'
  <2>1. users' = tenants'
    BY <1>2 DEF AccountsInv, UsersCommitted
  <2>2. \A q \in Requests : Taken(q) => Taken(q)'
    BY <1>6, <1>7 DEF Taken
  <2>3. ASSUME NEW q \in Requests \ {r}
        PROVE  /\ at'[q] \in {"committed", "ok"} => q \in users'
               /\ q \in users' => at'[q] \in {"committed", "ok", "error", "lost"}
               /\ at'[q] = "conflict" => Taken(q)'
    BY <1>3, <1>7, <2>2 DEF AccountsInv, UsersCommitted
  <2>4. /\ at'[r] \in {"committed", "ok"} => r \in users'
        /\ r \in users' => at'[r] \in {"committed", "ok", "error", "lost"}
        /\ at'[r] = "conflict" => Taken(r)'
    BY <1>2, <1>3, <2>2 DEF AccountsInv, UsersCommitted
  <2> QED  BY <2>1, <2>3, <2>4 DEF UsersCommitted
<1>9. OneOfAnEmail'
  <2>1. CASE where = "inserted"
    <3>1. Uncommitted' = Uncommitted \cup {r} /\ users' = users
      BY <2>1, <1>2, <1>3 DEF Uncommitted
    <3>2. \A q \in Requests : q # r /\ email[q] = email[r] => q \notin users \cup Uncommitted
      BY <2>1, <1>2 DEF Taken, SameEmail
    <3> QED  BY <1>1, <3>1, <3>2 DEF AccountsInv, OneOfAnEmail
  <2>2. CASE where # "inserted"
    <3>1. users' \cup Uncommitted' \subseteq users \cup Uncommitted
      BY <2>2, <1>2, <1>3 DEF Uncommitted
    <3> QED  BY <1>1, <3>1 DEF AccountsInv, OneOfAnEmail
  <2> QED  BY <2>1, <2>2
<1>10. KnownKeysWork'
  BY <1>1 DEF AccountsInv, KnownKeysWork, startup, database
<1> QED  BY <1>4, <1>5, <1>8, <1>9, <1>10 DEF AccountsInv

LEMMA RegisterStep ==
  ASSUME AccountsInv, NEW a \in Agents, NEW key \in Keys, RegisterAgent(a, key)
  PROVE  AccountsInv'
<1>1. UNCHANGED <<startup, email, at, server, tenants, users>>
  BY DEF RegisterAgent
<1>2. PICK answer \in IF OrganizationsOf(key) = {} THEN {"rejected"} ELSE OrganizationsOf(key) :
        registered' = [registered EXCEPT ![a] = [key |-> key, answer |-> answer]]
  BY DEF RegisterAgent
<1>3. default \subseteq Starts /\ tenants \subseteq Requests /\ startup' = startup
  BY <1>1 DEF AccountsInv, TypeOK, StartupTypeOK
<1>4. StartupInv' /\ StartupTypeOK'
  <2>1. StartupInv'
    BY <1>1, StartupStep DEF AccountsInv
  <2> QED  BY <2>1 DEF StartupInv
<1>5. /\ registered'[a] = [key |-> key, answer |-> answer]
      /\ \A b \in Agents \ {a} : registered'[b] = registered[b]
  BY <1>2 DEF AccountsInv, TypeOK
<1>6. answer \in {"rejected"} \cup Starts \cup Requests
  BY <1>2, <1>3 DEF OrganizationsOf
<1>7. TypeOK'
  BY <1>1, <1>2, <1>4, <1>6 DEF AccountsInv, TypeOK
<1>8. UsersCommitted' /\ OneOfAnEmail'
  BY <1>1 DEF AccountsInv, UsersCommitted, OneOfAnEmail, Taken, SameEmail, Uncommitted
<1>9. default # {}
  BY DEF RegisterAgent, Serving, AccountsInv, StartupInv, OneDefault
<1>10. /\ answer = "rejected" => key = "unknown"
       /\ key = "default" => answer \in default
       /\ key \in Requests => answer = key
  <2>1. key \in Requests => key \in tenants
    BY DEF RegisterAgent, AccountsInv, UsersCommitted
  <2>2. CASE key = "default"
    BY <2>2, <1>2, <1>3, <1>9, AccountsConstants DEF OrganizationsOf
  <2>3. CASE key \in Requests
    BY <2>1, <2>3, <1>2, AccountsConstants DEF OrganizationsOf
  <2>4. CASE key = "unknown"
    BY <2>4, AccountsConstants
  <2> QED  BY <2>2, <2>3, <2>4 DEF Keys
<1>11. KnownKeysWork'
  <2>1. UNCHANGED default
    BY <1>1 DEF startup, database
  <2> QED  BY <2>1, <1>5, <1>10 DEF AccountsInv, KnownKeysWork
<1> QED  BY <1>4, <1>7, <1>8, <1>11 DEF AccountsInv

\* What the starts do leaves the accounts alone.
LEMMA StartKeepsAccounts ==
  ASSUME AccountsInv, [StartupNext]_startup, UNCHANGED accounts
  PROVE  AccountsInv'
<1>1. StartupInv' /\ default \subseteq default'
  BY StartupStep DEF AccountsInv
<1>2. TypeOK'
  BY <1>1 DEF AccountsInv, StartupInv, TypeOK, accounts
<1>3. UsersCommitted' /\ OneOfAnEmail'
  BY DEF AccountsInv, UsersCommitted, OneOfAnEmail, Taken, SameEmail, Uncommitted, accounts
<1>4. KnownKeysWork'
  BY <1>1 DEF AccountsInv, KnownKeysWork, accounts
<1> QED  BY <1>1, <1>2, <1>3, <1>4 DEF AccountsInv

LEMMA AccountsStep == AccountsInv /\ [Next]_vars => AccountsInv'
BY SignupStep, RegisterStep, StartKeepsAccounts DEF Next, vars

LEMMA Invariance == Spec => []AccountsInv
<1> QED  BY AccountsInit, AccountsStep, PTL DEF Spec

----------------------------------------------------------------------------
(* The theorems. *)

\* The accounts only use the starts: init_schema behaves as it does alone.
THEOREM StartsAreAlone == Spec => StartupSpec
<1>1. Init => StartupInit
  BY DEF Init
<1>2. [Next]_vars => [StartupNext]_startup
  <2>1. ASSUME NEW r \in Requests, Signup(r) PROVE UNCHANGED startup
    BY <2>1 DEF Signup, CheckEmail, InsertUser, CommitSignup, Answer, Raises, LoseRequest
  <2>2. ASSUME NEW a \in Agents, NEW key \in Keys, RegisterAgent(a, key) PROVE UNCHANGED startup
    BY <2>2 DEF RegisterAgent
  <2> QED  BY <2>1, <2>2 DEF Next, vars
<1> QED  BY <1>1, <1>2, PTL DEF Spec, StartupSpec

\* The values of the variables are of their types.
THEOREM TypeCorrect == Spec => []TypeOK
<1>1. AccountsInv => TypeOK
  BY DEF AccountsInv
<1> QED  BY <1>1, Invariance, PTL

\* init_schema of any number of racing starts: a process that serves has every
\* column, one default organization, and no row of before without organization.
THEOREM StartsAreReady == Spec => []ServingMeansReady
<1>1. AccountsInv => ServingMeansReady
  BY StartupSafety DEF AccountsInv
<1> QED  BY <1>1, Invariance, PTL

\* signup: a session means an account of one's own, a 409 an account of the email,
\* whatever races, raises, loses its connection or ends.
THEOREM AnswersAreTrue == Spec => []AnsweredMeansAccount
<1>1. AccountsInv => AnsweredMeansAccount
  BY DEF AccountsInv, UsersCommitted, AnsweredMeansAccount
<1> QED  BY <1>1, Invariance, PTL

\* signup: no email has two accounts, and no organization is without its user.
THEOREM NoHalfAccounts == Spec => []AccountsAreWhole
<1>1. AccountsInv => AccountsAreWhole
  BY DEF AccountsInv, TypeOK, UsersCommitted, OneOfAnEmail, AccountsAreWhole, Taken, SameEmail
<1> QED  BY <1>1, Invariance, PTL

\* register_agent: a key somebody was given leads to its organization.
THEOREM KeysWork == Spec => []KnownKeysWork
<1>1. AccountsInv => KnownKeysWork
  BY DEF AccountsInv
<1> QED  BY <1>1, Invariance, PTL

=============================================================================
