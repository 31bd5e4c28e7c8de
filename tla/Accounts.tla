------------------------------ MODULE Accounts -------------------------------
(***************************************************************************)
(* Organizations, their users and their agents: signup and register_agent  *)
(* of main.py, on the processes that Startup brings up and down.  Signups  *)
(* are concurrent transactions, of the same email too, and a process may   *)
(* end in the middle of any of them.                                       *)
(***************************************************************************)
EXTENDS Startup

CONSTANTS Requests,  \* POST /auth/signup
          Emails,
          Agents     \* POST /register-agent

ASSUME AccountsConstants ==
  /\ Requests \cap Starts = {} /\ Requests \cap {"default", "unknown"} = {}
  /\ (Starts \cup Requests) \cap {"none", "rejected"} = {}

VARIABLES
  email,       \* the email of every signup
  at,          \* where the handler of a signup is
  server,      \* the process that handles it
  tenants,     \* committed organizations of signups, named by their signup
  users,       \* committed users, named by their signup
  registered   \* the key every agent registered with, and what it was answered

accounts == <<email, at, server, tenants, users, registered>>
vars == <<startup, accounts>>

Keys == {"default", "unknown"} \cup Requests
NotYet == [key |-> "unknown", answer |-> "none"]

Init ==
  /\ StartupInit
  /\ email \in [Requests -> Emails]
  /\ at = [r \in Requests |-> "client"]
  /\ server = [r \in Requests |-> "none"]
  /\ tenants = {} /\ users = {}
  /\ registered = [a \in Agents |-> NotYet]

----------------------------------------------------------------------------
(* signup. *)

Moves(r, from, to) == at[r] = from /\ at' = [at EXCEPT ![r] = to]
HandlerRuns(r) == server[r] \in Serving
SameEmail(r) == {q \in Requests \ {r} : email[q] = email[r]}
\* Mutant: what is not committed is seen, too.
TakenByAny(r) == (users \cup {q \in Requests : at[q] = "inserted"}) \cap SameEmail(r) # {}

Taken(r) == users \cap SameEmail(r) # {}
\* The rows of users that a transaction has inserted and not committed.
Uncommitted == {q \in Requests : at[q] = "inserted"}

\* SELECT id FROM users: 409 if there is one; otherwise the organization is
\* inserted, under a key of its own, which nobody else can see or wait for.
CheckEmail(r) ==
  /\ \E s \in Serving : server' = [server EXCEPT ![r] = s]
  /\ \/ Taken(r) /\ Moves(r, "client", "conflict")
     \/ ~Taken(r) /\ Moves(r, "client", "checked")
  /\ UNCHANGED <<startup, email, tenants, users, registered>>

InsertUserUnchecked(r) ==   \* mutant: no unique key on email
  /\ HandlerRuns(r)
  /\ Moves(r, "checked", "inserted")
  /\ UNCHANGED <<startup, email, server, tenants, users, registered>>

\* INSERT INTO users waits for an uncommitted one of the same email and fails
\* on a committed one: the exception rolls back the organization, too.
InsertUser(r) ==
  /\ HandlerRuns(r) /\ Uncommitted \cap SameEmail(r) = {}
  /\ \/ Taken(r) /\ Moves(r, "checked", "error")
     \/ ~Taken(r) /\ Moves(r, "checked", "inserted")
  /\ UNCHANGED <<startup, email, server, tenants, users, registered>>

\* The database carries the commit out.
CommitSignup(r) ==
  /\ HandlerRuns(r)
  /\ Moves(r, "inserted", "committed")
  /\ users' = users \cup {r} /\ tenants' = tenants \cup {r}
  /\ UNCHANGED <<startup, email, server, registered>>

\* Its reply arrives: auth_response.
Answer(r) ==
  /\ HandlerRuns(r)
  /\ Moves(r, "committed", "ok")
  /\ UNCHANGED <<startup, email, server, tenants, users, registered>>

\* There is no try: any statement that raises is a 500.  No connection, a value
\* too long for its column, a deadlock, a wait too long, a connection lost
\* before the commit, or after it with its reply: then the account is there.
Raises(r) ==
  /\ \/ \E s \in Serving : server' = [server EXCEPT ![r] = s] /\ Moves(r, "client", "error")
     \/ /\ HandlerRuns(r) /\ UNCHANGED server
        /\ \E from \in {"checked", "inserted", "committed"} : Moves(r, from, "error")
  /\ UNCHANGED <<startup, email, tenants, users, registered>>

\* The process has ended: what is not committed never will be.
LoseRequest(r) ==
  /\ server[r] \in gone
  /\ \E from \in {"checked", "inserted", "committed"} : Moves(r, from, "lost")
  /\ UNCHANGED <<startup, email, server, tenants, users, registered>>

Signup(r) ==
  CheckEmail(r) \/ InsertUser(r) \/ CommitSignup(r) \/ Answer(r) \/ Raises(r) \/ LoseRequest(r)

----------------------------------------------------------------------------
(* register_agent. *)

\* get_organization_by_key: no key stands for the default one.
OrganizationsOf(key) ==
  IF key = "default" THEN default ELSE IF key \in tenants THEN {key} ELSE {}

\* A key the operator of the agent may have: none, one from the answer of a
\* signup, or a wrong one.
RegisterAgent(a, key) ==
  /\ registered[a].answer = "none"
  /\ Serving # {}
  /\ key \in Requests => at[key] = "ok"
  /\ \E answer \in IF OrganizationsOf(key) = {} THEN {"rejected"} ELSE OrganizationsOf(key) :
       registered' = [registered EXCEPT ![a] = [key |-> key, answer |-> answer]]
  /\ UNCHANGED <<startup, email, at, server, tenants, users>>

----------------------------------------------------------------------------

Next ==
  \/ StartupNext /\ UNCHANGED accounts
  \/ \E r \in Requests : Signup(r)
  \/ \E a \in Agents, key \in Keys : RegisterAgent(a, key)

Spec == Init /\ [][Next]_vars

\* A process that starts runs its statements one after the other, and the
\* database ends each of them.
FairSpec == Spec /\ \A s \in Starts : WF_vars(Step(s) /\ UNCHANGED accounts)

----------------------------------------------------------------------------
(* Properties. *)

TypeOK ==
  /\ StartupTypeOK
  /\ email \in [Requests -> Emails]
  /\ at \in [Requests -> {"client", "checked", "inserted", "committed", "ok", "conflict", "error", "lost"}]
  /\ server \in [Requests -> Starts \cup {"none"}]
  /\ tenants \subseteq Requests /\ users \subseteq Requests
  /\ registered \in [Agents -> [key : Keys, answer : {"none", "rejected"} \cup Starts \cup Requests]]

\* A signup answered with a session has an account its user can log in to, in
\* an organization of its own, and 409 is answered only to an email that has an
\* account, not to one whose signup is rolled back in the end.  A 500 says
\* nothing: the account may be there or not.
AnsweredMeansAccount ==
  \A r \in Requests :
    /\ at[r] = "ok" => r \in users \cap tenants
    /\ at[r] = "conflict" => Taken(r)

\* However signups race, fail and end, an email has one account, and no
\* organization is left without the user who asked for it.
AccountsAreWhole ==
  /\ users = tenants
  /\ \A r \in users : ~Taken(r)

\* The key of an answered signup, and none at all, are good for a registration
\* from the first moment a process serves, and lead to that organization.
KnownKeysWork ==
  \A a \in Agents : registered[a].answer # "none" =>
    /\ registered[a].answer = "rejected" => registered[a].key = "unknown"
    /\ registered[a].key = "default" => registered[a].answer \in default
    /\ registered[a].key \in Requests => registered[a].answer = registered[a].key

=============================================================================
