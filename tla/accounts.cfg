\* Two starts that race, two signups of one email or two, one agent.
SPECIFICATION FairSpec
CONSTANTS
  Starts = {s1, s2}
  Columns = 2
  Rows = {r1}
  Requests = {q1, q2}
  Emails = {e1, e2}
  Agents = {a1}
CHECK_DEADLOCK FALSE
INVARIANTS
  TypeOK
  ServingMeansReady
  AnsweredMeansAccount
  AccountsAreWhole
  KnownKeysWork
PROPERTIES
  OneStartServes
