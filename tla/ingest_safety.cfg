\* Three concurrent requests, as many as make a burst, of two organizations.
SPECIFICATION Spec
CONSTANTS
  Requests = {r1, r2, r3}
  Lines <- MCLines
  Orgs = {o1, o2}
  DefaultOrg = o1
  NoOrg = NoOrg
  MaxAge = 1
SYMMETRY MCSymmetry
INVARIANTS
  TypeOK
  AnsweredMeansStored
  AlertIsExplained
  NotifiedAlertIsFound
  ForeignAlertWasSkipped
  BurstIsOwn
  BurstIsAlerted
\* Every request ends.
CHECK_DEADLOCK FALSE
