\* Two users with two requests each under way act on one alert.
SPECIFICATION Spec
CONSTANTS
  Alerts = {a1}
  Panels = {p1, p2}
  Connections = {c1, c2}
  Patches <- MCPatches
  PageSize = 1
  Times <- MCTimes
  NoAlert = NoAlert
SYMMETRY MCSymmetry
INVARIANTS
  TypeOK
  AnsweredMeansDone
  StatusAgrees
PROPERTY
  SettledIsFinal
