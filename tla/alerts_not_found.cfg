\* Two users act on one alert.
SPECIFICATION Spec
CONSTANTS
  Alerts = {a1}
  Panels = {p1, p2}
  Connections = {c1}
  Patches <- NoPatches
  PageSize = 1
  Times <- MCTimes
  NoAlert = NoAlert
INVARIANT
  NotFoundMeansAbsent
