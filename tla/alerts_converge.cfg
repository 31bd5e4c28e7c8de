\* One panel and its user, two alerts of which the list holds one.
SPECIFICATION FairSpec
CONSTANTS
  Alerts = {a1, a2}
  Panels = {p1}
  Connections = {c1, c2}
  Patches <- NoPatches
  PageSize = 1
  Times <- MCTimes
  NoAlert = NoAlert
PROPERTIES
  PanelsConverge
  BacklogDrains
