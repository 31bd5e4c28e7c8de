\* Two refreshes, two rows of which a page lists one, an organization without any.
SPECIFICATION FairSpec
CONSTANTS
  o1 = o1
  o2 = o2
  Logs <- MCLogs
  Orgs <- MCOrgs
  OrgOf <- MCOrgOf
  LevelOf <- MCLevelOf
  Connections = {c1, c2}
  PageSize = 1
  MaxMounts = 2
CHECK_DEADLOCK FALSE
INVARIANT
  ShownAgrees
PROPERTY
  DashboardConverges
