SPECIFICATION FairSpec
CONSTANTS
  a1 = a1
  a2 = a2
  NoApp = NoApp
  w = w
  u = u
  Apps = {a1, a2}
  Role <- MCRole
  Reposts = {}
  External = {}
  Workers = {w}
  Users = {u}
  Requests = {"approve", "set_answer"}
  Events = {"day", "dismiss", "file"}
  DailyLimit = 1
  MaxVersions <- MCVersions
  Overlap = TRUE
INVARIANTS
  LimitHolds
  PauseBound
PROPERTIES
  Served
