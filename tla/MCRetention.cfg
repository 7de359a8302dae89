SPECIFICATION RetentionSpec
CONSTANTS
  a1 = a1
  NoApp = NoApp
  w = w
  u = u
  Apps = {a1}
  Role <- MCRole
  Reposts = {}
  External = {}
  Workers = {w}
  Users = {u}
  Requests = {"reject"}
  Events = {}
  DailyLimit = 2
  MaxVersions <- MCVersions
  Overlap = FALSE
INVARIANTS
  UncertainNotRetried
