SPECIFICATION Spec
CONSTANTS
  a1 = a1
  NoApp = NoApp
  w = w
  u = u
  Apps = {a1}
  Role <- MCRole
  Reposts = {}
  External = {}
  Workers = {w}
  Users = {u}
  Requests = {"reject", "restore", "retry", "reopen", "confirm", "follow_up", "prepare", "set_answer", "approve", "submit", "manual", "match_now"}
  Events = {"file"}
  DailyLimit = 1
  MaxVersions <- MCVersions
  Overlap = TRUE
PROPERTIES
  UserDecisionStands
