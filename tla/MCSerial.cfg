SPECIFICATION Spec
CONSTANTS
  a1 = a1
  x1 = x1
  w = w
  u = u
  NoApp = NoApp
  Apps = {a1, x1}
  Role <- MCRole
  Reposts = {}
  External = {x1}
  Workers = {w}
  Users = {u}
  Requests = {"reject", "restore", "retry", "reopen", "confirm", "prepare", "set_answer", "approve", "submit", "manual"}
  Events = {"import", "listing", "opt_in"}
  DailyLimit = 1
  MaxVersions <- MCVersions
  Overlap = FALSE
INVARIANTS
  SentAsApproved
PROPERTIES
  ClaimedOncePerRole
  UserDecisionStands
  ApprovedImmutable
