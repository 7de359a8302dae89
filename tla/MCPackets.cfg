SPECIFICATION Spec
CONSTANTS
  Documents <- MCDocuments
  KindOf <- MCKindOf
  Content <- MCContent
  Fragile = {"scan"}
  Alike <- MCAlike
  ProfileEmail = "new@example.com"
  Typed <- MCTyped
  MaxFacts = 2
  Questions = {"authorized"}
  KeyOf <- MCKeyOf
  Required = {"authorized"}
  Sensitive = {"work_authorization"}
  Supplied = {}
  Answers = {"work_authorization"}
  Wanted = {}
INVARIANTS
  TypeOK
  NoDoubleClaims
  AskedOnce
  CitesStand
  AutoApprovedClean
PROPERTIES
  NoSilentDifference
