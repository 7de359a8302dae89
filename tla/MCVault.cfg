SPECIFICATION FairSpec
CONSTANTS
  Sessions = {s1, s2}
  r1 = r1
  Resumes = {r1}
  Exports = {}
  Generated = {g1}
  t1 = t1
  Texts = {t1}
  Text <- MCText
  None = None
  MaxProfiles = 2
INVARIANTS FilesKept NothingLeft
PROPERTIES Erased
CHECK_DEADLOCK FALSE
