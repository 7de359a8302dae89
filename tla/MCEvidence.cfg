SPECIFICATION Spec
CONSTANTS
  None = None
  RoleNouns = {"manager"}
  Lexicon = {"python"}
  Fact <- MCFact
  Today = 120
  Style = {}
  Sentences <- MCSentences
  MAX_ROLES = 4
  MAX_ACHIEVEMENTS = 12
  MAX_FACTS = 30
  MIN_SENTENCES = 2
  MAX_SENTENCES = 3
  Links = {j1, j2}
  Elsewhere = Elsewhere
  NoLink = NoLink
  Texts = {"Manager", "View", "Austin", "Hourly"}
  Empty = Empty
  Generic = {"View"}
  Length <- MCLength
  Says <- MCSays
  MAX_LINES = 2
  MAX_JOBS_PER_MESSAGE = 1
  MaxChunks = 4
  Facts = {1, 2, 3, 4, 5}
  Reviewed = {1, 2, 3}
  Followed = {"Manager"}
  Prefs <- MCPrefs
  Default <- MCDefault
  Pasted = {"Full"}
  Found <- MCFound
  Typed <- MCTyped
  Exported <- MCExported
INVARIANTS OwnLines LetterGrounded
PROPERTIES ApprovalHelps FullTextKept
