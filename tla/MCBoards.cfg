SPECIFICATION FairSpec
CONSTANTS
  Boards = {b1, b2}
  NoBoard = NoBoard
  Sources = {src}
  SourceOf <- MCSourceOf
  Workers = {w}
  Users = {}
  RetrySeconds = {90059}
  Delays = {0, 500}
  Cap = 3
  Switched = {b1}
  Removed = {b1}
  Overlap = FALSE
INVARIANTS UserOffStays DisabledAfterFailures ReadPermitted
PROPERTIES EarlyByPollOnly PolledAgain
