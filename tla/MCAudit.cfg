SPECIFICATION Spec
CONSTANTS
  Sessions = {s1, s2}
  Nobody = Nobody
  Overlap = FALSE
  MaxEvents = 5
  MaxClock = 3
INVARIANTS
  ChainVerifies
PROPERTIES
  PurgeTakesPrefix
