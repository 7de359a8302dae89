SPECIFICATION Spec
CONSTANTS
  Sessions = {s1, s2}
  Nobody = Nobody
  Overlap = TRUE
  MaxEvents = 5
  MaxClock = 3
INVARIANTS
  ChainVerifies
