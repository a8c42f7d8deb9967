SPECIFICATION Spec
CONSTANTS
  v1 = v1
  v2 = v2
  v3 = v3
  r1 = r1
  r2 = r2
  Visitors = {v1, v2, v3}
  Requests = {r1, r2}
  Limit = 2
  Window = 3
  MaxKeys = 2
  MaxDelay = 1
  MaxTime = 5
  Absent = Absent
SYMMETRY Symmetry
INVARIANTS
  Bounded
  TwiceTheAllowance
PROPERTY
  DenialJustified
