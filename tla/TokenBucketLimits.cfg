\* A bucket in memory, and one on Upstash that i2, whose clock is set, shares.
CONSTANTS
  i1 = i1
  b1 = b1
  b2 = b2
  None = None
  Callers = {c1, c2, c3}
  Instances = {i1, i2}
  Drifting = {i2}
  Offsets = {0, 10}
  Buckets = {b1, b2}
  Home <- OneLocal
  PerTool <- OneConfigured
  Default = 10
  Cost = 10
  Ms = 5
  Slip = 1
  Faults = TRUE
  Ttl = 10
  MaxNow = 15
SPECIFICATION Spec
SYMMETRY Symmetry
CHECK_DEADLOCK FALSE
INVARIANTS TypeOK RateBound 
