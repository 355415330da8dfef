\* Scripts sent to Upstash by one process run out of order.
CONSTANTS
  i1 = i1
  b1 = b1
  b2 = b2
  None = None
  Callers = {c1, c2, c3, c4}
  Instances = {i1}
  Drifting = {}
  Offsets = {0}
  Buckets = {b2}
  Home <- OneLocal
  PerTool <- NoneConfigured
  Default = 1
  Cost = 1
  Ms = 1
  Slip = 0
  Faults = FALSE
  Ttl = 3
  MaxNow = 2
SPECIFICATION Spec
SYMMETRY Symmetry
CHECK_DEADLOCK FALSE
INVARIANTS SharedRateBound
