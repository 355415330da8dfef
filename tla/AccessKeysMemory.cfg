\* One process with its memory store: a tool whose keys are worth three calls
\* and one whose keys are worth a time.
CONSTANTS
  Calls = {c1,c2,c3,c4}
  Revokers = {r1}
  Instances = {i1}
  Tools = {t1,t2}
  Wallets = {w1}
  Credentials = {"none", "signed"}
  None = None
  t1 = t1
  t2 = t2
  i1 = i1
  i2 = i2
  MaxCalls <- CapThreeAndNoCap
  Timed = {t2}
  Binding <- AllBearer
  StoreKind = "memory"
  MaxAttempts = 1
  Faults = FALSE
  Ttl = FALSE
  Mortal = {}
SPECIFICATION Spec
SYMMETRY Symmetry
INVARIANTS TypeOK RevokedIsUnknown ListingIsComplete
PROPERTIES RemainingNeverGrows
