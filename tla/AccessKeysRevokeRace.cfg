\* A revocation of a key that its issuing call has yet to put again.
CONSTANTS
  Calls = {c1,c2}
  Revokers = {r1}
  Instances = {i1}
  Tools = {t1}
  Wallets = {w1}
  Credentials = {"none", "signed"}
  None = None
  t1 = t1
  t2 = t2
  i1 = i1
  i2 = i2
  MaxCalls <- CapThree
  Timed = {}
  Binding <- AllBearer
  StoreKind = "upstash"
  MaxAttempts = 2
  Faults = FALSE
  Ttl = FALSE
  Mortal = {}
SPECIFICATION Spec
SYMMETRY Symmetry
INVARIANTS RevokedIsUnknown
