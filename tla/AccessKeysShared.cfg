\* Two processes share a Cloudflare KV, one binds keys to wallets.
CONSTANTS
  Calls = {c1,c2,c3}
  Revokers = {}
  Instances = {i1,i2}
  Tools = {t1,t2}
  Wallets = {w1,w2}
  Credentials = {"signed", "opaque"}
  None = None
  t1 = t1
  t2 = t2
  i1 = i1
  i2 = i2
  MaxCalls <- CapTwo
  Timed = {}
  Binding <- OneBound
  StoreKind = "kv"
  MaxAttempts = 1
  Faults = FALSE
  Ttl = FALSE
  Mortal = {}
SPECIFICATION Spec
SYMMETRY SymmetryOfTools
INVARIANTS GrantsAreEarned BooksBalance
