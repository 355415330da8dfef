\* One process over an Upstash store that may fail and outlives crashes, with
\* revocations and sweeps.
CONSTANTS
  Calls = {c1,c2,c3}
  Revokers = {r1}
  Instances = {i1}
  Tools = {t1}
  Wallets = {w1}
  Credentials = {"none", "signed"}
  None = None
  t1 = t1
  t2 = t2
  i1 = i1
  i2 = i2
  MaxCalls <- CapTwo
  Timed = {}
  Binding <- AllBearer
  StoreKind = "upstash"
  MaxAttempts = 2
  Faults = TRUE
  Ttl = TRUE
  Mortal = {i1}
SPECIFICATION Spec
SYMMETRY Symmetry
INVARIANTS BudgetRespected
PROPERTIES OnlyIssuerRevives ImplementsLedger
