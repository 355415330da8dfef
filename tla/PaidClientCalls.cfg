\* Three calls and a closeSession over a key, a session and a free tool.
CONSTANTS
  tk = tk
  ts = ts
  tf = tf
  Calls = {c1, c2, c3}
  Closes = {d1}
  Tools = {tk, ts, tf}
  Mode <- Modes
  Prices = {2, 3}
  Deposits = {1, 3}
  Keys = {k1, k2}
  KeyCap = 2
  Mortal = {k2}
  Channels = {h1, h2}
  MaxPerCall = 2
  MaxTotal = 3
  MaxSessionDeposit = 2
  VerifySettlement = TRUE
  None = None
SPECIFICATION Spec
SYMMETRY Symmetry
CHECK_DEADLOCK FALSE
INVARIANTS TypeOK OverrunBounded KeyCacheTrue SessionsTracked
