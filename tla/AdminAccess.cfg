CONSTANTS
  g1 = g1
  g2 = g2
  g3 = g3
  g4 = g4
  g5 = g5
  k1 = k1
  k2 = k2
  root = root
  good = good
  Gateways = {g1, g2, g3, g4, g5}
  Guard <- Guards
  Headers <- Read
  Names = {1, 2}
  Ts = 2
  Values = {1, 2}
  Nested = Nested
  Paths = {"calls", "stats"}
  Ttl = 1
  Tolerance = 1
  Lag <- Lags
  Leads <- Drifts
  MaxNow = 5
  MaxLinks = 1
  MaxGiven = 3
  Commands = {o1, o2}
  Lines <- Typed
  Tokens = {k1, k2}
  Selling = {g1}
  Keyed = {g1, g2}
  MaxLimit = 1
  None = None
SPECIFICATION SpecApart
SYMMETRY Symmetry
CHECK_DEADLOCK FALSE
INVARIANTS TypeOK RevokeReportsTrue ListsAreHonest LinksGenuine LinksExpire
