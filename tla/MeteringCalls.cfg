\* Three calls of a free, a tiered, a session and an access-key tool, and a log of
\* two slots.
CONSTANTS
  tf = tf
  tt = tt
  ts = ts
  tk = tk
  Calls = {c1, c2, c3}
  Tools = {tf, tt, ts, tk}
  Pricing <- Models
  Amount <- Flat
  Tiers <- ThreeTiers
  Accept <- Currencies2
  Currencies = {usd, eur}
  Currency = usd
  Capped = TRUE
  Bound = TRUE
  Decimals = 2
  Channels = {h1}
  LogSize = 2
  MaxExpired = 1
  None = None
SPECIFICATION Spec
SYMMETRY Symmetry
CHECK_DEADLOCK FALSE
INVARIANTS TypeOK RevenueExact CallsAddUp TierOvershootBounded RecentCallsAreLatest OneOutcomePerCall SpansTellOutcome OffersHonest
