\* A paid call and a free one, a revocation, two callers of close().
CONSTANTS
  Calls = {c1, c2}
  FreeCalls = {c2}
  Revocations = {r1}
  Closers = {s1, s2}
  HasHook = TRUE
  HasWebhooks = TRUE
SPECIFICATION FairSpec
INVARIANTS TypeOK InFlightExact AdmittedAreAnswered CleanCloseDeliversAdmitted CloseIsShared
PROPERTIES DrainWaits CloseIsAnswered
