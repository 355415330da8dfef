\* A call that is at the limiter when close() begins.
CONSTANTS
  Calls = {c1}
  FreeCalls = {}
  Revocations = {}
  Closers = {s1}
  HasHook = FALSE
  HasWebhooks = FALSE
SPECIFICATION Spec
INVARIANTS PaidCallsAreAnswered
