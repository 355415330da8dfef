\* Two subscribed events and one that is not, each with two attempts.
CONSTANTS
  Events = {e1, e2, e3}
  Subscribed = {e1, e2}
  Drainers = {d1}
  MaxAttempts = 2
  HasOnDrop = TRUE
SPECIFICATION FairSpec
CHECK_DEADLOCK FALSE
INVARIANTS TypeOK NothingLostSilently
PROPERTIES ImplementsOutbox EveryDeliverySettles
