SPECIFICATION Spec
CONSTANTS
  Plans <- DeliveryHistories
  Relays = {r1}
  MaxTries = 1
  MaxAttempts = 3
  Faults = {"relay_crash", "enqueue_error", "mark_error", "fatal_error"}
INVARIANTS
  TypeOK
  NoEventLost
PROPERTIES
  ImplementsFeed
CHECK_DEADLOCK FALSE
