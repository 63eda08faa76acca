SPECIFICATION FairSpec
CONSTANTS
  Plans <- SingleClose
  Relays = {r1, r2}
  MaxTries = 2
  MaxAttempts = 3
  Faults = {"relay_crash", "enqueue_error", "mark_error", "attempt_error", "fatal_error"}
INVARIANTS
  NoEventLost
PROPERTIES
  EventuallyDecided
CHECK_DEADLOCK FALSE
