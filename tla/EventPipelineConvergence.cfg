SPECIFICATION Spec
CONSTANTS
  Plans <- ConvergenceHistories
  Relays = {r1}
  MaxTries = 2
  MaxAttempts = 2
  Faults = {"attempt_error", "dlq_unreachable", "record_error"}
INVARIANTS
  Convergence
CHECK_DEADLOCK FALSE
