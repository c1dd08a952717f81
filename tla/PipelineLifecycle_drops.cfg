CONSTANTS
  kAttempts <- Attempts
  MaxEvents <- EventBound
SPECIFICATION Spec
CHECK_DEADLOCK FALSE
INVARIANT DropsReachStatistics
