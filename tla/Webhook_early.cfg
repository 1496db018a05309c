SPECIFICATION LiveSpec
CONSTANTS
  MaxAttempts = 1
  MaxRetries = 0
  MaxOutcomes = 1
  MaxSettlings = 1
  Environment = {"slow_commit"}
PROPERTIES FinishedIsAnnounced
CHECK_DEADLOCK FALSE
