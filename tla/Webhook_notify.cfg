SPECIFICATION LiveSpec
CONSTANTS
  MaxAttempts = 2
  MaxRetries = 1
  MaxOutcomes = 2
  MaxSettlings = 2
  Environment = {"broker_down", "db_down", "flush", "rollback", "receiver_down", "bad_post", "crash", "slow_commit"}
INVARIANTS TypeOK NewsIsTrue
PROPERTIES SettledIsAnnounced
CHECK_DEADLOCK FALSE
