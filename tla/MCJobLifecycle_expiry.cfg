SPECIFICATION LiveSpec
CONSTANTS
  j1 = j1
  j2 = j2
  w1 = w1
  w2 = w2
  NoJob = NoJob
  Jobs = {j1}
  Workers = {w1}
  MaxAttempts = 2
  NArtifacts = 1
  SweepLimit = 1
  Environment = {"crash", "flush", "broker_down", "db_down", "expiry", "cancel"}
  MaxMessages = 1
  MaxManualRetries = 0
PROPERTIES EventuallyTerminal
