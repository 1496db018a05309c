SPECIFICATION BrokerLiveSpec
CONSTANTS
  j1 = j1
  j2 = j2
  w1 = w1
  w2 = w2
  NoJob = NoJob
  Jobs = {j1}
  Workers = {w1}
  MaxAttempts = 2
  NArtifacts = 2
  SweepLimit = 1
  Environment = {"crash", "broker_down", "db_down"}
  MaxMessages = 1
  MaxManualRetries = 0
INVARIANTS ResultIsComplete AttemptsAreBounded
PROPERTIES EventuallyTerminal LostMessageIsReplaced
