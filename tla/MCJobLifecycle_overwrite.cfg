SPECIFICATION Spec
CONSTANTS
  j1 = j1
  j2 = j2
  w1 = w1
  w2 = w2
  NoJob = NoJob
  Jobs = {j1}
  Workers = {w1, w2}
  MaxAttempts = 2
  NArtifacts = 1
  SweepLimit = 1
  Environment = {}
  MaxMessages = 2
  MaxManualRetries = 0
INVARIANTS ResultIsOfItsAttempt
