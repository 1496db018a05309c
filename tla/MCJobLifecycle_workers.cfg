SPECIFICATION Spec
CONSTANTS
  j1 = j1
  j2 = j2
  w1 = w1
  w2 = w2
  NoJob = NoJob
  Jobs = {j1}
  Workers = {w1, w2}
  MaxAttempts = 1
  NArtifacts = 1
  SweepLimit = 1
  Environment = {"cancel","retry","restore"}
  MaxMessages = 1
  MaxManualRetries = 1
SYMMETRY Symmetry
INVARIANTS TypeOK CancelledOnlyOnRequest OneOwner WaitingHasAttemptLeft
PROPERTIES OutcomeIsFinal LeaseIsRespected SupersededIsInert CancelIsHeeded
