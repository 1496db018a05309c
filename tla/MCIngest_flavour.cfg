SPECIFICATION Spec
CONSTANTS
  q1 = q1
  q2 = q2
  q3 = q3
  NoJob = NoJob
  Requests = {q1, q2}
  Uploads <- TwoFlavours
  MaxUpload = 1
  Envelope = 0
  Environment = {}
SYMMETRY Symmetry
INVARIANTS CacheKeepsFlavour
CHECK_DEADLOCK FALSE
