SPECIFICATION Spec
CONSTANTS
  q1 = q1
  q2 = q2
  q3 = q3
  NoJob = NoJob
  Requests = {q1, q2, q3}
  Uploads <- SomeUploads
  MaxUpload = 2
  Envelope = 1
  Environment = {"crash", "db_down", "storage_down", "disk_full"}
SYMMETRY Symmetry
INVARIANTS SizesAreBounded DocumentIsStored SpoolIsRemoved CacheIsSound KindIsOfContent
CHECK_DEADLOCK FALSE
