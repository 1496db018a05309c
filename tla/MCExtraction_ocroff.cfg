SPECIFICATION ExtractionSpec
CONSTANTS
  ChunkSize = 64
  ChunkOverlap = 16
  Shapes <- SomeShapes
  MaxBlocks = 5
  LineHeight = 2
  BoldLevel = 3
  MaxWrapped = 3
  Sources <- LayoutPdfs
  MaxAttachments = 2
  MaxFrames = 3
  BatchPages = 2
  MaxPictures = 2
  MaxCells = 6
  MaxTableRows = 1
  MinText = 1
  Little = 3
  LineTokens = 12
  Titles = {"Notes", "Terms"}
INVARIANTS OcrModeIsRespected
CHECK_DEADLOCK FALSE
