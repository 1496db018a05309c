SPECIFICATION ExtractionSpec
CONSTANTS
  ChunkSize = 64
  ChunkOverlap = 16
  Shapes <- SomeShapes
  MaxBlocks = 5
  LineHeight = 2
  BoldLevel = 3
  MaxWrapped = 3
  Sources <- SomeSources
  MaxAttachments = 2
  MaxFrames = 3
  BatchPages = 2
  MaxPictures = 2
  MaxCells = 6
  MaxTableRows = 1
  MinText = 1
  Little = 3
  LineTokens = 12
  Titles = {"Notes"}
INVARIANTS NothingIsLost SplitIsFaithful ContentFits OverlapStaysInSection CountKeepsUp TextIsKept ReadingOrderIsKept
INVARIANTS LoopTypeOK AttachmentsAreAccountedFor PicturesAreRead ScannedPagesAreOcred NothingIsCutSilently PagesAreTraced
CHECK_DEADLOCK FALSE
