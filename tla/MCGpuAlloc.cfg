CONSTANTS
  MaxAllocs = 4
  RamGSize = 12
  SeqCount = 16777216
  Resources <- Blocks
  SizeOf <- MCSize
  FlagsOf <- MCFlags
  TruncateSizes = {}
  CopyFails = FALSE
  FramesLost = FALSE
  MaxSeq = 4
SPECIFICATION Spec
INVARIANTS Tiled RefsMatch ContentKept FrameIntact
PROPERTIES StaleStaysStale OrphansGo UndrawnGoes
