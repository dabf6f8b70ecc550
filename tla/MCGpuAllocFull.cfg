CONSTANTS
  MaxAllocs = 3
  RamGSize = 12
  SeqCount = 16777216
  Resources <- Blocks
  SizeOf <- MCSize
  FlagsOf <- MCFlags
  TruncateSizes = {3}
  CopyFails = TRUE
  FramesLost = TRUE
  MaxSeq = 4
SPECIFICATION Spec
INVARIANTS TypeOK ContentKept
CHECK_DEADLOCK FALSE
