CONSTANTS
  Size = 24
  FileLen = 36
  Callers <- AllCallers
  WriteSizes = {12, 28}
  Needs = {0, 3}
  CmdSlots = 2
  MayAbort = TRUE
SPECIFICATION Spec
INVARIANTS TypeOK StreamInOrder ResumesWhereStopped
PROPERTIES FeedReturns StreamQueue
CHECK_DEADLOCK FALSE
