CONSTANTS
  a = a
  b = b
  FifoSize = 16
  Words <- Payloads
  MemSizes = {20}
  StringSizes = {3}
  MoveSizes = {4}
  SmallSizes = {2}
  SpaceSizes = {0, 12, 16}
  AssertTraps = TRUE
  NullResult = FALSE
SPECIFICATION Spec
INVARIANTS TypeOK SpaceSound ClosedIsPublished FaultIsReal
PROPERTIES UnreadKept FlushIsEmpty CallsReturn QueueSpec
CHECK_DEADLOCK FALSE
