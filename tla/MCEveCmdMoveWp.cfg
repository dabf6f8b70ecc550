CONSTANTS
  a = a
  b = b
  FifoSize = 16
  Words <- Payloads
  MemSizes = {20}
  StringSizes = {3}
  MoveSizes = {4}
  SmallSizes = {2}
  SpaceSizes = {0, 12, 16}
  AssertTraps = TRUE
  NullResult = TRUE
SPECIFICATION Spec
PROPERTY UnreadKept
CHECK_DEADLOCK FALSE
