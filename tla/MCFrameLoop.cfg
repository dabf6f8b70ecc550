CONSTANTS
  FifoSlots = 2
  MayPopup = TRUE
  MayShowLogo = TRUE
  MayFault = TRUE
SPECIFICATION Spec
INVARIANTS TypeOK ShownWhole SpinnerStopped
PROPERTIES FramesKeepComing StopEnds
CHECK_DEADLOCK FALSE
