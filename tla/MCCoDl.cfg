CONSTANTS
  Regs <- MCRegs
  Values = {0, 1}
  Default <- MCDefault
  Matrices = {0, 1}
  Identity = 0
  Singles = {"BITMAPS", "POINTS"}
  Pairs = {"LINES"}
  Strips = {"LINE_STRIP"}
  NoPrim = "none"
  OtherPrim = "other"
  HwDepth = 4
  Colours = {0, 1}
  FgDefault = 0
  BgDefault = 1
  Zero = 0
  InvalidHandle = 63
  StackSize = 4
  MaxDepth = 3
  Uses <- MCUses

SPECIFICATION Spec
INVARIANTS StackIsRight PrimitiveIsRight CoStateIsRight DrawsAsAsked
