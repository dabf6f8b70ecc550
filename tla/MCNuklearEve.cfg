SPECIFICATION Spec
CONSTANTS
  black = black
  blue = blue
  glass = glass
  Background = black
  Opaque <- MCOpaque
  Commands <- MCCommands
  MaxCommands = 4
  Width = 12
INVARIANTS TypeOK ScissorIsRight PaintedAsAsked
CHECK_DEADLOCK FALSE
