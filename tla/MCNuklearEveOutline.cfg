SPECIFICATION Spec
CONSTANTS
  black = black
  blue = blue
  glass = glass
  Background = black
  Opaque <- MCOpaque
  Commands <- MCCommands
  MaxCommands = 2
  Width = 12
INVARIANT OutlineBehindKept
CHECK_DEADLOCK FALSE
