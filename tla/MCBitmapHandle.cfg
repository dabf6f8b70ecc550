SPECIFICATION Spec
CONSTANTS
  photo = photo
  alpha = alpha
  place1 = place1
  place2 = place2
  Nobody = Nobody
  HandleNb = 2
  Scratch = 1
  Bitmaps <- MCBitmaps
  Additional <- MCAdditional
  RomFonts <- MCRomFonts
  Addresses <- MCAddresses
  Pages = {0, 1}
  MaxDraws = 2
SYMMETRY Symmetry
CHECK_DEADLOCK FALSE
INVARIANTS TypeOK DrawnRight HandleStaysTaken
