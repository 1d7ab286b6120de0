SPECIFICATION Spec
CONSTANTS
  Cells <- MCCells
  Points <- MCPoints
  Pictures <- MCPictures
  Invocable = {"apply_poster"}
  black = black
  clear = clear
  Inks = {black}
  Paper = clear
  Clear = clear
  Pad = 0
  MaxLayers = 1
  MaxOps = 2
PROPERTY
  PeopleOnlyLook
CHECK_DEADLOCK FALSE
