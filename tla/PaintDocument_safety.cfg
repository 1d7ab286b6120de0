SPECIFICATION Spec
CONSTANTS
  Cells <- MCCells
  Points <- MCPoints
  Pictures <- MCPictures
  Invocable <- Actions
  black = black
  clear = clear
  Inks = {black}
  Paper = clear
  Clear = clear
  Pad = 0
  MaxLayers = 2
  MaxOps = 4
INVARIANTS
  TypeOK
  EntriesFit
  OneEntryOneDrag
PROPERTY
  HistoryHolds
CHECK_DEADLOCK FALSE
