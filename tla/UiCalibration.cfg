CONSTANTS
  None = None
  Sizes <- MCSizes
  Panels <- MCPanels
  Flickers <- MCFlickers
  Cell = 2
  CellPercent = 50
  MinComponentCells = 3
  DilateCells = 1
  MaxRects = 2
  Feather = 2
  MaxActs = 4

SPECIFICATION Spec
INVARIANTS
  RunsTileTheCells
  RectsHoldTheInterface
  MaskKeepsTheInterface
CHECK_DEADLOCK FALSE
