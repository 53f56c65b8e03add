SPECIFICATION CostmapSpec
CONSTANTS
  NumCells = 3
  Radius = 1
  Map <- MCMap
  MapUpdate <- MCMapUpdate
  ClearArea <- MCClearArea
  None = None
INVARIANTS  ClearedIsNotCurrent
  
CHECK_DEADLOCK FALSE
