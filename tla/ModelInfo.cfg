SPECIFICATION MSpec
CONSTANTS
  Models <- MCModels
  MaxFrames = 2
INVARIANTS MTypeOK ChosenNodesAreKept  ReadsStayInside
CHECK_DEADLOCK FALSE
