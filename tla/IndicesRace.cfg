SPECIFICATION HSpec
CONSTANTS
  Distances = {1}
  ClassIds = {0}
  Anchors = 1
INVARIANT IndicesIndexTheBoxes
CHECK_DEADLOCK FALSE
