SPECIFICATION HSpec
CONSTANTS
  Distances = {1, 2}
  ClassIds = {0, 4}
  Anchors = 2
INVARIANTS HTypeOK PublishedIsConsistent QuietPassIsSafe AimsAtNearest
PROPERTIES NoTargetOverlooked
CHECK_DEADLOCK FALSE
