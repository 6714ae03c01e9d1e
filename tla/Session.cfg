SPECIFICATION InferenceFairSpec
CONSTANTS
  Sessions = {s1, s2}
  NoThread = NoThread
  MoveWays = {"ghub", "custom", "unknown"}
INVARIANTS TypeOK SlotExclusive ReadyMeansReleased RunningHasItsResources LockAfterInit OnlyLeftOversShare
           CaptureGivenBack
PROPERTIES StopIsKept ImplementsSlot OrderlyUse StopEnds
CHECK_DEADLOCK FALSE
