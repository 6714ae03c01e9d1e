SPECIFICATION TSpec
CONSTANTS
  Offsets <- MCOffsets
  Effectiverange = 20
  MaxPixels = 3
  AdvancedSize = 1
  DebounceSize = 3
  LeadWidth = 2
  HalfBox = 4
  AutoInterval = 1
  AutoRandom = 2
  Cap = 2
  MaxPorts = 2
INVARIANTS TTypeOK NothingHeldWhenIdle  ClicksAreSpaced ReleaseHoldsFire MovesWithinLimit DllSessionsDoNotFault
CHECK_DEADLOCK FALSE
