SPECIFICATION FairSpec
CONSTANTS
  Sessions = {s1, s2}
  NoThread = NoThread
  MoveWays = {"sendinput"}
PROPERTY StopReachesLock
CHECK_DEADLOCK FALSE
