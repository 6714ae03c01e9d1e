SPECIFICATION Spec
CONSTANTS
  Sessions = {s1, s2}
  NoThread = NoThread
  MoveWays = {"sendinput"}
PROPERTY StartsArmed
CHECK_DEADLOCK FALSE
