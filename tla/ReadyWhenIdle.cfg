SPECIFICATION Spec
CONSTANTS
  Sessions = {s1, s2}
  NoThread = NoThread
  MoveWays = {"sendinput"}
INVARIANT ReadyWhenIdle
CHECK_DEADLOCK FALSE
