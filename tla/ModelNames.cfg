SPECIFICATION MSpec
CONSTANTS
  Models <- MCModels
  MaxFrames = 1
INVARIANT AcceptedModelRuns
CHECK_DEADLOCK FALSE
