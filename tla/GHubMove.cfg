SPECIFICATION GFairSpec
CONSTANT Lengths <- MCLengths
INVARIANTS GTypeOK NothingLost Delivered
PROPERTIES NoOvershoot PacketsAreCounted MoveReturns
