SPECIFICATION AllSpec
CHECK_DEADLOCK FALSE
CONSTANTS
  Calls = 3
  RXTMIN = 2
  RXTMAX = 3
  RtoStart = 3
  MAXNREXMT = 1
  MaxStrays = 1
INVARIANTS RtoClamped OutOfStepBounded
PROPERTIES CallReturns
