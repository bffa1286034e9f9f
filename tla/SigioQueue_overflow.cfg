SPECIFICATION SigioSpec
CONSTANTS
  d1 = d1
  d2 = d2
  d3 = d3
  d4 = d4
  Dgs <- MCDgs
  None = None
  QSIZE = 3
CHECK_DEADLOCK FALSE
INVARIANTS OverflowStops
