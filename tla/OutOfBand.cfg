SPECIFICATION OobSpec
CHECK_DEADLOCK FALSE
CONSTANTS
  Ends <- AllEnds
  Urgent <- UrgentThree
INVARIANTS Accounted ReadNeverBlocks
