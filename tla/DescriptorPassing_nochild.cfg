SPECIFICATION Spec
CHECK_DEADLOCK FALSE
CONSTANTS
  c1 = c1
  c2 = c2
  c3 = c3
  c4 = c4
  None = None
  Conns <- Four
  nchildren = 2
  ErrText = 3
  MaxCrash = 0
  MaxError = 1
  MaxAcceptFail = 0
INVARIANTS NoChildNever
