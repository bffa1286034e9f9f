SPECIFICATION Spec
CHECK_DEADLOCK FALSE
CONSTANTS
  c1 = c1
  c2 = c2
  c3 = c3
  c4 = c4
  None = None
  Conns <- Three
  nchildren = 2
  ErrText = 3
  MaxCrash = 1
  MaxError = 1
  MaxAcceptFail = 2
INVARIANTS ClosedAfterServed AvailabilityOK
PROPERTIES EveryClientServed ImplementsService DeathDetected OrphansLeave EveryConnectionCloses
