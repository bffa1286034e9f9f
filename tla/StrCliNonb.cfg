SPECIFICATION Spec
CHECK_DEADLOCK FALSE
CONSTANTS
  Input = 7
  MAXLINE = 3
  Cap = 2
  MayDie = TRUE
INVARIANTS TypeOK ShutdownLast OutputComplete
PROPERTIES Terminates
