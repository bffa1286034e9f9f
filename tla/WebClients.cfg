SPECIFICATION Spec
CHECK_DEADLOCK FALSE
CONSTANTS
  nfiles = 4
  maxnconn = 2
  MaxSpurious = 1
  Progs <- AllProgs
  Answers <- AllAnswers
INVARIANTS NobodyStuck CountsAgree OwnConnection
PROPERTIES Terminates
