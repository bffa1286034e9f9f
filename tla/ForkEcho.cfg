SPECIFICATION Spec
CHECK_DEADLOCK FALSE
CONSTANTS
  c1 = c1
  c2 = c2
  Clients <- Two
  Selecting <- One
  Lines = 2
  Datagrams = 1
  NPROC = 2
  NFILE = 2
  MaxKill = 1
  MaxFails = 1
INVARIANTS InStep PrematureHasCause
PROPERTIES  DatagramsAnswered
