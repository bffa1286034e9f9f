SPECIFICATION Spec
CHECK_DEADLOCK FALSE
CONSTANTS
  c1 = c1
  c2 = c2
  None = None
  Conns <- Two
  nchildren = 3
  Servers <- AllServers
  Faults <- AllFaults
INVARIANTS TypeOK OneAcceptor
PROPERTIES NoWorkerNoService SigIntEnds ImplementsService
