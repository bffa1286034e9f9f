SPECIFICATION Spec
CHECK_DEADLOCK FALSE
CONSTANTS
  c1 = c1
  c2 = c2
  c3 = c3
  Clients <- MCClients
  Early <- MCEarly
  Input <- MCInput
  MAXLINE = 1
  Cap = 1
  MaxFails = 1
  NegBit = 5
INVARIANTS TablesAgree ReadNeverBlocks EchoComplete OnlyWritesMeet
PROPERTIES AllFinish
