SPECIFICATION Spec
CHECK_DEADLOCK FALSE
CONSTANTS
  MaxProbes = 2
  Lines = 1
  MaxSlow = 2
  MaxAhead = 1
  MaxTorn = 1
  MaxCrash = 1
  MaxFaults = 2
  Mixes <- SomeMixes
INVARIANTS NoFalseAlarm PromptUnconfused
PROPERTIES DeadPeerNoticed
