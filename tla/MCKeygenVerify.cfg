CONSTANTS
  Count = 6
  StopAfter = 3
  Start = 64
  Group = 37
  MaxFaults = 2
SPECIFICATION Spec
INVARIANTS VerdictIsTrue
CHECK_DEADLOCK FALSE
