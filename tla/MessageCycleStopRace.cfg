SPECIFICATION CycleSpec
CONSTANTS
  Asyncs = {FALSE}
  Unixes = {FALSE}
  MaxConns = 1
CHECK_DEADLOCK FALSE
INVARIANT StopDisconnects
