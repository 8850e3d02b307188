SPECIFICATION MainFairSpec
CONSTANTS
  Asyncs = {FALSE}
  Unixes = {TRUE}
  MaxConns = 1
  MaxPresses = 1
CHECK_DEADLOCK FALSE
PROPERTY CtrlCStops
