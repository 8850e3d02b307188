SPECIFICATION MainFairSpec
CONSTANTS
  Asyncs = {TRUE, FALSE}
  Unixes = {TRUE, FALSE}
  MaxConns = 3
  MaxPresses = 2
CHECK_DEADLOCK FALSE
INVARIANTS StaysUp ExitClosesAll
PROPERTIES LoopEnds CtrlCStopsWindows
