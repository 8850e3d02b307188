SPECIFICATION LibFairSpec
CONSTANTS
  B = 4
  Lens = {0, 2, 17}
  Seeds = {0, 1, 2}
  Threads = {t1, t2, t3}
  MaxUses = 4
  PortMod = 8
  MaxLayers = 3
INVARIANTS RoundTrip ReadsInBounds ContextReleased Recovers GotUsable StartsAsTold
PROPERTY GetsReturn
CHECK_DEADLOCK FALSE
