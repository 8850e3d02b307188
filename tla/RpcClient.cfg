SPECIFICATION FairSpec
CONSTANTS
  MaxCalls = 3
  MaxConnects = 1
  SeqMod = 2
CHECK_DEADLOCK FALSE
INVARIANTS SingleWriter WireFifo SettledOnce NoOrphan ResponseMatches RejectSettlesAll
PROPERTIES FramesWritten CallsSettle
