SPECIFICATION FairSpec
CONSTANTS
  MaxCalls = 1
  MaxConnects = 2
  SeqMod = 2
CHECK_DEADLOCK FALSE
PROPERTY ConnectSettles
