CONSTANTS
  ServerList <- TwoServers
  Hosts = {"s1", "s2", "s3"}
  NoHost = "none"
  Chans = {}
  MaxVariant = 1
  KeepNick = TRUE
  CycleWait = 1
  LateSilence = TRUE
  TableFull = FALSE
  MaxConns = 2
  MaxLosses = 1
  MaxChanges = 0
  MaxSent = 1
SPECIFICATION FairSpec
CHECK_DEADLOCK FALSE
PROPERTY LeavesStoned
