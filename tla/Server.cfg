CONSTANTS
  Inputs <- Mixed
  Nicks = {"a", "b", "z"}
  Chans = {"#x"}
  Channels = {"#x"}
  OptimizeKicks = 2
  KickMethod = 3
  Stackable = {"PRIVMSG"}
  StackLimit = 4
  Double = {"mode"}
  Penalties = FALSE
  MaxQMsg = 2
  MsgRate = 2
  Cleared = {"help"}
  MayRefuse = TRUE
  Login <- LoginLines
  Joined <- OnX
  MaxInputs = 4
  MaxMoves = 1
  MaxDials = 2
  ServerList <- TwoServers
  Hosts = {"s1", "s2", "s3"}
  NoHost = "none"
  MaxVariant = 1
  KeepNick = TRUE
  CycleWait = 1
  LateSilence = FALSE
  TableFull = FALSE
  MaxConns = 4
  MaxLosses = 2
  MaxChanges = 1
  MaxSent = 1
SPECIFICATION SpecAll
CHECK_DEADLOCK FALSE
INVARIANTS QueuesKept NothingMissing ConnectionKept
PROPERTIES Drains KeepsSessions RegainsNick
