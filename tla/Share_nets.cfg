CONSTANTS
  Bots = {"hub", "hub2", "mid", "leaf"}
  Pairs <- HubsMidLeaf
  Users = {u}
  Masks = {}
  BotRecs = {}
  Writers <- HubWrites
  AllowResync = {}
  Reloaders = {"hub"}
  Unloaders = {}
  Keen = {}
  Breakable = {"mid"}
  Lossy = TRUE
  MayFail = FALSE
  InOrder = TRUE
  SlowFiles = FALSE
  QLimit = 1000
  MaxEdits = 2
  MaxLinks = 4
  MaxWire = 3
  PairMasks = {m}
  PairBots = {x}
  ResyncEdits = 4
  BasicEdits = 2
  ReloadEdits = 3
  PairLinks = 3
SPECIFICATION SpecNets
CHECK_DEADLOCK FALSE
INVARIANTS InSyncNets EndsAgreeNets Directed
PROPERTY SettlesNets
