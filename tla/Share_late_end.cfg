CONSTANTS
  Bots = {"hub", "leaf"}
  Pairs <- HubLeaf
  Users = {u}
  Masks = {m}
  BotRecs = {}
  Writers <- HubWrites
  AllowResync = {}
  Reloaders = {}
  Unloaders = {}
  Keen = {}
  Breakable = {"hub"}
  Lossy = TRUE
  MayFail = FALSE
  InOrder = FALSE
  SlowFiles = FALSE
  QLimit = 1000
  MaxEdits = 3
  MaxLinks = 2
  MaxWire = 3
SPECIFICATION Spec
CHECK_DEADLOCK FALSE
INVARIANTS InSync
