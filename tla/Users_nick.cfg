CONSTANTS
  Handles = {"root", "ann"}
  Rank <- Order
  Bots = {}
  Unshared = {}
  Founder = "root"
  Masks = {"m", "n"}
  Hosts = {"x", "y"}
  Score <- Closeness
  Wider <- Covers
  MaxRecs = 6
  Members = 2
  Conns = 0
  OfNick <- NickOf
  HubFiles = {}
  OneChannel = FALSE
  InStep = TRUE
  MaxChanges = 3
SPECIFICATION Spec
CHECK_DEADLOCK FALSE
INVARIANT CacheHonest
