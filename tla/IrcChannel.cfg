CONSTANTS
  Bot = "hbot"
  Users = {"hop", "hman", "hbad", "hhalf", "hvoi", "hkick"}
  Nicks = {"bot", "op", "man", "bad", "half", "voi", "kick", "new"}
  NickAt <- NicksAt
  Flags <- FlagsAt
  Settings = {}
  StopNetHack = 0
  Masks = {"bbad", "bkick", "ball"}
  Exempts = {"eall"}
  Matches <- MaskHosts
  Listed = {}
  Sticky = {}
  Letters = {"t"}
  Pls = {"t"}
  Mns = {}
  ModesPerLine = 2
  PreventMixing = TRUE
  OpDelay = FALSE
  Events = {}
  MaxEvents = 0
  UserEvents = {"join", "quit", "split", "kick", "nick"}
  OpEvents = {"join", "mode +o", "mode -o", "mode +o bot"}
  MaxUserEvents = 3
  MaxOpEvents = 3
SPECIFICATION SpecNets
CHECK_DEADLOCK FALSE
INVARIANTS StateKnown ModesKnown PolicyHoldsNets
PROPERTY RejoinsNets
