CONSTANTS
  Bot = "hbot"
  Users = {"hop", "hman"}
  Nicks = {"bot", "op", "man"}
  NickAt <- NicksAt
  Flags <- FlagsAt
  Settings = {}
  StopNetHack = 0
  Masks = {}
  Exempts = {}
  Matches <- MaskHosts
  Listed = {}
  Sticky = {}
  Letters = {"t"}
  Pls = {"t"}
  Mns = {}
  ModesPerLine = 2
  PreventMixing = TRUE
  OpDelay = FALSE
  Events = {"join", "part", "mode -o"}
  MaxEvents = 3
  UserEvents = {"join", "quit", "split", "kick", "nick"}
  OpEvents = {"join", "mode +o", "mode -o", "mode +o bot"}
  MaxUserEvents = 3
  MaxOpEvents = 3
SPECIFICATION OneChannel
CHECK_DEADLOCK FALSE
INVARIANT NoGhosts
