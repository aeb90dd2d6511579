CONSTANTS
  Conns = {"c1", "c2"}
  Host <- OneHost
  Ports = {"p1"}
  Types = {"users"}
  Accepts <- AnyName
  Hands = {"ann", "bee"}
  First <- NobodyYet
  Me = "me"
  Passes = {"w"}
  Admitted = {"h"}
  AllowNew = FALSE
  NoUserfile = TRUE
  RequireP = FALSE
  ProtectTelnet = TRUE
  IdentTimeout = 0
  FloodThr = 0
  MayFailAtOnce = FALSE
  MaxConnects = 2
  MaxChanges = 1
  Times <- Intervals
  Counts <- Often
  PerMinute = 2
  Leaps <- OneOrFour
  MaxNow = 4
  MaxTimers = 2
  MayRestart = TRUE
  Socks <- One
  Texts <- AnyText
  ConnKinds <- AllKinds
  Width = 3
  MaxPuts = 0
  MaySplit = TRUE
  Sizes <- ShortPages
  ScriptSizes <- OddPages
  PageAtFirst = 1
  Rooms <- PartyOnly
  TooMany = 1
  DccFloodThr = 0
  MaxSaid = 5
  MaxDoings = 2
  Mods <- Core
  Needs <- WhatNeeds
  Missing <- None0
  MayFail <- Failing
  Refuses <- Cipher
  Hooked <- Minutely
  AtFirst <- AtStart
  MaxLoads = 3
SPECIFICATION SpecAll
CHECK_DEADLOCK FALSE
INVARIANTS LoginsKept DeskKept PartsKept TimersKept SocketsKept ModulesKept
PROPERTIES FlagsByRight LoginsEnd AllDelivered
