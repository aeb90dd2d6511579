CONSTANTS
  Bots = {"A", "B", "C"}
  Tree <- Line3
  Seats <- OneUser
  Nicks = {"x", "y"}
  Global = {0, 1}
  Local = {100}
  Breakable <- LastOne
  Relays = "work"
  MaxOps = 4
  MaxBreaks = 1
SPECIFICATION SpecParts
\* Bounded operations: the bots come to rest.
CHECK_DEADLOCK FALSE
INVARIANTS NoStrangers PartyKnown AwayTold
