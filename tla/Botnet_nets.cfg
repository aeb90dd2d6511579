CONSTANTS
  A = A
  B = B
  C = C
  D = D
  Bots = {A, B, C}
  Conns <- RingConns
  Caller <- RingCaller
  Callee <- RingCallee
  Hub <- HubPairs
  Alt <- AltPairs
  Leaf <- NoPairs
  Reject <- NoPairs
  Unlinks <- NoPairs
  MayFail <- RingConns
  MayDie = {A}
SPECIFICATION SpecNets
\* Each connection is dialled once: a net comes to rest.
CHECK_DEADLOCK FALSE
INVARIANTS ListsKept NoFalseAlarm OneNet LineIsTrue
PROPERTY RingRests
