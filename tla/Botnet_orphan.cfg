CONSTANTS
  A = A
  B = B
  C = C
  D = D
  E = E
  Bots = {A, B, C, D, E}
  Conns <- TailConns
  Caller <- TailCaller
  Callee <- TailCallee
  Hub <- NoPairs
  Alt <- NoPairs
  Leaf <- NoPairs
  Reject <- NoPairs
  Unlinks <- AUnlinksC
  MayFail = {"bc", "bd"}
  MayDie = {}
SPECIFICATION Spec
\* Each connection is dialled once: the net comes to rest.
CHECK_DEADLOCK FALSE
CONSTRAINTS RelinkAfterUnlink BuiltFirst
INVARIANTS ListMatchesLinks
