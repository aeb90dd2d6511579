---------------------------- MODULE MCBotnetNets ----------------------------
(* Two nets for TLC in one run: net says which moves.  The constants and the  *)
(* variables of Botnet are those of a ring of three bots; the other net is a   *)
(* line of four, with variables of its own.                                   *)
EXTENDS Botnet, TLC

CONSTANTS A, B, C, D

VARIABLES net, lists, ends, lines, called, orders

\* Each of the ring dials the next.  B and C call A their hub, and B may fall back on C.
RingConns  == {"ab", "bc", "ca"}
RingCaller == ("ab" :> A) @@ ("bc" :> B) @@ ("ca" :> C)
RingCallee == ("ab" :> B) @@ ("bc" :> C) @@ ("ca" :> A)
HubPairs   == {<<A, B>>, <<C, A>>}
AltPairs   == {<<B, C>>}
NoPairs    == {}

\* In the line D may also dial A, which rejects it; to C it is a leaf.
LineBots   == {A, B, C, D}
LineConns  == {"ab", "bc", "cd", "da"}
LineCaller == ("ab" :> A) @@ ("bc" :> B) @@ ("cd" :> C) @@ ("da" :> D)
LineCallee == ("ab" :> B) @@ ("bc" :> C) @@ ("cd" :> D) @@ ("da" :> A)
ARejectsD  == {<<A, D>>}
DIsLeaf    == {<<C, D>>}
AUnlinksC  == {<<A, C>>}
Middle     == {"bc"}

Line == INSTANCE Botnet WITH
          Bots <- LineBots, Conns <- LineConns, Caller <- LineCaller, Callee <- LineCallee,
          Hub <- NoPairs, Alt <- NoPairs, Leaf <- DIsLeaf, Reject <- ARejectsD, Unlinks <- AUnlinksC,
          MayFail <- Middle, MayDie <- NoPairs,
          tandbot <- lists, dcc <- ends, wire <- lines, dialled <- called, typed <- orders
ofLine == <<lists, ends, lines, called, orders>>

InitNets == net \in {"ring", "line"} /\ Init /\ Line!Init
NextNets ==
  /\ UNCHANGED net
  /\ \/ net = "ring" /\ Next /\ UNCHANGED ofLine
     \/ net = "line" /\ Line!Next /\ UNCHANGED vars
all == <<vars, net, ofLine>>
\* FairSpec, for the net whose liveness is checked.
SpecNets ==
  /\ InitNets /\ [][NextNets]_all
  /\ \A b \in Bots : \A c \in Ends(b) : WF_all(net = "ring" /\ Handle(b, c) /\ UNCHANGED <<net, ofLine>>)

\* The line, as the ring: one net at rest, nobody accused, lists kept; and a rejected bot is off.
LineIsTrue == Line!OneNet /\ Line!NoFalseAlarm /\ Line!ListsKept /\ Line!RejectedAreOff
\* The ring comes to rest once dialling stops.
RingRests == <>[](net = "ring" => Settled)
=============================================================================
