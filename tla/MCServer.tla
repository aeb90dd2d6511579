------------------------------ MODULE MCServer ------------------------------
(***************************************************************************)
(* The two components of server.mod for TLC: the connection (ServerConn)   *)
(* and the queues (ServerQueue), on variables of their own.  They are      *)
(* checked in one run without being multiplied: part says which of them    *)
(* moves.                                                                  *)
(***************************************************************************)
EXTENDS MCServerConn, ServerQueue

VARIABLE part

Line(q, cmd, to, text)  ==
  [queue |-> q, next |-> FALSE, line |-> [cmd |-> cmd, to |-> to, nicks |-> <<>>, text |-> text]]
Kick(q, to, nicks) ==
  [queue |-> q, next |-> FALSE, line |-> [cmd |-> "KICK", to |-> to, nicks |-> nicks, text |-> "out"]]
First(i) == [i EXCEPT !.next = TRUE]

LoginNick == [cmd |-> "NICK", to |-> "bot", nicks |-> <<>>, text |-> ""]
LoginUser == [cmd |-> "USER", to |-> "bot", nicks |-> <<>>, text |-> "bot"]
LoginLines == <<LoginNick, LoginUser>>

\* Every queue in use; messages that stack; kicks in a queue of their own.
Mixed == {Line("mode", "PRIVMSG", "#x", "hi"), First(Line("mode", "PRIVMSG", "#y", "hi")),
          Kick("server", "#x", <<"a">>), Kick("server", "#x", <<"b">>), Kick("server", "#x", <<"a", "b">>),
          Line("help", "PRIVMSG", "#y", "ho"), Line("help", "PRIVMSG", "#x", "ha")}

OnX == [c \in Channels |-> {"a", "b"}]

ASSUME ConnAssumption  == ConstantsOK

all == <<part, queueVars, vars>>

InitAll ==
  /\ part \in {"queues", "connection"}
  /\ InitQueues /\ Init
  /\ part = "queues" => taken = {}

NextAll ==
  /\ UNCHANGED part
  /\ \/ part = "queues" /\ NextQueues /\ UNCHANGED vars
     \/ part = "connection" /\ Next /\ UNCHANGED queueVars

OfQueues(A) == part = "queues" /\ A /\ UNCHANGED <<part, vars>>
OfConn(A)   == part = "connection" /\ A /\ UNCHANGED <<part, queueVars>>

SpecAll ==
  /\ InitAll /\ [][NextAll]_all
  /\ WF_all(OfQueues(SecondlyQueues))
  /\ WF_all(OfConn(Secondly)) /\ WF_all(OfConn(Minutely)) /\ WF_all(OfConn(FiveMinutely))
  /\ WF_all(OfConn(TimeoutServer)) /\ WF_all(OfConn(Activity))
  /\ WF_all(OfConn(Resolved)) /\ WF_all(OfConn(ServerReads))
  /\ WF_all(OfConn(OthersLeave(MaxVariant + 1)))

\* The connection comes back, and its nick with it (ServerConn's Regains).
RegainsNick == \/ <>[](part # "connection" \/ Orig \in taken)
               \/ <>[](online /\ botname = Orig)
=============================================================================
