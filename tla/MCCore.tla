------------------------------- MODULE MCCore -------------------------------
(***************************************************************************)
(* What carries all of it - connections, binds, masks, timers, modules - and *)
(* the people of MCPeople, for TLC in one run: part says which net moves.     *)
(***************************************************************************)
EXTENDS MCPeople, Timers, Sockets, Modules

VARIABLES tl, walks, binds,
          compared

-----------------------------------------------------------------------------
(* Sockets.  One connection on which all sorts of lines come; two that are     *)
(* written to and read.                                                      *)

AnyText == [1..6 -> BOOLEAN]
ShortLine == {<<FALSE, TRUE>>}
AllKinds == {"accepted", "connecting", "strong"}
Ordinary == {"accepted"}
Two == 1..2
SB == INSTANCE Sockets WITH Socks <- Two, Texts <- ShortLine, ConnKinds <- Ordinary, MaxPuts <- 2, MaySplit <- No

-----------------------------------------------------------------------------
(* Binds.  Masks with wildcards, of which all are run; raw codes; commands      *)
(* that may be cut short.                                                    *)

CommandMasks == {"a", "ab", "x"}
PQ == {"p", "q"}
Itself == [e \in CommandMasks |-> {e}]
Wildcards == [e \in CommandMasks |-> CASE e = "a" -> {"a", "ab"} [] e = "ab" -> {"ab", "x"} [] OTHER -> {"x"}]
Starts == [e \in CommandMasks |-> CASE e = "a" -> {"a", "ab"} [] OTHER -> {e}]
Anybody == [e \in CommandMasks |-> {"-"}]
Masters == [e \in CommandMasks |-> IF e = "a" THEN {"-", "m"} ELSE {"-"}]
Bound == <<<<"a", <<"p">>>>, <<"ab", <<"p", "q">>>>>>
Others == <<<<"ab", <<"p">>>>, <<"a", <<"p">>>>>>
ForAll == {"-"}
BothFlags == {"-", "m"}
ofBinds == <<tl, walks, binds>>
BA == INSTANCE Binds WITH Masks <- CommandMasks, Procs <- PQ, Events <- CommandMasks, Matches <- Wildcards, Exactly <- Itself,
        Rights <- Anybody, Type <- "mask", Stackable <- Yes, Wants <- "one", First <- Bound, BindFlags <- ForAll,
        MaxDepth <- 1, MaxChanges <- 2
BB == INSTANCE Binds WITH Masks <- CommandMasks, Procs <- PQ, Events <- CommandMasks, Matches <- Itself, Exactly <- Itself,
        Rights <- Anybody, Type <- "exact", Stackable <- Yes, Wants <- "kept", First <- Bound, BindFlags <- ForAll,
        MaxDepth <- 2, MaxChanges <- 1
BC == INSTANCE Binds WITH Masks <- CommandMasks, Procs <- PQ, Events <- CommandMasks, Matches <- Starts, Exactly <- Itself,
        Rights <- Masters, Type <- "partial", Stackable <- No, Wants <- "none", First <- Others, BindFlags <- BothFlags,
        MaxDepth <- 1, MaxChanges <- 2

-----------------------------------------------------------------------------
(* Masks of up to three characters, and times.                              *)

SomeMasks == UNION {[1..k -> {"a", "*", "?", "%", "~", " ", "\\"}] : k \in 1..3}
SomeNames == UNION {[1..k -> {"a", "b", " "}] : k \in 0..3}
V(from, to, step) == [from |-> from, to |-> to, step |-> step]
SomeFields == {<<V(-1, -1, 0)>>, <<V(-1, -1, 2)>>, <<V(1, 1, 0), V(3, 3, 0)>>, <<V(5, 1, 0)>>, <<V(7, 7, 0)>>}
SomeDays == {1, 3, 5} \X {1, 2} \X (0..6)
MT == INSTANCE Match WITH Masks <- SomeMasks, Names <- SomeNames, Fields <- SomeFields, Days <- SomeDays

-----------------------------------------------------------------------------
(* Timers and modules, which are extended: the constants are in the .cfg.    *)
(* Share needs transfer and channels, and the cipher does not close.          *)

Intervals == {0, 2}
Often == {0, 1, 2}
OneOrFour == {1, 4}

Core == {"core", "blowfish", "channels", "transfer", "share"}
WhatNeeds == [m \in Core |-> CASE m = "core" -> <<>> [] m = "share" -> <<"core", "transfer", "channels">> [] OTHER -> <<"core">>]
Cipher == {"blowfish"}
Failing == {"channels"}
Minutely == {"channels", "share"}
AtStart == <<"core", "blowfish", "channels">>

-----------------------------------------------------------------------------
all == <<part, ofPeople, socketVars, ofBinds, timerVars, moduleVars, compared>>
CoreParts == {"lines", "writing", "wildcards", "codes", "commands", "masks", "timers", "modules"}

InitAll ==
  /\ part \in PeopleParts \cup CoreParts
  /\ InitPeople
  /\ CASE part = "lines" -> InitSockets
       [] OTHER -> SB!InitSockets
  /\ IF part = "commands" THEN BC!Init ELSE BA!Init
  /\ IF part = "masks" THEN MT!Init ELSE compared = "nothing"
  /\ InitTimers /\ InitModules
NextAll ==
  /\ UNCHANGED part
  /\ NextPeople
  /\ \/ part = "lines" /\ NextSockets
     \/ part = "writing" /\ SB!NextSockets
     \/ part \notin {"lines", "writing"} /\ UNCHANGED socketVars
  /\ \/ part = "wildcards" /\ BA!Next
     \/ part = "codes" /\ BB!Next
     \/ part = "commands" /\ BC!Next
     \/ part \notin {"wildcards", "codes", "commands"} /\ UNCHANGED ofBinds
  /\ (part = "masks" /\ MT!Next) \/ (part # "masks" /\ UNCHANGED compared)
  /\ (part = "timers" /\ NextTimers) \/ (part # "timers" /\ UNCHANGED timerVars)
  /\ (part = "modules" /\ NextModules) \/ (part # "modules" /\ UNCHANGED moduleVars)
FairnessAll ==
  /\ FairnessPeople
  /\ WF_socketVars(part = "lines" /\ Sockgets) /\ WF_socketVars(part = "writing" /\ SB!Sockgets)
  /\ WF_socketVars(part = "lines" /\ Unbuffer(1))
  /\ \A i \in Two : WF_socketVars(part = "writing" /\ SB!Unbuffer(i)) /\ WF_socketVars(part = "writing" /\ SB!Drains(i))
SpecAll == InitAll /\ [][NextAll]_all /\ FairnessAll

-----------------------------------------------------------------------------
\* What carries it: what is read of a connection is what came, in lines, and what is written goes in
\* order; a bind is run once and as it was bound; a mask matches what it means; timers are of their type
\* (Timers has TimersKept, Modules has ModulesKept).
CoreKept ==
  /\ part = "writing" => SB!SocketsKept
  /\ part = "wildcards" => BA!TypeOK /\ BA!BoundTrue /\ BA!EachOnce /\ BA!NoneMissed
  /\ part = "codes" => BB!TypeOK /\ BB!BoundTrue /\ BB!EachOnce /\ BB!NoneMissed
  /\ part = "commands" => BC!TypeOK /\ BC!BoundTrue /\ BC!OneMeant
  /\ part = "masks" => MT!MatchesMeant
  /\ part = "timers" => TimersTypeOK
\* What people may do and what carries it.
PartsKept == PeopleKept /\ CoreKept
\* Lines that wait are shown to one who asks for more; and what comes is read and what is written is
\* taken, on all connections that stay.
AllDelivered ==
  /\ part = "paging" => Delivered
  /\ <>[]((part = "lines" => Moved) /\ (part = "writing" => SB!Moved))
=============================================================================
