------------------------------ MODULE MCBotnet ------------------------------
(* A net for TLC: who dials whom, and what may be asked of it. *)
EXTENDS Botnet, TLC

CONSTANTS A, B, C, D, E

\* B in the middle of A, C and D; C may also dial D.
StarConns  == {"ab", "bc", "bd", "cd"}
StarCaller == ("ab" :> A) @@ ("bc" :> B) @@ ("bd" :> B) @@ ("cd" :> C)
StarCallee == ("ab" :> B) @@ ("bc" :> C) @@ ("bd" :> D) @@ ("cd" :> D)

\* The star with E behind C.
TailConns  == StarConns \cup {"ce"}
TailCaller == StarCaller @@ ("ce" :> C)
TailCallee == StarCallee @@ ("ce" :> E)

\* In the runs about a remote unlink, C looks for another way onto the net only
\* once the operator has typed the command.
RelinkAfterUnlink == "cd" \in dialled => typed # {}

\* There the net is built one link at a time, in this order, and complete when
\* the command is typed; C looks for another way when the news of its loss has
\* spread, and D's link is lost last.
Up(c)      == dcc[Caller[c]][c] = "bot" /\ dcc[Callee[c]][c] = "bot"
BuildOrder == <<"ab", "bc", "bd", "ce">>
Asked      == \E c \in Conns : \E b \in Bots : \E k \in 1..Len(wire[c][b]) : wire[c][b][k].cmd = "ul"
BuiltFirst ==
  /\ IF typed = {}
     THEN \A i, j \in 1..4 : i < j /\ BuildOrder[j] \in dialled => Up(BuildOrder[i])
     ELSE {"bc", "bd", "ce"} \subseteq dialled /\ (Asked => Up("bd"))
  /\ (\E c \in Conns : dcc[Caller[c]][c] = "dns") =>
       \A c \in Conns : \A b \in Bots : wire[c][b] = <<>> \/ <<c, b>> = <<"ab", B>>

NoPairs   == {}
AUnlinksC == {<<A, C>>}
=============================================================================
