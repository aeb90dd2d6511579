------------------------------- MODULE MCShare -------------------------------
(* Share nets for TLC. *)
EXTENDS Share, TLC

\* A hub and a leaf; two hubs, a bot that takes its list from one of them, and that
\* bot's own leaf.
HubLeaf     == {<<"hub", "leaf">>}
HubsMidLeaf == {<<"hub", "mid">>, <<"hub2", "mid">>, <<"mid", "leaf">>}

\* The bans are changed at the leaf.
HubWrites == [r \in Recs |-> {"hub"}]
=============================================================================
