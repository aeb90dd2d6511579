---------------------------- MODULE MCServerConn ----------------------------
(* Servers for TLC. *)
EXTENDS ServerConn, TLC
TwoServers == <<"s1", "s2">>
=============================================================================
