----------------------------- MODULE MCPartyLine -----------------------------
(* The party line of three bots in a row for TLC.  In one part, links break   *)
(* and relays work; in the other, relays also fail: part says which.          *)
EXTENDS PartyLine

VARIABLE part

Line3   == {{"A", "B"}, {"B", "C"}}
LastOne == {{"B", "C"}}
OneUser == {<<"A", 1>>}
Unbroken == 0

R == INSTANCE PartyLine WITH Relays <- "any", MaxBreaks <- Unbroken

InitParts == part \in {"party", "relays"} /\ Init
NextParts ==
  /\ UNCHANGED part
  /\ \/ part = "party" /\ Next
     \/ part = "relays" /\ R!Next
SpecParts == InitParts /\ [][NextParts]_<<vars, part>>

\* Members are shown as they are, and no honest line is taken for fake (bot_join, bot_part,
\* addparty); where relays fail, members are shown who are not there.
PartyKnown == TypeOK /\ (part = "party" => PartyAgrees /\ NoFalseAlarm)
\* Who said he is away is shown away (partyaway, dump_links).
AwayTold   == part = "party" => AwaySeen
=============================================================================
