------------------------------ MODULE MCPeople ------------------------------
(***************************************************************************)
(* What people may do and how they come in, for TLC: part says which net     *)
(* moves.  Login is extended: its constants and variables are those of the    *)
(* first net, a new bot; the others have their own.  MCCore joins it with     *)
(* what carries all of it.                                                   *)
(***************************************************************************)
EXTENDS Login, Desk, TLC

VARIABLES part,
          accounts, seats, stored, chattrs, crossed, edits,
          calling, listening, records, makes, ignores, flooding, links, makers, owners, left, called, tries,
          xfer, requests

None0 == {}
Yes == TRUE
No == FALSE

-----------------------------------------------------------------------------
(* Flags.  An owner and a file area user of one bot; a master's own console;  *)
(* a bot's flags; an owner of two bots that share.                           *)

OneBot == {"A"}
TwoBots == {"A", "B"}
RootAnn == {"root", "ann"}
AnnBee == {"ann", "bee"}
AnnOnly == {"ann"}
BeeOnly == {"bee"}
RootOnly == {"root"}
TwoChans == <<"#a", "#b">>
OneChan == <<"#a">>
SharedA == {"#a"}
RootAndFiles == [root |-> {"n"}, ann |-> {"p", "x"}]
AnnMaster == [ann |-> {"m"}]
AnnOwner == [ann |-> {"n"}, bee |-> {"b"}]
BothIn == <<"root", "ann">>
AnnIn == <<"ann">>
BeeLinks == <<"ann", "bee">>
Texts1 == {<<"+", "m", "-", "x">>, <<"-", "m", "t", "p", "o", "j", "x">>, <<"|", "+", "m">>,
           <<"+", "A", "|", "-", "o", "m">>, <<"+", "n", "d">>}
Texts2 == {<<"-", "n", "m", "|", "+", "m">>, <<"+", "d", "|", "-", "o">>}
BotTexts == {<<"+", "h", "a", "l">>, <<"+", "s", "r", "3">>, <<"s", "|", "s">>}
ConTexts == {<<"reset">>, <<"+", "o", "r">>, <<"*">>, <<>>}
StripTexts == {<<"+", "b">>, <<"-">>}
ofFlags == <<accounts, seats, stored, chattrs, crossed, edits>>

FA == INSTANCE Flags WITH Bots <- OneBot, Hands <- RootAnn, Owners <- RootOnly, Bees <- None0, Chans <- TwoChans,
        Shared <- SharedA, First <- RootAndFiles, Sessions <- BothIn, Changes <- Texts1, BotChanges <- None0,
        Modes <- ConTexts, Strips <- None0, RequireP <- No, AllowDk <- Yes, RawLog <- Yes,
        PrivateGlobals <- None0, Scripts <- No, MaxWire <- 1, MaxChanges <- 2,
        dcc <- seats, wire <- chattrs, changes <- edits
FB == INSTANCE Flags WITH Bots <- OneBot, Hands <- AnnOnly, Owners <- None0, Bees <- None0, Chans <- TwoChans,
        Shared <- SharedA, First <- AnnMaster, Sessions <- AnnIn, Changes <- None0, BotChanges <- None0,
        Modes <- ConTexts, Strips <- StripTexts, RequireP <- No, AllowDk <- Yes, RawLog <- No,
        PrivateGlobals <- None0, Scripts <- Yes, MaxWire <- 1, MaxChanges <- 2,
        dcc <- seats, wire <- chattrs, changes <- edits
FC == INSTANCE Flags WITH Bots <- OneBot, Hands <- AnnBee, Owners <- None0, Bees <- BeeOnly, Chans <- OneChan,
        Shared <- SharedA, First <- AnnOwner, Sessions <- BeeLinks, Changes <- None0, BotChanges <- BotTexts,
        Modes <- None0, Strips <- None0, RequireP <- Yes, AllowDk <- No, RawLog <- No,
        PrivateGlobals <- None0, Scripts <- Yes, MaxWire <- 1, MaxChanges <- 3,
        dcc <- seats, wire <- chattrs, changes <- edits
FD == INSTANCE Flags WITH Bots <- TwoBots, Hands <- AnnOnly, Owners <- None0, Bees <- None0, Chans <- OneChan,
        Shared <- SharedA, First <- AnnOwner, Sessions <- AnnIn, Changes <- Texts2, BotChanges <- None0,
        Modes <- None0, Strips <- None0, RequireP <- Yes, AllowDk <- No, RawLog <- No,
        PrivateGlobals <- None0, Scripts <- No, MaxWire <- 3, MaxChanges <- 2,
        dcc <- seats, wire <- chattrs, changes <- edits

-----------------------------------------------------------------------------
(* Logins.  The first users of a new bot; a bot that comes twice; a port       *)
(* whose callers are asked for by ident.                                      *)

TwoConns == {"c1", "c2"}
OneHost == [c1 |-> "h", c2 |-> "h"]
OnePort == {"p1"}
JustOne == {"h"}
AnyName == [p1 |-> {"ann", "bee", "hub", "NEW"}]
BotPorts == {"all", "bots"}
UserPorts == {"all", "users", "script"}
HubOnly == {"hub"}
OneWord == {"w"}
NobodyYet == [h \in AnnBee |-> [there |-> FALSE, flags |-> {}, pass |-> "", hosts |-> {}]]
HubThere == [h \in HubOnly |-> [there |-> TRUE, flags |-> {"b"}, pass |-> "w", hosts |-> {"h"}]]
AnnThere == [h \in AnnOnly |-> [there |-> TRUE, flags |-> {"o", "p"}, pass |-> "w", hosts |-> {"h"}]]
MyName == "me"
ofLogins == <<calling, listening, records, makes, ignores, flooding, links, makers, owners, left, called, tries>>

LB == INSTANCE Login WITH Conns <- TwoConns, Host <- OneHost, Ports <- OnePort, Types <- BotPorts, Accepts <- AnyName,
        Hands <- HubOnly, First <- HubThere, Me <- MyName, Passes <- OneWord, Admitted <- JustOne,
        AllowNew <- Yes, NoUserfile <- No, RequireP <- No, ProtectTelnet <- Yes, IdentTimeout <- 0, FloodThr <- 0,
        MayFailAtOnce <- No, MaxConnects <- 2, MaxChanges <- 2,
        conns <- calling, ports <- listening, people <- records, make_userfile <- makes, ignored <- ignores,
        flood <- flooding, linked <- links, maker <- makers, founders <- owners, deserted <- left,
        connects <- called, changes <- tries
LC == INSTANCE Login WITH Conns <- TwoConns, Host <- OneHost, Ports <- OnePort, Types <- UserPorts, Accepts <- AnyName,
        Hands <- AnnOnly, First <- AnnThere, Me <- MyName, Passes <- OneWord, Admitted <- JustOne,
        AllowNew <- No, NoUserfile <- No, RequireP <- Yes, ProtectTelnet <- Yes, IdentTimeout <- 5, FloodThr <- 1,
        MayFailAtOnce <- Yes, MaxConnects <- 3, MaxChanges <- 1,
        conns <- calling, ports <- listening, people <- records, make_userfile <- makes, ignored <- ignores,
        flood <- flooding, linked <- links, maker <- makers, founders <- owners, deserted <- left,
        connects <- called, changes <- tries

ASSUME LoginAssumption == ConstantsOK /\ LB!ConstantsOK /\ LC!ConstantsOK

-----------------------------------------------------------------------------
(* One session: paging; moving about.                                        *)

ShortPages == {0, 1, 2}
OddPages == {-1, 0, 2}
OnePage == {1}
PartyOnly == {"party"}
AllRooms == {"party", "high", "local", "off"}
KB == INSTANCE Desk WITH Sizes <- OnePage, ScriptSizes <- None0, PageAtFirst <- 0, Rooms <- AllRooms, TooMany <- 1,
        DccFloodThr <- 1, MaxSaid <- 2, MaxDoings <- 4

-----------------------------------------------------------------------------
(* Transfers.  Files that wait for two people, as the file area and as        *)
(* another directory keeps them; one file, gone on with; what is sent in.      *)

AnnBob == {"ann", "bob"}
OneFile == {"f"}
TwoFiles == {"f", "g"}
Short == [f \in TwoFiles |-> 1]
Five == [f \in OneFile |-> 5]
Fine == {"OK"}
Misfortunes == {"OK", "NOSOCK"}
FromWhere == {2, 3, 5}
AllOfIt == {"all"}
BothStyles == {"all", "own"}
One == 1..1
TwoSlots == 1..2
ofTransfers == <<xfer, requests>>
TA == INSTANCE Transfers WITH Users <- AnnBob, Files <- TwoFiles, Length <- Short, First <- TwoFiles, Uploads <- None0,
        Limit <- 1, Block <- 2, Slots <- TwoSlots, AreaHere <- Yes, CopyToTmp <- Yes, Fortunes <- Misfortunes,
        Offsets <- None0, Styles <- AllOfIt, MayBlock <- No, MaySplit <- No, MaxAsked <- 3, asked <- requests
TB == INSTANCE Transfers WITH Users <- AnnOnly, Files <- OneFile, Length <- Five, First <- OneFile, Uploads <- None0,
        Limit <- 1, Block <- 2, Slots <- One, AreaHere <- No, CopyToTmp <- Yes, Fortunes <- Fine,
        Offsets <- FromWhere, Styles <- BothStyles, MayBlock <- Yes, MaySplit <- Yes, MaxAsked <- 2, asked <- requests
TC == INSTANCE Transfers WITH Users <- AnnBob, Files <- TwoFiles, Length <- Short, First <- None0, Uploads <- TwoFiles,
        Limit <- 1, Block <- 0, Slots <- TwoSlots, AreaHere <- No, CopyToTmp <- Yes, Fortunes <- Fine,
        Offsets <- None0, Styles <- AllOfIt, MayBlock <- No, MaySplit <- No, MaxAsked <- 3, asked <- requests

-----------------------------------------------------------------------------
ofPeople == <<ofFlags, vars, ofLogins, deskVars, ofTransfers>>
FlagParts == {"flags", "console", "bot flags", "shared flags"}
LoginParts == {"bots", "ident"}
DeskParts == {"paging", "moving"}
TransferParts == {"files that wait", "one file", "uploads"}
PeopleParts == FlagParts \cup {"founding"} \cup LoginParts \cup DeskParts \cup TransferParts

InitPeople ==
  /\ CASE part = "console" -> FB!Init [] part = "bot flags" -> FC!Init [] part = "shared flags" -> FD!Init
       [] OTHER -> FA!Init
  /\ Init
  /\ IF part = "ident" THEN LC!Init ELSE LB!Init
  /\ part \notin LoginParts => listening["p1"] = "bots"
  /\ IF part = "moving" THEN KB!InitDesk ELSE InitDesk
  /\ CASE part = "one file" -> TB!Init [] part = "uploads" -> TC!Init [] OTHER -> TA!Init

NextPeople ==
  /\ \/ part = "flags" /\ FA!Next
     \/ part = "console" /\ FB!Next
     \/ part = "bot flags" /\ FC!Next
     \/ part = "shared flags" /\ FD!Next
     \/ part \notin FlagParts /\ UNCHANGED ofFlags
  /\ (part = "founding" /\ Next) \/ (part # "founding" /\ UNCHANGED vars)
  /\ \/ part = "bots" /\ LB!Next
     \/ part = "ident" /\ LC!Next
     \/ part \notin LoginParts /\ UNCHANGED ofLogins
  /\ \/ part = "paging" /\ NextDesk
     \/ part = "moving" /\ KB!NextDesk
     \/ part \notin DeskParts /\ UNCHANGED deskVars
  /\ \/ part = "files that wait" /\ TA!Next
     \/ part = "one file" /\ TB!Next
     \/ part = "uploads" /\ TC!Next
     \/ part \notin TransferParts /\ UNCHANGED ofTransfers

FairnessPeople ==
  /\ WF_deskVars(part = "paging" /\ Enter)
  /\ \A c \in TwoConns :
       /\ WF_vars(part = "founding" /\ ComesOn(c))
       /\ WF_ofLogins(part = "bots" /\ LB!ComesOn(c))
       /\ WF_ofLogins(part = "ident" /\ LC!ComesOn(c))

-----------------------------------------------------------------------------
(* Each component's properties, for its nets.  What each of them says is     *)
(* told in its module.                                                       *)

\* Flags: a record's flags are in order, consoles and places are what they allow, what is written
\* is read as the same, and bots that share agree.
FlagsKept ==
  /\ part = "flags" => FA!TypeOK /\ FA!Complete /\ FA!InBounds /\ FA!ReadsBack /\ FA!IconRight
  /\ part = "console" => FB!TypeOK /\ FB!Complete /\ FB!InBounds /\ FB!ReadsBack
  /\ part = "bot flags" => FC!TypeOK /\ FC!Complete /\ FC!InBounds /\ FC!ReadsBack
  /\ part = "shared flags" => FD!TypeOK /\ FD!Complete /\ FD!InBounds /\ FD!BotsAgree
\* Ranks are changed by those of a higher one.
FlagsByRight ==
  [][(part = "flags" => FA!ByRight) /\ (part = "shared flags" => FD!ByRight)]_<<part, ofFlags>>
\* Transfers: no more at once than is allowed, nobody who waits is forgotten, a file arrives whole
\* and in order, a transfer goes on, and a name is sent in once at a time.
TransfersKept ==
  /\ part = "files that wait" => TA!TypeOK /\ TA!WithinLimit /\ TA!NobodyForgotten /\ TA!GoesOn
  /\ part = "one file" => TB!TypeOK /\ TB!Intact /\ TB!GoesOn
  /\ part = "uploads" => TC!TypeOK /\ TC!SentOnce /\ TC!Intact /\ TC!WithinLimit /\ TC!NobodyForgotten
\* Logins, of bots and by ident (of the first users, LoginsKept says it): whoever is in is known,
\* and by a port for such as he is; a bot is linked once; and the answer awaited can come.
\* A session: it is shown all that is said to it, in order, and seen where it is.
\* And of flags and files what FlagsKept and TransfersKept say.
PeopleKept ==
  /\ part = "bots" => LB!TypeOK /\ LB!Known /\ LB!LinkedOnce /\ LB!NoneHalfMade
  /\ part = "ident" => LC!TypeOK /\ LC!Known /\ LC!IdentAwaited
  /\ part = "moving" => KB!DeskKept
  /\ FlagsKept /\ TransfersKept
\* Nobody waits for ever on the way in.
LoginsEnd ==
  /\ part = "founding" => Decided
  /\ part = "bots" => LB!Decided
  /\ part = "ident" => LC!Decided
=============================================================================
