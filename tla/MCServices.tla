----------------------------- MODULE MCServices -----------------------------
(***************************************************************************)
(* Components that share no state, for TLC in one run: part says which of   *)
(* them moves.  Those with more than one net have a part for each.          *)
(***************************************************************************)
EXTENDS Naturals, Sequences, FiniteSets, SequencesExt, TLC

VARIABLES part,
          table, dcc_total, dns_events, resolves, asked, got, freed,
          recs, userlist, lastuser, sessions, present, userfile, late, changes,
          lists, lastdeleted, live, delayed, listfile, wire, crossed, edits,
          exists, real, db, stale, meant, ops,
          chanset, udef, globset, chanfile, setts,
          users, fwd, ignores, party, notefile, tandbot, privs, ends, told, sent, noted

-----------------------------------------------------------------------------
(* Names and addresses.  In the first net two connections are accepted, one  *)
(* is dialled by a literal address and a script looks up what the first of   *)
(* them waits for; in the second a dialled connection may close under an     *)
(* accepted one, and a script's callback looks the same name up again; in    *)
(* the third the addresses are IPv6.                                         *)

Two == {"tel1", "tel2"}
One == {"tel1"}
ToLit == {"lit"}
ToHost == {"h1"}
T1 == {"t1"}
T24 == {"t2", "t4"}
Nobody == {}
Key == [x \in {"tel1", "tel2", "lit", "h1", "t1", "t2", "t4"} |->
          CASE x \in {"tel1", "t1"} -> "i1" [] x = "tel2" -> "i2"
            [] x \in {"t2", "t4"} -> "h2" [] OTHER -> x]
FollowUp == [t \in T1 \cup T24 |-> IF t = "t2" THEN "t4" ELSE ""]
Ips == {"i1", "i2"}
Hosts == {"h1", "h2", "lit"}
Zone == [k \in Ips \cup Hosts |->
           CASE k = "i1" -> "h2" [] k = "h1" -> <<"", "a6">> [] k = "h2" -> <<"i1", "a6">> [] OTHER -> ""]
Yes == TRUE
No == FALSE

D == INSTANCE Dns WITH dcc <- table, Telnets <- Two, Dials <- ToLit, Scripts <- T1, Leaves <- Nobody,
       KeyOf <- Key, Follow <- FollowUp, Literal <- ToLit, MaxSends <- 2, PreferIp6 <- No,
       Ip6 <- Nobody, MaxDcc <- 3, MayRefuse <- Yes
E == INSTANCE Dns WITH dcc <- table, Telnets <- One, Dials <- ToHost, Scripts <- T24, Leaves <- ToHost,
       KeyOf <- Key, Follow <- FollowUp, Literal <- ToLit, MaxSends <- 2, PreferIp6 <- Yes,
       Ip6 <- Nobody, MaxDcc <- 3, MayRefuse <- No
G == INSTANCE Dns WITH dcc <- table, Telnets <- Two, Dials <- Nobody, Scripts <- T1, Leaves <- Nobody,
       KeyOf <- Key, Follow <- FollowUp, Literal <- Nobody, MaxSends <- 1, PreferIp6 <- No,
       Ip6 <- Ips, MaxDcc <- 2, MayRefuse <- No
ofDns == <<table, dcc_total, dns_events, resolves, asked, got, freed>>

-----------------------------------------------------------------------------
(* User records.  In the first net two people on one channel are recognised  *)
(* by two masks while records, masks and handles change; in the second two   *)
(* sessions, a bot among the records, and a hub that sends its file.         *)

People == {"root", "ann"}
AndHub == {"root", "ann", "hub"}
HubOnly == {"hub"}
RootOnly == {"root"}
Order == [root |-> 2, ann |-> 3, hub |-> 1]
Root == "root"
TwoMasks == {"m", "n"}
OneMask == {"m"}
TwoHosts == {"x", "y"}
OneHost == {"x"}
Closeness == [m |-> [x |-> 3, y |-> 2], n |-> [x |-> 4, y |-> 0]]
Covers == [m |-> {"m", "n"}, n |-> {"n"}]
NickOf == [x |-> "ann", y |-> "you"]
HubFile == {<<[hand |-> "ann", hosts |-> {"m"}, bot |-> FALSE, unsh |-> FALSE]>>}
ofUsers == <<recs, userlist, lastuser, sessions, present, userfile, late, changes>>

U == INSTANCE Users WITH dcc <- sessions, members <- present, disk <- userfile, Handles <- People,
       Rank <- Order, Bots <- HubOnly, Unshared <- Nobody, Founder <- Root, Masks <- TwoMasks,
       Hosts <- TwoHosts, Score <- Closeness, Wider <- Covers, MaxRecs <- 6, Members <- 2, Conns <- 0,
       OfNick <- NickOf, HubFiles <- Nobody, OneChannel <- Yes, InStep <- Yes, MaxChanges <- 3
V == INSTANCE Users WITH dcc <- sessions, members <- present, disk <- userfile, Handles <- AndHub,
       Rank <- Order, Bots <- HubOnly, Unshared <- RootOnly, Founder <- Root, Masks <- OneMask,
       Hosts <- OneHost, Score <- Closeness, Wider <- Covers, MaxRecs <- 6, Members <- 1, Conns <- 2,
       OfNick <- NickOf, HubFiles <- HubFile, OneChannel <- Yes, InStep <- Yes, MaxChanges <- 2

-----------------------------------------------------------------------------
(* Bans and their like.  One bot with bans that are numbered, saved and read *)
(* back; one with an exempt and the ban it is there for; one with invites on *)
(* two channels; a hub and a leaf.                                           *)

OneBot == {"hub"}
TwoBots == {"hub", "leaf"}
TheHub == "hub"
BanOnly == {"ban"}
BanExempt == {"ban", "exempt"}
InviteOnly == {"invite"}
Ignores == {"ignore"}
OneChan == {"#a"}
TwoChans == {"#a", "&b"}
Local == {"&b"}
RecOf(m, w, s) == [mask |-> m, when |-> w, sticky |-> s]
Recs1 == {RecOf("m", "never", FALSE), RecOf("n", "never", FALSE), RecOf("n", "later", TRUE)}
Recs2 == {RecOf("m", "later", FALSE)}
Recs3 == {RecOf("m", "later", FALSE), RecOf("m", "never", TRUE)}
ThereFor == [m |-> {"m"}, n |-> {}]
SelfMasks == [b \in TwoBots |-> IF b = "leaf" THEN {"n"} ELSE {}]
ofMasks == <<lists, lastdeleted, live, delayed, listfile, wire, crossed, edits>>

MA == INSTANCE Masks WITH Bots <- OneBot, Hub <- TheHub, Kinds <- BanOnly, Chans <- OneChan, Plain <- OneChan,
        Dynamic <- Nobody, Shared <- OneChan, Masks <- TwoMasks, Recs <- Recs1, Answers <- ThereFor,
        Own <- SelfMasks, MaxWire <- 1, MaxChanges <- 3, file <- listfile, changes <- edits
MB == INSTANCE Masks WITH Bots <- OneBot, Hub <- TheHub, Kinds <- BanExempt, Chans <- OneChan, Plain <- OneChan,
        Dynamic <- Nobody, Shared <- OneChan, Masks <- OneMask, Recs <- Recs2, Answers <- ThereFor,
        Own <- SelfMasks, MaxWire <- 1, MaxChanges <- 3, file <- listfile, changes <- edits
MC == INSTANCE Masks WITH Bots <- OneBot, Hub <- TheHub, Kinds <- InviteOnly, Chans <- TwoChans, Plain <- OneChan,
        Dynamic <- Local, Shared <- OneChan, Masks <- OneMask, Recs <- Recs3, Answers <- ThereFor,
        Own <- SelfMasks, MaxWire <- 1, MaxChanges <- 2, file <- listfile, changes <- edits
MD == INSTANCE Masks WITH Bots <- TwoBots, Hub <- TheHub, Kinds <- BanOnly, Chans <- OneChan, Plain <- OneChan,
        Dynamic <- OneChan, Shared <- OneChan, Masks <- OneMask, Recs <- Recs2, Answers <- ThereFor,
        Own <- SelfMasks, MaxWire <- 1, MaxChanges <- 3, file <- listfile, changes <- edits
ME == INSTANCE Masks WITH Bots <- TwoBots, Hub <- TheHub, Kinds <- Ignores, Chans <- OneChan, Plain <- OneChan,
        Dynamic <- OneChan, Shared <- OneChan, Masks <- TwoMasks, Recs <- Recs1, Answers <- ThereFor,
        Own <- SelfMasks, MaxWire <- 2, MaxChanges <- 3, file <- listfile, changes <- edits

-----------------------------------------------------------------------------
(* The file area.  Files that come, go and are described in one directory;   *)
(* a directory in it that is made and removed, and what is moved between.    *)

OneDir == {"top"}
TwoDirs == {"top", "sub"}
TopDir == "top"
FilesAB == {"a", "b"}
FileA == {"a"}
Lengths == {0, 5}
Ann == {"ann"}
AnnJoe == {"ann", "joe"}
Soon == {"now", "5 minutes"}
Late == {"now", "6 hours"}
Mark1 == {"hide"}
Mark2 == {"share", "unhide"}
ofFiles == <<exists, real, db, stale, meant, ops>>

FA == INSTANCE Files WITH Dirs <- OneDir, Root <- TopDir, Names <- FilesAB, Descs <- Lengths, Users <- Ann,
        Janitors <- Ann, Hdr <- 2, Est <- 1, Ages <- Soon, Stats <- Mark1, MaxOps <- 3
FB == INSTANCE Files WITH Dirs <- TwoDirs, Root <- TopDir, Names <- FileA, Descs <- Lengths, Users <- AnnJoe,
        Janitors <- Ann, Hdr <- 2, Est <- 1, Ages <- Late, Stats <- Mark2, MaxOps <- 3

-----------------------------------------------------------------------------
(* Channels: a setting of each kind; and the settings of scripts, whose type *)
(* the config file may have changed by the next start.                       *)

AandB == {"#a", "#b"}
ThreeFlags == {"static", "userbans", "inactive"}
StaticOnly == {"static"}
NeedOp == {"need-op"}
IdleKick == {"idle-kick"}
FloodChan == {"flood-chan"}
AllDefaults == [o \in {"need-op", "idle-kick", "flood-chan", "aop-delay"} |->
                  CASE o = "flood-chan" -> <<15, 60>> [] o = "aop-delay" -> <<5, 30>> [] OTHER -> <<0>>]
FewDefaults == [o \in {"idle-kick", "aop-delay"} |-> AllDefaults[o]]
NT == <<<< <<"+", "n">>, <<"+", "t">> >>, <<>>>>
KLSP == <<<< <<"+", "k">>, <<"+", "l">>, <<"+", "s">>, <<"+", "p">>, <<"-", "t">> >>, <<7, 5>>>>
XandY == {"x", "y"}
Setting(o, s, v) == [opt |-> o, sign |-> s, pre |-> "", arg |-> v]
Kinds4 == { <<Setting("static", "+", <<>>), Setting("userbans", "-", <<>>)>>,
            <<Setting("chanmode", "", KLSP)>>,
            <<Setting("idle-kick", "", <<4>>), Setting("aop-delay", "", <<4>>), Setting("need-op", "", <<1>>)>>,
            <<Setting("flood-chan", "", <<3>>), Setting("inactive", "+", <<>>)>> }
OfScripts == {<<Setting("x", "+", <<>>), Setting("y", "", <<2>>)>>, <<Setting("x", "", <<1>>)>>}
AddA(items) == [cmd |-> "add", chan |-> "#a", items |-> items]
DefX(t) == [cmd |-> "setudef", chan |-> "x", type |-> t]
OneConfig == {<<AddA(<<Setting("static", "+", <<>>)>>)>>}
TwoConfigs == {<<AddA(<<>>), DefX("flag")>>, <<DefX("int")>>}
ofChans == <<chanset, udef, globset, chanfile, setts>>

CA == INSTANCE Channels WITH Chans <- AandB, Flags <- ThreeFlags, Texts <- NeedOp, Nums <- IdleKick,
        Floods <- FloodChan, Defaults <- AllDefaults, GlobMode <- NT, AllowPs <- No, Udefs <- Nobody,
        Options <- Kinds4, Config <- OneConfig, ReadAtLoad <- Yes, MaxChanges <- 2, changes <- setts
CB == INSTANCE Channels WITH Chans <- AandB, Flags <- StaticOnly, Texts <- Nobody, Nums <- IdleKick,
        Floods <- Nobody, Defaults <- FewDefaults, GlobMode <- NT, AllowPs <- No, Udefs <- XandY,
        Options <- OfScripts, Config <- TwoConfigs, ReadAtLoad <- No, MaxChanges <- 2, changes <- setts

-----------------------------------------------------------------------------
(* Notes: two users of one bot, what is in its file and who they are; and a   *)
(* note passed on along three bots, where two forward to each other.         *)

A1 == {"A"}
A3 == {"A", "B", "C"}
Alone == [A |-> [A |-> "A"]]
InLine == [A |-> [A |-> "A", B |-> "B", C |-> "B"], B |-> [A |-> "A", B |-> "B", C |-> "C"],
           C |-> [A |-> "B", B |-> "B", C |-> "C"]]
At(h, b) == [hand |-> h, at |-> b, sock |-> 0]
AnnBob == {"ann", "bob"}
AnnBobCat == {"ann", "bob", "cat"}
OnA == [A |-> AnnBob]
OneEach == [A |-> {"ann"}, B |-> {"bob"}, C |-> {"cat"}]
ToAnnBob == {At("ann", ""), At("bob", "")}
ToCat == {At("cat", "C")}
BobToAnn == [A |-> [ann |-> At("", ""), bob |-> At("ann", "A")]]
BobCat == [b \in A3 |-> [h \in AnnBobCat |->
             CASE b = "C" /\ h = "cat" -> At("bob", "B") [] b = "B" /\ h = "bob" -> At("cat", "C") [] OTHER -> At("", "")]]
Some == {<<>>, <<[lo |-> 2, hi |-> 2]>>, <<[lo |-> 1, hi |-> 0]>>}
NobodyOn == [A |-> <<>>]
AnnOn == [A |-> <<[hand |-> "ann", sock |-> 1, away |-> FALSE]>>, B |-> <<>>, C |-> <<>>]
InFile == {"files", "handles", "ignores"}
OnLinks == {"links"}
ofNotes == <<users, fwd, ignores, party, notefile, tandbot, privs, ends, told, sent, noted>>

NA == INSTANCE Notes WITH Bots <- A1, Hop <- Alone, Hands <- AnnBob, BotHands <- Nobody, Known <- OnA,
        Addresses <- ToAnnBob, Forwards <- BobToAnn, Bound <- Nobody, Erasures <- Some, Online <- NobodyOn,
        Changes <- InFile, MaxNotes <- 1, MaxSends <- 2, MaxOps <- 2, dcc <- party, wire <- privs, ops <- noted
NB == INSTANCE Notes WITH Bots <- A3, Hop <- InLine, Hands <- AnnBobCat, BotHands <- Nobody, Known <- OneEach,
        Addresses <- ToCat, Forwards <- BobCat, Bound <- Nobody, Erasures <- Some, Online <- AnnOn,
        Changes <- OnLinks, MaxNotes <- 1, MaxSends <- 2, MaxOps <- 1, dcc <- party, wire <- privs, ops <- noted

-----------------------------------------------------------------------------
(* A component's variables keep their first value in the other parts. *)
all == <<part, ofDns, ofUsers, ofMasks, ofFiles, ofChans, ofNotes>>

DnsParts == {"lookups", "callbacks", "IPv6 lookups"}
UserParts == {"recognition", "sessions"}
MaskParts == {"bans", "exempts", "invites", "shared bans", "ignores"}
FileParts == {"one directory", "two directories"}
ChanParts == {"settings", "settings of scripts"}
NoteParts == {"note file", "notes on the way"}

InitAll ==
  /\ part \in DnsParts \cup UserParts \cup MaskParts \cup FileParts \cup ChanParts \cup NoteParts
  /\ CASE part = "callbacks" -> E!Init [] part = "IPv6 lookups" -> G!Init [] OTHER -> D!Init
  /\ IF part = "sessions" THEN V!Init ELSE U!Init
  /\ CASE part = "exempts" -> MB!Init [] part = "invites" -> MC!Init [] part = "shared bans" -> MD!Init
       [] part = "ignores" -> ME!Init [] OTHER -> MA!Init
  /\ IF part = "two directories" THEN FB!Init ELSE FA!Init /\ (part \in FileParts \/ real[TopDir] = {})
  /\ IF part = "settings of scripts" THEN CB!Init ELSE CA!Init
  /\ IF part = "notes on the way" THEN NB!Init ELSE NA!Init

NextAll ==
  /\ UNCHANGED part
  /\ \/ part = "lookups" /\ D!Next
     \/ part = "callbacks" /\ E!Next
     \/ part = "IPv6 lookups" /\ G!Next
     \/ part \notin DnsParts /\ UNCHANGED ofDns
  /\ \/ part = "recognition" /\ U!Next
     \/ part = "sessions" /\ V!Next
     \/ part \notin UserParts /\ UNCHANGED ofUsers
  /\ \/ part = "bans" /\ MA!Next
     \/ part = "exempts" /\ MB!Next
     \/ part = "invites" /\ MC!Next
     \/ part = "shared bans" /\ MD!Next
     \/ part = "ignores" /\ ME!Next
     \/ part \notin MaskParts /\ UNCHANGED ofMasks
  /\ \/ part = "one directory" /\ FA!Next
     \/ part = "two directories" /\ FB!Next
     \/ part \notin FileParts /\ UNCHANGED ofFiles
  /\ \/ part = "settings" /\ CA!Next
     \/ part = "settings of scripts" /\ CB!Next
     \/ part \notin ChanParts /\ UNCHANGED ofChans
  /\ \/ part = "note file" /\ NA!Next
     \/ part = "notes on the way" /\ NB!Next
     \/ part \notin NoteParts /\ UNCHANGED ofNotes

SpecAll ==
  /\ InitAll /\ [][NextAll]_all
  /\ \A key \in Ips \cup Hosts : WF_resolves(part \in DnsParts /\ D!Times(key))

-----------------------------------------------------------------------------
(* Each component's properties, for its nets.  What each of them says is     *)
(* told in its module.                                                       *)

\* Names and addresses: who waits is awaited, by what will come; answers reach those who asked.
NamesKept ==
  /\ part = "lookups" => D!TypeOK /\ D!EventsAwaited /\ D!HeldAreAwaited
                          /\ D!AnswersMatch /\ D!NoneForgotten
  /\ part = "callbacks" => E!TypeOK /\ E!EventsAwaited /\ E!HeldAreAwaited
                            /\ E!AnswersMatch /\ E!NoneForgotten
  /\ part = "IPv6 lookups" => G!TypeOK /\ G!EventsAwaited /\ G!HeldAreAwaited
                               /\ G!AnswersMatch /\ G!NoneForgotten
\* Whoever has asked is told, in the end.
AllAnswered ==
  /\ \A x \in Two \cup ToLit \cup T1 :
       (part = "lookups" /\ got[x] = {D!Began(x)})
         ~> (part = "lookups" => got[x] # {D!Began(x)} \/ ~D!Held(x))
  /\ \A x \in One \cup ToHost \cup T24 :
       (part = "callbacks" /\ got[x] = {E!Began(x)})
         ~> (part = "callbacks" => got[x] # {E!Began(x)} \/ ~E!Held(x))
  /\ \A x \in Two \cup T1 :
       (part = "IPv6 lookups" /\ got[x] = {G!Began(x)})
         ~> (part = "IPv6 lookups" => got[x] # {G!Began(x)} \/ ~G!Held(x))

\* User records: no pointer outlives its record, a handle names one record, and whom somebody
\* is taken for is who he is.
RecordsKept ==
  /\ part = "recognition" => U!TypeOK /\ U!NoDangling /\ U!HandlesUnique /\ U!CacheHonest /\ U!LookupHonest
  /\ part = "sessions" => V!TypeOK /\ V!NoDangling /\ V!HandlesUnique /\ V!CacheHonest /\ V!LookupHonest

\* Bans and their like: one record of a mask, also when the file is read again; two bots that share agree.
MasksKept ==
  /\ part = "bans" => MA!TypeOK /\ MA!NoTwins
  /\ part = "exempts" => MB!TypeOK /\ MB!NoTwins
  /\ part = "invites" => MC!TypeOK /\ MC!NoTwins
  /\ part = "shared bans" => MD!TypeOK /\ MD!NoTwins /\ MD!BotsAgree
  /\ part = "ignores" => ME!TypeOK /\ ME!NoTwins /\ ME!BotsAgree

\* The file area: a directory's database can be read from its top to its end and names each file
\* once; nothing is lost but what a command is about, or what has gone.
FilesKept ==
  /\ part = "one directory" => FA!TypeOK /\ FA!Tiled /\ FA!NamesOnce
  /\ part = "two directories" => FB!TypeOK /\ FB!Tiled /\ FB!NamesOnce

\* Channels: what is written of them makes them again, and nothing else undoes a setting or
\* removes a channel, a rehash and a restart included.
ChannelsKept ==
  /\ part = "settings" => CA!TypeOK /\ CA!SaveRestores /\ CA!ViewsSame
  /\ part = "settings of scripts" => CB!TypeOK /\ CB!SaveRestores /\ CB!ViewsSame

\* Notes: each is in one place, its sender is told the truth, none goes in a circle, and a
\* number means the same to all commands; a note leaves a file only by its owner, or by age.
NotesKept ==
  /\ part = "note file" => NA!TypeOK /\ NA!Accounted /\ NA!Honest /\ NA!ViewsSame
  /\ part = "notes on the way" => NB!TypeOK /\ NB!Accounted /\ NB!Honest /\ NB!NoCircle

\* What a step is not about stays: a hub's file replaces only what is the hub's; an exempt outlives
\* the ban it is there for; nothing leaves a file area's database, the channel file, or the
\* note file but what a command, or age, takes from it.
OthersKeep ==
  [][/\ part = "sessions" => \A file \in HubFile, readable \in BOOLEAN :
                               V!ShareFile(file, FALSE, readable) => V!KeptBy(readable)
     /\ part = "exempts" => (MB!CheckExpired("hub", "exempt") => MB!ExemptStays("hub"))
     /\ part = "one directory" => FA!EntriesStay
     /\ part = "two directories" => FB!EntriesStay
     /\ part = "settings" => CA!FileKeeps
     /\ part = "settings of scripts" => CB!FileKeeps
     /\ part = "note file" => NA!FileKeeps]_all
\* The number given to -ban and its like means the entry that is shown with it.
NumbersMean ==
  [][/\ part = "bans" => \A n \in 1..3 : MA!MnsByNumber("hub", "ban", "#a", n, TRUE, TRUE)
                                            => MA!NumberMeans("hub", "ban", "#a", n)
     /\ part = "invites" => \A n \in 1..3 : MC!MnsByNumber("hub", "invite", "#a", n, TRUE, TRUE)
                                            => MC!NumberMeans("hub", "invite", "#a", n)]_all
=============================================================================
