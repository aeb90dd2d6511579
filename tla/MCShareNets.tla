----------------------------- MODULE MCShareNets -----------------------------
(* Four nets checked in one run: net says which.  Two hubs, a bot that takes   *)
(* its list from either and that bot's leaf stand in Share's own variables; a  *)
(* hub and a leaf, three times, in the others.                                 *)
EXTENDS MCShare

CONSTANTS PairMasks, PairBots, BasicEdits, ResyncEdits, ReloadEdits, PairLinks

VARIABLES net, pList, pLoaded, pLink, pWire, pFile, pEdits, pLinks

pair == <<pList, pLoaded, pLink, pWire, pFile, pEdits, pLinks>>

PairWriters == [r \in Users \cup PairMasks |-> IF r \in Users THEN {"hub"} ELSE {"leaf"}]

HubWritesAll == [r \in Users \cup PairMasks \cup PairBots |-> {"hub"}]
AtHub == {"hub"}
Both == {"hub", "leaf"}
AtLeaf == {"leaf"}
None == {}
Yes == TRUE
No == FALSE

\* A hub and a leaf whose transfers fail, and a hub that unloads the module and repeats its offer.
B == INSTANCE Share WITH
       list <- pList, loaded <- pLoaded, link <- pLink, wire <- pWire, file <- pFile,
       edits <- pEdits, links <- pLinks, Bots <- Both,
       Pairs <- HubLeaf, Masks <- PairMasks, BotRecs <- PairBots,
       Writers <- HubWritesAll, Reloaders <- None, Unloaders <- AtHub, Keen <- AtHub,
       Breakable <- AtHub, MayFail <- Yes, MaxEdits <- BasicEdits, MaxLinks <- PairLinks

\* A hub and a leaf that both keep a resync buffer, on a link that is lost when silent.
S == INSTANCE Share WITH
       list <- pList, loaded <- pLoaded, link <- pLink, wire <- pWire, file <- pFile,
       edits <- pEdits, links <- pLinks, Bots <- Both,
       Pairs <- HubLeaf, Masks <- PairMasks, Writers <- PairWriters,
       AllowResync <- Both, Reloaders <- None, Breakable <- AtHub, Lossy <- No,
       MaxEdits <- ResyncEdits, MaxLinks <- PairLinks

\* A hub and a leaf that both reload their user file at any moment.
L == INSTANCE Share WITH
       list <- pList, loaded <- pLoaded, link <- pLink, wire <- pWire, file <- pFile,
       edits <- pEdits, links <- pLinks, Bots <- Both,
       Pairs <- HubLeaf, Masks <- PairMasks, Writers <- PairWriters,
       Reloaders <- Both, Unloaders <- AtLeaf, Breakable <- AtHub,
       MaxEdits <- ReloadEdits, MaxLinks <- PairLinks

PairIdle ==
  /\ pList = <<>> /\ pLoaded = {} /\ pLink = <<>> /\ pWire = <<>> /\ pFile = <<>>
  /\ pEdits = 0 /\ pLinks = 0

InitNets ==
  \/ net = "hubs" /\ Init /\ PairIdle
  \/ /\ Init
     /\ \/ net = "basic" /\ B!Init
        \/ net = "resync" /\ S!Init
        \/ net = "reload" /\ L!Init

NextNets ==
  \/ net = "hubs" /\ Next /\ UNCHANGED <<net, pair>>
  \/ /\ UNCHANGED <<net, vars>>
     /\ \/ net = "basic" /\ B!Next
        \/ net = "resync" /\ S!Next
        \/ net = "reload" /\ L!Next

all == <<vars, pair, net>>
OfReload(A) == net = "reload" /\ A /\ UNCHANGED <<net, vars>>

\* Share's Fairness, for the net whose liveness is checked.
SpecNets ==
  /\ InitNets /\ [][NextNets]_all
  /\ WF_all(OfReload(L!LinkUp("hub", "leaf")))
  /\ WF_all(OfReload(\E k \in DOMAIN pFile[<<"hub", "leaf">>] : L!Files(<<"hub", "leaf">>, k)))
  /\ WF_all(OfReload(L!Minutely("hub"))) /\ WF_all(OfReload(L!Minutely("leaf")))
  /\ WF_all(OfReload(L!Closing("hub", "leaf"))) /\ WF_all(OfReload(L!Closing("leaf", "hub")))
  /\ WF_all(OfReload(L!ShareIn("hub", "leaf"))) /\ WF_all(OfReload(L!ShareIn("leaf", "hub")))

\* Share's properties, each for the net in question.
InSyncNets ==
  /\ (net = "hubs" => InSync) /\ (net = "basic" => B!TypeOK /\ B!InSync)
  /\ (net = "resync" => S!InSync) /\ (net = "reload" => L!InSync)
EndsAgreeNets ==
  /\ (net = "hubs" => EndsAgree) /\ (net = "basic" => B!EndsAgree /\ B!FilesHaveLinks)
  /\ (net = "resync" => S!EndsAgree) /\ (net = "reload" => L!EndsAgree /\ L!OnlyHubsOffer)
SettlesNets ==
  <>[](net = "reload" /\ pLink["hub"]["leaf"].up /\ {"hub", "leaf"} \subseteq pLoaded =>
         /\ L!Still(<<"hub", "leaf">>)
         /\ L!Shares("hub", "leaf") /\ L!Shares("leaf", "hub") /\ L!Same(<<"hub", "leaf">>))
=============================================================================
