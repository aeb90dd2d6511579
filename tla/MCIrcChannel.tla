---------------------------- MODULE MCIrcChannel ----------------------------
(* Channels for TLC, checked in one run: net says which.  The constants of the *)
(* configuration are what they have in common; each channel has its own users, *)
(* settings and events.                                                        *)
EXTENDS IrcChannel

CONSTANTS UserEvents, OpEvents, MaxUserEvents, MaxOpEvents

VARIABLE net

FlagsAt == [h \in Users \cup {Bot} |->
  CASE h = "hop"   -> {"op", "autoop"}
    [] h = "hbad"  -> {"deop"}
    [] h = "hhalf" -> {"halfop", "autohalfop"}
    [] h = "hvoi"  -> {"voice", "gvoice"}
    [] h = "hkick" -> {"kick"}
    [] OTHER -> {}]
NicksAt == [h \in Users \cup {Bot} |->
  CASE h = "hop" -> "op" [] h = "hman" -> "man" [] h = "hbad" -> "bad" [] h = "hhalf" -> "half"
    [] h = "hvoi" -> "voi" [] h = "hkick" -> "kick" [] OTHER -> "bot"]
MaskHosts == [m \in Masks \cup Exempts |->
  CASE m = "bbad" -> {"hbad"} [] m = "bkick" -> {"hkick"} [] OTHER -> Users]

\* Each channel's users, nicks, settings and events.
HopMan == {"hop", "hman"}
HopManNicks == {"bot", "op", "man"}
HopManNew == HopManNicks \cup {"new"}
HopBad == {"hop", "hbad"}
HopBadNicks == {"bot", "op", "bad"}
HopVoi == {"hop", "hvoi"}
HopVoiNicks == {"bot", "op", "voi"}
HopManVoi == {"hop", "hman", "hvoi"}
HopManVoiNicks == {"bot", "op", "man", "voi"}
HopOnly == [h \in HopManVoi \cup {Bot} |-> IF h = "hop" THEN FlagsAt[h] ELSE {}]
HopHalf == {"hop", "hhalf"}
HopHalfNicks == {"bot", "op", "half"}
HopKick == {"hop", "hkick"}
HopKickNicks == {"bot", "op", "kick", "new"}
Hop == {"hop"}
HopNicks == {"bot", "op"}
Enforce == {"enforcebans"}
Bitch == {"bitch"}
EnforceBitch == {"enforcebans", "bitch"}
BitchProtect == {"bitch", "protectops"}
Cycle == {"cycle"}
Dynamic == {"enforcebans", "dynamicbans", "dynamicexempts", "nouserbans", "nouserexempts"}
OpLossEvents == OpEvents \cup {"mode -o bot"}
BanEvents    == OpEvents \cup {"mode +b", "mode -b"}
ExemptEvents == {"join", "mode +o bot", "mode +b", "mode -b", "mode +e", "mode -e"}
HalfEvents   == OpEvents \cup {"mode +h", "mode -h"}
KickEvents   == {"join", "nick", "mode +o bot", "mode +t", "mode -t"}
HackEvents   == {"split", "mode +o bot"}
DeopEvents   == {"join", "mode -o", "mode +o bot", "mode -o bot"}
AloneEvents  == {"join", "part", "kick"}
BBad == {"bbad"}
BKick == {"bkick"}
BAll == {"ball"}
EAll == {"eall"}

\* Members come, go, are renamed, kicked and lost in splits.
M == INSTANCE IrcChannel WITH
       Users <- HopMan, Nicks <- HopManNew, Masks <- {}, Exempts <- {},
       Settings <- Enforce, Events <- UserEvents, MaxEvents <- MaxUserEvents
\* Ops are made and unmade, the bot too.
O == INSTANCE IrcChannel WITH
       Users <- HopMan, Nicks <- HopManNicks, Masks <- {}, Exempts <- {},
       Settings <- Enforce, Events <- OpLossEvents, MaxEvents <- MaxOpEvents
\* The bot is opped and deopped while others are.
D == INSTANCE IrcChannel WITH
       Users <- HopManVoi, Nicks <- HopManVoiNicks, Masks <- {}, Exempts <- {},
       Flags <- HopOnly, Settings <- {}, Events <- DeopEvents, MaxEvents <- MaxOpEvents + 1
\* A sticky ban, and a user who must not be op.
B == INSTANCE IrcChannel WITH
       Users <- HopBad, Nicks <- HopBadNicks, Masks <- BBad, Exempts <- {},
       Listed <- BBad, Sticky <- BBad, Settings <- EnforceBitch,
       Events <- BanEvents, MaxEvents <- MaxOpEvents
\* Dynamic bans and exempts, no bans by users, and voices given after a delay.
E == INSTANCE IrcChannel WITH
       Users <- HopVoi, Nicks <- HopVoiNicks, Masks <- BAll, Exempts <- EAll,
       Listed <- EAll, OpDelay <- TRUE, Settings <- Dynamic, Events <- ExemptEvents,
       MaxEvents <- MaxOpEvents
\* Halfops.
H == INSTANCE IrcChannel WITH
       Users <- HopHalf, Nicks <- HopHalfNicks, Masks <- {}, Exempts <- {},
       Settings <- BitchProtect, Events <- HalfEvents, MaxEvents <- MaxOpEvents
\* A user who is to be kicked, and changes nick.
K == INSTANCE IrcChannel WITH
       Users <- HopKick, Nicks <- HopKickNicks, Masks <- BKick,
       Exempts <- {}, Settings <- Bitch, Events <- KickEvents, MaxEvents <- MaxOpEvents
\* Ops given back by a server after a split.
N == INSTANCE IrcChannel WITH
       Users <- HopMan, Nicks <- HopManNicks, Masks <- {}, Exempts <- {},
       Settings <- {}, StopNetHack <- 4, Events <- HackEvents, MaxEvents <- 2
\* One other user; the bot comes back when it is kicked, and when it is alone without op.
A == INSTANCE IrcChannel WITH
       Users <- Hop, Nicks <- HopNicks, Masks <- {}, Exempts <- {},
       Settings <- Cycle, Events <- AloneEvents, MaxEvents <- MaxUserEvents

InitNets ==
  \/ net = "members" /\ M!Init /\ \E h \in DOMAIN here : {g \in DOMAIN here : here[g].modes = {"o"}} = {h}
  \/ net = "ops" /\ O!Init
  \/ net = "deops" /\ D!Init /\ DOMAIN here = {"hman", "hvoi"} /\ \A h \in DOMAIN here : "o" \in here[h].modes
  \/ net = "bans" /\ B!Init
  \/ net = "exempts" /\ E!Init
  \/ net = "halfops" /\ H!Init
  \/ net = "kicks" /\ K!Init
  \/ net = "hack" /\ N!Init
  \/ net = "alone" /\ A!Init

NextNets ==
  \/ net = "members" /\ M!Next /\ UNCHANGED net
  \/ net = "ops" /\ O!Next /\ UNCHANGED net
  \/ net = "deops" /\ D!Next /\ UNCHANGED net
  \/ net = "bans" /\ B!Next /\ UNCHANGED net
  \/ net = "exempts" /\ E!Next /\ UNCHANGED net
  \/ net = "halfops" /\ H!Next /\ UNCHANGED net
  \/ net = "kicks" /\ K!Next /\ UNCHANGED net
  \/ net = "hack" /\ N!Next /\ UNCHANGED net
  \/ net = "alone" /\ A!Next /\ UNCHANGED net

all == <<vars, net>>
Alone(X) == net = "alone" /\ X /\ UNCHANGED net
\* A line is taken from toBot only by Reads, which TLC need not compute to see that it is enabled.
SpecNets ==
  /\ InitNets /\ [][NextNets]_all
  /\ WF_toBot(net = "alone" /\ toBot # <<>> /\ toBot' = Tail(toBot)) /\ WF_all(Alone(A!Idle)) /\ WF_all(Alone(A!Minute))
  /\ WF_all(Alone(A!ServerReads))

\* One channel, as the configuration describes it.
OneChannel == Init /\ net = "one" /\ [][Next /\ UNCHANGED net]_all

\* IrcChannel's properties: the bot knows who is there with which modes, and which masks are
\* set; what it has sent is answered or forgotten, and none of it is taken for a desync.
StateKnown == TypeOK /\ AllKnown /\ NoGhosts /\ MasksAgree
ModesKnown == NoStuckSent /\ NoFalseDesync
\* IrcChannel's PolicyHolds, where the bot has a policy.
PolicyHoldsNets == (net = "bans" => B!PolicyHolds) /\ (net = "kicks" => K!PolicyHolds)
\* IrcChannel's Rejoins.
RejoinsNets == <>[](net = "alone" => "active" \in chan.status /\ Bot \in DOMAIN here)
=============================================================================
