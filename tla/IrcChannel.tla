------------------------------ MODULE IrcChannel ------------------------------
(***************************************************************************)
(* What the bot knows of an IRC channel, and what it does there (irc.mod): *)
(* the members and their op, halfop and voice, the bans, the modes it has  *)
(* queued and those it has sent and not seen come back.                    *)
(*                                                                         *)
(* The server's channel is modelled too: what the bot reads is what        *)
(* happened there, in that order but later; what it sends is obeyed only   *)
(* if it is still op when it arrives.  A handler of one line is one        *)
(* action: GotX(c, ..) is the channel record c as the handler leaves it,   *)
(* with the lines it sent in c.out.                                        *)
(*                                                                         *)
(* Global and channel flags of a user are taken together.  Left out: flood *)
(* protection, revenge, bouncing of server modes, invites, Tcl binds.      *)
(***************************************************************************)
EXTENDS Integers, Sequences, FiniteSets, SequencesExt, FiniteSetsExt, Functions

CONSTANTS
  Bot, Users,       \* the hosts: the bot's and the others'
  Nicks, NickAt,    \* the nicks, and the one each host starts with
  Flags,            \* Flags[h]: the flags of the user record that matches host h
  Settings,         \* the channel's settings that are on
  StopNetHack,      \* stopnethack-mode
  Masks, Exempts,   \* the ban and exempt masks,
  Matches,          \*   the hosts that each of them matches
  Listed, Sticky,   \* the masks of the bot's own lists, and the sticky ones
  Letters, Pls, Mns,\* the channel's other modes, and those that chanmode enforces
  ModesPerLine, PreventMixing,
  OpDelay,          \* whether aop-delay is set
  Events, MaxEvents \* what others do, and how often

Status == {"o", "h", "v"}

ASSUME IrcAssumption ==
  /\ Bot \notin Users
  /\ \A g, h \in Users \cup {Bot} : NickAt[g] \in Nicks /\ (g # h => NickAt[g] # NickAt[h])
  /\ \A h \in Users \cup {Bot} : Flags[h] \in SUBSET STRING
  /\ DOMAIN Matches = Masks \cup Exempts
  /\ Sticky \subseteq Listed /\ Listed \subseteq Masks \cup Exempts
  /\ Pls \cup Mns \subseteq Letters /\ Pls \cap Mns = {}
  /\ ModesPerLine \in 1..6 /\ StopNetHack \in 0..6

VARIABLES
  chan,    \* the bot's record of the channel, struct chanset_t
  modeq, mq, \* the lines for the server, DP_MODE and DP_SERVER
  toBot,   \* the server's lines that the bot has not read
  here,    \* here[h]: the nick and the modes of host h on the server's channel
  set,     \* the bans, exempts and other modes set there
  away,    \* the hosts lost in a netsplit, with their modes
  events

vars == <<chan, modeq, mq, toBot, here, set, away, events>>

Me == NickAt[Bot]

KickSent == <<"kick", "">>
NewMember(h) == [host |-> h, has |-> {}, sent |-> {}, marks |-> {}]

\* Nothing known.  cmode is the buffer of modes to be sent; compat and rev are
\* chan->compat and the static reversing; out holds what a handler sends, uncancelled what was
\* not taken for lost when the bot lost its op.
NoChannel == [status |-> {}, member |-> <<>>, mask |-> {}, mode |-> {},
              cmode |-> <<>>, compat |-> 0, rev |-> FALSE, uncancelled |-> {},
              out |-> [modeq |-> <<>>, mq |-> <<>>]]

Change(s, m, a) == [sign |-> s, mode |-> m, arg |-> a]
Sends(c, q, l)  == [c EXCEPT !.out[q] = Append(@, l)]
KindOf(m) == IF m \in Masks THEN "b" ELSE "e"

MeOp(c)     == Me \in DOMAIN c.member /\ "o" \in c.member[Me].has
MeHalfop(c) == Me \in DOMAIN c.member /\ "h" \in c.member[Me].has

\* HALFOP_CANDOMODE; and whether the bot may act against nick n.
CanDo(c, md) == MeOp(c) \/ (MeHalfop(c) /\ md \notin {"a", "h", "o", "q"})
CanKick(c, n) == MeOp(c) \/ (MeHalfop(c) /\ "o" \notin c.member[n].has)

FlagsOf(h) == IF h \in DOMAIN Flags THEN Flags[h] ELSE {}
UserOf(c, n) == Flags[c.member[n].host]
\* An exempt that is set on the channel covers h.
IsExempted(c, h) == \E e \in c.mask \cap Exempts : h \in Matches[e]
\* One of the bot's own lists covers h.
ListExempts(h) == \E e \in Listed \cap Exempts : h \in Matches[e]
ListBans(h)    == \E b \in Listed \cap Masks : h \in Matches[b]

-----------------------------------------------------------------------------
(* The mode buffer *)

\* flush_mode: removals first.
FlushMode(c, q) ==
  LET minus == SelectSeq(c.cmode, LAMBDA x : x.sign = "-")
      plus  == SelectSeq(c.cmode, LAMBDA x : x.sign = "+")
      d     == [c EXCEPT !.cmode = <<>>, !.compat = 0]
  IN  IF c.cmode = <<>> THEN d ELSE Sends(d, q, [cmd |-> "mode", chg |-> minus \o plus])

\* prevent-mixing: exempts and the other modes go on lines of their own.
Compat(c, md) ==
  LET class == IF md \in {"e", "I"} THEN 2 ELSE 1
  IN  IF c.compat = 0 THEN [c EXCEPT !.compat = class]
      ELSE IF PreventMixing /\ c.compat # class THEN FlushMode(c, "mq") ELSE c

\* Mutant: the buffer is never full.
StoreAll(c, x) == IF x \in Range(c.cmode) THEN c ELSE [c EXCEPT !.cmode = Append(@, x)]

\* A change is stored once; a full buffer is sent.  Letters do not fill it.
Store(c, x) ==
  LET d == [c EXCEPT !.cmode = Append(@, x)]
  IN  IF x \in Range(c.cmode) THEN c
      ELSE IF Cardinality({k \in DOMAIN d.cmode : d.cmode[k].mode \notin Letters}) >= ModesPerLine
           THEN FlushMode(d, "modeq") ELSE d

StoreUnless(isSet, c, x) == IF isSet THEN c ELSE Store(c, x)

\* real_add_mode.
AddMode(c, s, md, a) ==
  LET m == c.member[a]
      pointless == /\ md \in Status
                   /\ \/ a \notin DOMAIN c.member
                      \/ <<s, md>> \in m.sent \/ (s = "+") = (md \in m.has)
      isSet == md \in {"b", "e"} /\ (s = "+") = (a \in c.mask)
      d == IF md \in Status THEN [c EXCEPT !.member[a].sent = @ \cup {<<s, md>>}] ELSE c
  IN  IF ~CanDo(c, md) \/ pointless THEN c
      ELSE StoreUnless(isSet, Compat(d, md), Change(s, md, a))

AddModes(c, xs) == FoldLeft(LAMBDA d, x : AddMode(d, x.sign, x.mode, x.arg), c, xs)
Each(S, Op(_)) == SetToSeq({Op(x) : x \in S})

-----------------------------------------------------------------------------
(* Bans, kicks and checks *)

\* refresh_who_chan, with CHAN_PEND.
RefreshWho(c) == Sends([c EXCEPT !.status = @ \cup {"pend"}], "modeq", [cmd |-> "who"])

Kicks(c, q, ns) ==
  LET d == [c EXCEPT !.member = [n \in DOMAIN @ |->
              IF n \in ns THEN [@[n] EXCEPT !.sent = @ \cup {KickSent}] ELSE @[n]]]
  IN  Sends(d, q, [cmd |-> "kick", nicks |-> ns])

Friends(fs) == "friend" \in fs
DontKick(fs) == "dontkickops" \in Settings /\ "op" \in fs

\* kick_all: those a mask matches, but for friends and the exempted.
KickAll(c, mask, byOther) ==
  LET Spared(n) == \/ KickSent \in c.member[n].sent \/ n = Me \/ "split" \in c.member[n].marks
                   \/ Friends(UserOf(c, n)) \/ DontKick(UserOf(c, n))
                   \/ byOther /\ IsExempted(c, c.member[n].host)
                   \/ ListExempts(c.member[n].host)
      out == {n \in DOMAIN c.member : /\ c.member[n].host \in Matches[mask]
                                      /\ ~Spared(n) /\ CanKick(c, n)}
  IN  IF out = {} THEN c ELSE Kicks(FlushMode(c, "modeq"), "mq", out)

\* check_exemptlist: exempts in the way of a ban are removed.
CheckExemptlist(c, h) ==
  LET inWay == {e \in c.mask \cap Exempts : h \in Matches[e]}
      d     == AddModes(c, Each(inWay, LAMBDA e : Change("-", "e", e)))
  IN  IF inWay # {} /\ PreventMixing THEN FlushMode(d, "modeq") ELSE d

\* do_mask: a mask replaces those that it covers.
DoMask(c, mask) ==
  LET covered == {x \in c.mask : /\ x # mask /\ KindOf(x) = KindOf(mask)
                                 /\ Matches[x] \subseteq Matches[mask]}
      d == AddModes(c, Each(covered, LAMBDA x : Change("-", KindOf(x), x)))
  IN  FlushMode(AddMode(d, "+", KindOf(mask), mask), "modeq")

\* refresh_ban_kick: the first of the bot's own bans that covers n.
RefreshBanKick(c, n) ==
  LET h    == c.member[n].host
      bans == {b \in Listed \cap Masks : h \in Matches[b]}
      b    == CHOOSE b \in bans : TRUE
  IN  IF bans = {} \/ KickSent \in c.member[n].sent \/ Friends(UserOf(c, n)) THEN c
      ELSE KickAll(DoMask(CheckExemptlist(AddMode(c, "-", "o", n), h), b), b, FALSE)

\* enforce_bans.
EnforceBans(c) ==
  LET bans == {b \in c.mask \cap Masks :
                 /\ Bot \notin Matches[b]
                 /\ \A e \in c.mask \cap Exempts : ~(Matches[b] \subseteq Matches[e])}
  IN  IF CanDo(c, "b") THEN FoldLeft(LAMBDA d, b : KickAll(d, b, TRUE), c, SetToSeq(bans)) ELSE c

\* recheck_bans and recheck_exempts: dynamic masks are set only if sticky.
RecheckBans(c) ==
  LET due == {b \in Listed \cap Masks : b \notin c.mask /\ ("dynamicbans" \notin Settings \/ b \in Sticky)}
  IN  AddModes(c, Each(due, LAMBDA b : Change("+", "b", b)))
RecheckExempts(c) ==
  LET due == {e \in Listed \cap Exempts :
                /\ e \notin c.mask
                /\ \/ "dynamicexempts" \notin Settings \/ e \in Sticky
                   \/ \E b \in c.mask \cap Masks : Matches[b] \cap Matches[e] # {}}
  IN  AddModes(c, Each(due, LAMBDA e : Change("+", "e", e)))

\* resetmasks: what is not on the bot's lists is removed; what is on them is then looked at as
\* it is without (and nothing can be set that cannot be removed).
ResetMasks(c, masks, kind) ==
  IF CanDo(c, "b") THEN AddModes(c, Each((c.mask \cap masks) \ Listed, LAMBDA x : Change("-", kind, x)))
  ELSE c

\* recheck_channel_modes.
RecheckModes(c) ==
  IF "askedmodes" \in c.status THEN c
  ELSE AddModes(c, Each(Pls \ c.mode, LAMBDA l : Change("+", l, ""))
                   \o Each(Mns \cap c.mode, LAMBDA l : Change("-", l, "")))

Delay(c, n, s) == [c EXCEPT !.member[n].marks = @ \cup {"delay"}, !.member[n].sent = @ \cup {s}]

\* At once, or after aop-delay.
Gives(c, n, md, checked) ==
  IF OpDelay THEN Delay(c, n, <<"+", md>>)
  ELSE IF checked /\ "stopcheck" \in c.member[n].marks THEN c
  ELSE AddMode(c, "+", md, n)

Bad(md)  == CASE md = "o" -> "deop" [] md = "h" -> "dehalfop" [] md = "v" -> "quiet"
Good(md) == CASE md = "o" -> "op" [] md = "h" -> "halfop" [] md = "v" -> "voice"
Auto(md, fs) == \/ md = "o" /\ ("autoop" \in Settings \/ "autoop" \in fs)
                \/ md = "h" /\ ("autohalfop" \in Settings \/ "autohalfop" \in fs)
                \/ md = "v" /\ ("autovoice" \in Settings \/ "gvoice" \in fs)

QuickMask(h) == CHOOSE b \in Masks : Matches[b] = {h}

\* Whoever has the kick flag is banned and kicked.
KickFlagged(c, n, q) ==
  IF "kick" \in UserOf(c, n) /\ KickSent \notin c.member[n].sent /\ CanKick(c, n)
  THEN Kicks(DoMask(CheckExemptlist(c, c.member[n].host), QuickMask(c.member[n].host)), q, {n})
  ELSE c

\* check_this_member, one part after the other.
Takes(c, n, md, wrong) ==
  IF wrong /\ md \in c.member[n].has /\ "stopcheck" \notin c.member[n].marks
  THEN AddMode(c, "-", md, n) ELSE c
GivesIf(c, n, md, right) == IF right THEN Gives(c, n, md, TRUE) ELSE c
CheckOp(c, n) ==
  LET m == c.member[n]  fs == UserOf(c, n)
      both == "o" \in m.has /\ "opboth" \in fs /\ "bitch" \in Settings
      wrong == "deop" \in fs \/ ("bitch" \in Settings /\ "op" \notin fs)
  IN  IF ~CanDo(c, "o") THEN c
      ELSE IF both /\ OpDelay THEN Delay(Takes(c, n, "o", wrong), n, <<"+", "o">>)
      ELSE Takes(c, n, "o", wrong \/ both)
CheckHalfop(c, n) ==
  LET m == c.member[n]  fs == UserOf(c, n)
      right == <<"+", "o">> \notin m.sent /\ m.has \cap {"o", "h"} = {} /\ "halfop" \in fs /\ Auto("h", fs)
      wrong == "dehalfop" \in fs \/ ("bitch" \in Settings /\ "halfop" \notin fs)
  IN  IF CanDo(c, "h") THEN GivesIf(Takes(c, n, "h", wrong), n, "h", right) ELSE c
CheckVoice(c, n) ==
  LET m == c.member[n]  fs == UserOf(c, n)
      right == m.has = {} /\ "voice" \in fs /\ Auto("v", fs)
  IN  IF CanDo(c, "v") THEN GivesIf(Takes(c, n, "v", "quiet" \in fs), n, "v", right) ELSE c
CheckBanned(c, n) ==
  IF "stopcheck" \in c.member[n].marks \/ ~CanDo(c, "b") \/ ListExempts(c.member[n].host) THEN c
  ELSE KickFlagged(RefreshBanKick(c, n), n, "mq")

CheckThisMember(c, n) ==
  IF n \notin DOMAIN c.member \ {Me} \/ ~(MeOp(c) \/ MeHalfop(c)) THEN c
  ELSE CheckBanned(CheckVoice(CheckHalfop(CheckOp(c, n), n), n), n)

\* recheck_channel: all members, then the masks and the modes.
RecheckLists(c, keep) ==
  LET Own(x, flag, masks, kind) == IF flag \in Settings /\ ~keep THEN ResetMasks(x, masks, kind) ELSE x
  IN  RecheckExempts(Own(RecheckBans(Own(c, "nouserbans", Masks, "b")), "nouserexempts", Exempts, "e"))
Enforced(c) == IF "enforcebans" \in Settings THEN EnforceBans(c) ELSE c
AsksAgain(c) == IF "askedmodes" \in c.status THEN Sends(c, "modeq", [cmd |-> "modes"]) ELSE c
RecheckChannel(c) ==
  LET d == FoldLeft(LAMBDA x, n :
             CheckThisMember([x EXCEPT !.member[n].sent = @ \ {<<"+", "h">>, KickSent}], n),
             c, SetToSeq(DOMAIN c.member))
      keep == \E n \in DOMAIN c.member \ {Me} : "bot" \in UserOf(c, n) /\ "o" \in c.member[n].has
  IN  RecheckModes(AsksAgain(Enforced(RecheckLists(d, keep))))

-----------------------------------------------------------------------------
(* Joining and learning about the channel *)

\* clear_channel.  The mode buffer stays.
Clear(c) == [c EXCEPT !.member = <<>>, !.mask = {}, !.mode = {}]
SendJoin(c) == Sends(c, "mq", [cmd |-> "join"])
\* Mutant: joining again is left to the minute hook, which takes the channel for an active one.
RejoinLater(c) == Clear(c)
Rejoin(c)   == SendJoin([Clear(c) EXCEPT !.status = @ \ {"active", "pend"}])

\* reset_chan_info.
ResetChanInfo(c) ==
  LET d == IF "askedbans" \in c.status THEN Clear(c)
           ELSE Sends([Clear(c) EXCEPT !.status = @ \cup {"askedbans"}], "modeq", [cmd |-> "list"])
      e == Sends([d EXCEPT !.status = @ \ {"askedmodes", "active"}], "modeq", [cmd |-> "modes"])
  IN  IF "pend" \in c.status THEN c ELSE RefreshWho(e)

\* check_lonely_channel: alone and without op, the bot leaves and comes back.
CheckLonely(c) ==
  LET present == {n \in DOMAIN c.member : "split" \notin c.member[n].marks}
  IN  IF /\ "pend" \notin c.status /\ "active" \in c.status /\ ~MeOp(c)
         /\ Cardinality(present) = 1 /\ "cycle" \in Settings /\ "stopcycle" \notin c.status
      THEN Sends(Sends(c, "modeq", [cmd |-> "part"]), "modeq", [cmd |-> "join"])
      ELSE c

\* Mutant: only new members are marked as known to WHO.
Got352New(c, n, h, shown) ==
  [c EXCEPT !.member = (n :> IF n \in DOMAIN @ THEN [@[n] EXCEPT !.host = h, !.has = shown]
                            ELSE [NewMember(h) EXCEPT !.has = shown, !.marks = {"synced"}]) @@ @]

\* got352, got354: one reply shows one mode at most.
Got352(c, n, h, shown) ==
  LET old == IF n \in DOMAIN c.member THEN c.member[n] ELSE NewMember(h)
      was == {x \in {"waso", "wash"} : \/ x = "waso" /\ "o" \in shown
                                       \/ x = "wash" /\ "h" \in shown}
      m   == [old EXCEPT !.host = h, !.has = shown,
                !.marks = (@ \ {"waso", "wash"}) \cup was \cup {"synced"}
                            \cup (IF shown = {} THEN {"stopwho"} ELSE {})]
  IN  [c EXCEPT !.member = (n :> m) @@ @]
GotWho(c, l) ==
  FoldLeft(LAMBDA d, r : Got352(d, r.nick, r.host, r.shown), c, SetToSeq(l.replies))

\* got315: members of whom no WHO ever said anything are dropped (sync_members).
Got315(c) ==
  LET d == [c EXCEPT !.member = Restrict(@, {n \in DOMAIN @ : "synced" \in @[n].marks}),
                     !.status = (@ \ {"pend"}) \cup {"active"}]
  IN  IF "pend" \notin c.status THEN c
      ELSE IF Me \notin DOMAIN d.member THEN Rejoin(d)
      ELSE IF MeOp(d) THEN RecheckChannel(d)
      ELSE IF DOMAIN d.member = {Me} THEN [d EXCEPT !.status = @ \cup {"stopcycle"}]
      ELSE d

\* got367 and got348, then got368; got324.
GotMasks(c, masks) ==
  [c EXCEPT !.mask = IF c.status \cap {"pend", "active"} = {} THEN @ ELSE @ \cup masks,
            !.status = @ \ {"askedbans"}]
Got324(c, letters) ==
  LET d == [c EXCEPT !.status = @ \ {"askedmodes"}, !.mode = letters]
  IN  IF "askedmodes" \in c.status THEN RecheckModes(d) ELSE d

-----------------------------------------------------------------------------
(* Others come, go and are renamed *)

\* The first mode that a newcomer may have.
GivesFirst(c, n, fs) ==
  LET o == CanDo(c, "o") /\ "op" \in fs /\ Auto("o", fs)
      h == CanDo(c, "h") /\ "halfop" \in fs /\ Auto("h", fs)
      v == /\ CanDo(c, "v") /\ "quiet" \notin fs
           /\ "gvoice" \in fs \/ ("autovoice" \in Settings /\ "voice" \in fs)
  IN  IF o \/ h \/ v THEN Gives(c, n, IF o THEN "o" ELSE IF h THEN "h" ELSE "v", FALSE) ELSE c

\* What the bot does to a newcomer: kick, or give a mode.
Greet(c, n, fs) ==
  LET h == c.member[n].host
      banned == /\ "enforcebans" \in Settings /\ fs \cap {"op", "friend"} = {}
                /\ KickSent \notin c.member[n].sent /\ ~IsExempted(c, h) /\ CanKick(c, n)
                /\ \E b \in c.mask \cap Masks : h \in Matches[b]
      d == IF ListExempts(h) THEN c
           ELSE IF ListBans(h) THEN RefreshBanKick(c, n) ELSE KickFlagged(c, n, "modeq")
  IN  IF ~(MeOp(c) \/ MeHalfop(c)) \/ n = Me THEN c
      ELSE IF ~ListExempts(h) /\ banned THEN Kicks(c, "mq", {n})
      ELSE GivesFirst(d, n, fs)

\* gotjoin: ignored while a WHO is being answered.
GotJoin(c, n, h) ==
  LET d     == [c EXCEPT !.status = @ \ {"stopcycle"}]
      back  == n \in DOMAIN c.member /\ "split" \in c.member[n].marks /\ c.member[n].host = h
      was   == {x \in {"waso", "wash"} : back /\ \/ x = "waso" /\ "o" \in c.member[n].has
                                                 \/ x = "wash" /\ "h" \in c.member[n].has}
      new   == [NewMember(h) EXCEPT !.marks = was \cup {"stopwho"}]
      e     == [d EXCEPT !.member = (n :> new) @@ @]
  IN  IF "pend" \in c.status THEN c
      ELSE IF "active" \notin c.status /\ n # Me THEN ResetChanInfo(d)
      ELSE IF n = Me /\ ~back THEN ResetChanInfo(e)
      ELSE Greet(e, n, Flags[h])

KillMember(c, n) == [c EXCEPT !.member = Restrict(@, DOMAIN @ \ {n})]

\* gotpart, likewise; and gotkick, which is not.
GotPart(c, n) ==
  LET d == IF "active" \notin c.status THEN ResetChanInfo(c) ELSE c
  IN  IF "pend" \in c.status THEN c
      ELSE IF n = Me THEN Rejoin(KillMember(d, n))
      ELSE CheckLonely(KillMember(d, n))
GotKick(c, n) ==
  IF n = Me /\ c.status \cap {"pend", "active"} # {} THEN Rejoin(c)
  ELSE IF "active" \in c.status THEN CheckLonely(KillMember(c, n))
  ELSE c

\* Mutant: the old nick stays.
GotNickCopies(c, old, new) ==
  IF old \notin DOMAIN c.member THEN c
  ELSE CheckThisMember([c EXCEPT !.member = (new :> c.member[old]) @@ @], new)

\* gotnick: what was sent to the old nick is lost, and the member is left alone after that.
GotNick(c, old, new) ==
  LET m == c.member[old]
      renamed == [m EXCEPT !.sent = {}, !.marks = IF m.sent = {} THEN @ ELSE @ \cup {"stopcheck"}]
  IN  IF old \notin DOMAIN c.member THEN c
      ELSE CheckThisMember([c EXCEPT !.member = (new :> renamed) @@ Restrict(@, DOMAIN @ \ {old, new})], new)

\* gotquit: one lost in a netsplit stays on the list.
GotQuit(c, n, split) ==
  IF n \notin DOMAIN c.member THEN c
  ELSE IF split THEN [c EXCEPT !.member[n].marks = @ \cup {"split"}]
  ELSE CheckLonely(KillMember(c, n))

-----------------------------------------------------------------------------
(* Mode changes: by nick, "" for the server; uf are the flags of whoever did it *)

Unknown(c) == IF "pend" \in c.status THEN c ELSE RefreshWho(c)
Trusted(uf)  == uf \cap {"master", "bot"} # {}
Was(md)  == IF md = "o" THEN "waso" ELSE "wash"
Fake(md) == IF md = "o" THEN "fakeo" ELSE "fakeh"
\* An op may be a halfop too.
Entitled(md, fs) == Good(md) \in fs \/ "bot" \in fs \/ "op" \in fs

\* stopnethack-mode: whether an op given by the server is taken away.
NetHack(fs, md, was) ==
  LET snm == CASE StopNetHack = 5 -> IF "bitch" \in Settings THEN 1 ELSE 3
               [] StopNetHack = 6 -> IF "bitch" \in Settings THEN 4 ELSE 2
               [] OTHER -> StopNetHack
  IN  /\ snm > 0 /\ ~(Auto(md, fs) /\ Good(md) \in fs) /\ "exempt" \notin fs
      /\ \/ ("wasoptest" \in fs \/ snm = 2) /\ ~was
         \/ /\ ~("wasoptest" \in fs \/ snm = 2)
            /\ \/ Good(md) \notin fs /\ (snm \in {1, 4} \/ (snm = 3 /\ ~was))
               \/ Good(md) \in fs /\ snm = 4 /\ ~was

RechecksIf(mine, c) == IF mine THEN RecheckChannel(c) ELSE c

\* got_op, and got_halfop which is like it.
GotStatus(c, md, by, uf, who) ==
  LET m    == c.member[who]
      fs   == UserOf(c, who)
      mine == who = Me /\ ~MeOp(c) /\ (md = "o" \/ ~MeHalfop(c))
      d    == [c EXCEPT !.member[who].has = @ \cup {md}, !.member[who].sent = @ \ {<<"+", md>>}]
      other == CanDo(d, md) /\ who # Me /\ by # Me
      undo == other /\ \/ by # "" /\ "bitch" \in Settings /\ ~Trusted(uf) /\ ~Entitled(md, fs)
                       \/ by # "" /\ Bad(md) \in fs /\ "master" \notin uf
                       \/ d.rev
      fake == /\ by = "" /\ CanDo(d, md) /\ who # Me
              /\ Bad(md) \in fs \/ NetHack(fs, md, Was(md) \in m.marks)
      e    == [IF undo \/ fake THEN AddMode(d, "-", md, who) ELSE d
                 EXCEPT !.member[who].marks = @ \cup {Was(md)} \cup (IF fake THEN {Fake(md)} ELSE {})]
  IN  IF who \notin DOMAIN c.member THEN Unknown(c)
      ELSE IF "pend" \in c.status THEN d
      ELSE RechecksIf(mine, e)
\* Mutant: an op given while a WHO is being answered is not noted.
GotOpLate(c, md, by, uf, who) ==
  IF md = "o" /\ "pend" \in c.status THEN c ELSE GotStatus(c, md, by, uf, who)
GotOp(c, md, by, uf, who) == GotStatus(c, md, by, uf, who)

\* got_deop and got_dehalfop: someone protected gets the mode back; as op hides voice and
\* halfop, WHO is asked about the others.  Both look whether the victim was op.
GotLoss(c, md, by, uf, who) ==
  LET m   == c.member[who]
      fs  == UserOf(c, who)
      d   == [c EXCEPT !.member[who].has = @ \ {md}, !.member[who].sent = @ \ {<<"-", md>>},
                       !.member[who].marks = @ \ {Fake(md), Was(md)}]
      protect == IF md = "o" THEN "protectops" ELSE "protecthalfops"
      guarded == /\ Bad(md) \notin fs
                 /\ \/ protect \in Settings /\ fs \cap {"master", Good(md)} # {}
                    \/ "protectfriends" \in Settings /\ "friend" \in fs
      back == /\ CanDo(d, md) /\ (d.rev \/ guarded)
              /\ "o" \in m.has /\ by # Me /\ who \notin {by, Me} /\ ~Trusted(uf)
              /\ Good(md) \in fs \/ "bitch" \notin Settings
      e == IF back THEN AddMode(d, "+", md, who) ELSE d
      hidden == IF md = "o" THEN {"v", "h"} ELSE {"v"}
      f == IF e.member[who].has \cap hidden = {} /\ "stopwho" \notin m.marks
           THEN RefreshWho([e EXCEPT !.member[who].marks = @ \cup {"stopwho"}]) ELSE e
  IN  IF who \notin DOMAIN c.member THEN Unknown(c)
      ELSE IF "pend" \in c.status THEN d ELSE f

\* Mutant: what was on its way is still waited for.
GotDeopWaits(c, by, uf, who) == GotLoss(c, "o", by, uf, who)

\* The bot itself is deopped: what it sent is taken for lost, but not while a WHO is being answered.
\* Halfops are not thought of.
Cancelled == {KickSent, <<"-", "o">>, <<"+", "o">>, <<"+", "v">>, <<"-", "v">>}
GotDeop(c, by, uf, who) ==
  LET d == GotLoss(c, "o", by, uf, who)
      cancels == IF "pend" \in c.status THEN {} ELSE Cancelled
      left == UNION {{<<n, s>> : s \in d.member[n].sent \ cancels} : n \in DOMAIN d.member}
  IN  IF who # Me \/ Me \notin DOMAIN c.member THEN d
      ELSE [d EXCEPT !.member = [n \in DOMAIN @ |-> [@[n] EXCEPT !.sent = @ \ cancels]],
                     !.uncancelled = @ \cup left]
GotDehalfop(c, by, uf, who) == GotLoss(c, "h", by, uf, who)

\* gotmode, v.
GotVoice(c, s, by, uf, who) ==
  LET fs == UserOf(c, who)
      d  == [c EXCEPT !.member[who].sent = @ \ {<<s, "v">>},
                      !.member[who].has = IF s = "+" THEN @ \cup {"v"} ELSE @ \ {"v"}]
      undo == \/ s = "+" /\ "quiet" \in fs
              \/ /\ s = "-" /\ "quiet" \notin fs
                 /\ ("autovoice" \in Settings /\ "voice" \in fs) \/ "gvoice" \in fs
              \/ d.rev
  IN  IF who \notin DOMAIN c.member THEN Unknown(c)
      ELSE IF "active" \in c.status /\ "master" \notin uf /\ by # Me /\ undo
      THEN AddMode(d, IF s = "+" THEN "-" ELSE "+", "v", who) ELSE d

\* got_ban: not against the bot, nor by strangers, nor against friends.
GotBan(c, by, uf, mask) ==
  LET d == [c EXCEPT !.mask = @ \cup {mask}]
      minus == AddMode(d, "-", "b", mask)
      hurts == \E n \in DOMAIN d.member :
                 LET h == d.member[n].host
                 IN  /\ h \in Matches[mask] /\ Flags[h] \cap {"friend", "op"} # {}
                     /\ ~Trusted(uf) /\ ~IsExempted(d, h)
      covering == {e \in Listed \cap Exempts : /\ e \notin d.mask
                                               /\ Matches[e] \cap Matches[mask] # {}}
      e == FoldLeft(DoMask, d, SetToSeq(covering))
  IN  IF "pend" \in c.status \/ ~CanDo(c, "b") THEN d
      ELSE IF Bot \in Matches[mask] /\ ~IsExempted(d, Bot) THEN [minus EXCEPT !.rev = TRUE]
      ELSE IF by # Me /\ (hurts \/ (by # "" /\ "nouserbans" \in Settings /\ ~Trusted(uf))) THEN minus
      ELSE IF by # "" /\ "enforcebans" \in Settings THEN KickAll(e, mask, by # Me) ELSE e

\* Mutants: an unban is ignored while a WHO is being answered; a ban of the bot's own stays away.
GotUnbanLate(c, by, uf, mask) ==
  IF "pend" \in c.status THEN c ELSE [c EXCEPT !.mask = @ \ {mask}]
GotUnbanGives(c, by, uf, mask) == [c EXCEPT !.mask = @ \ {mask}]

\* got_unban: the bot's own come back, unless an op removed one that is not sticky.
GotUnban(c, by, uf, mask) ==
  LET d == [c EXCEPT !.mask = @ \ {mask}]
      back == \/ mask \in Sticky
              \/ /\ mask \in Listed /\ "dynamicbans" \notin Settings
                 /\ uf \cap {"bot", "op", "halfop"} = {}
  IN  IF "pend" \notin c.status /\ back THEN AddMode(d, "+", "b", mask) ELSE d

\* got_exempt and got_unexempt.
GotExempt(c, by, uf, mask) ==
  LET d == [c EXCEPT !.mask = @ \cup {mask}]
      undo == \/ by \notin {"", Me} /\ "nouserexempts" \in Settings /\ ~Trusted(uf)
              \/ d.rev
  IN  IF "pend" \notin c.status /\ CanDo(c, "e") /\ undo THEN AddMode(d, "-", "e", mask) ELSE d
GotUnexempt(c, by, uf, mask) ==
  LET d == [c EXCEPT !.mask = @ \ {mask}]
      back == \/ mask \in Sticky
              \/ mask \in Listed /\ MeOp(c) /\ "dynamicexempts" \notin Settings /\ "bot" \notin uf
  IN  IF "pend" \notin c.status /\ back THEN AddMode(d, "+", "e", mask) ELSE d

\* gotmode, the letters.
GotLetter(c, s, by, uf, l) ==
  LET d == [c EXCEPT !.mode = IF s = "+" THEN @ \cup {l} ELSE @ \ {l}]
      wrong == (s = "+" /\ l \in Mns) \/ (s = "-" /\ l \in Pls)
      inv   == IF s = "+" THEN "-" ELSE "+"
  IN  IF "active" \in c.status /\ wrong /\ (("master" \notin uf /\ by # Me) \/ d.rev)
      THEN AddMode(d, inv, l, "") ELSE d

GotChange(c, by, uf, x) ==
  CASE x.mode \in {"o", "h"} /\ x.sign = "+" -> GotOp(c, x.mode, by, uf, x.arg)
    [] x.mode = "o" /\ x.sign = "-" -> GotDeop(c, by, uf, x.arg)
    [] x.mode = "h" /\ x.sign = "-" -> GotDehalfop(c, by, uf, x.arg)
    [] x.mode = "v" -> GotVoice(c, x.sign, by, uf, x.arg)
    [] x.mode = "b" /\ x.sign = "+" -> GotBan(c, by, uf, x.arg)
    [] x.mode = "b" /\ x.sign = "-" -> GotUnban(c, by, uf, x.arg)
    [] x.mode = "e" /\ x.sign = "+" -> GotExempt(c, by, uf, x.arg)
    [] x.mode = "e" /\ x.sign = "-" -> GotUnexempt(c, by, uf, x.arg)
    [] OTHER -> GotLetter(c, x.sign, by, uf, x.mode)

\* Whether a member who sets modes is op by the server's grace or not op at all.
Suspect(c, by, uf) ==
  /\ by \in DOMAIN c.member \ {Me} /\ "active" \in c.status /\ CanKick(c, by)
  /\ "friend" \notin uf /\ ~DontKick(uf)
  /\ \/ c.member[by].marks \cap {"fakeo", "fakeh"} # {}
     \/ c.member[by].has \cap {"o", "h"} = {} /\ "nodesynch" \notin Settings

AfterMode(by, c) ==
  [c EXCEPT !.rev = FALSE, !.status = IF by = "" /\ ~MeOp(c) THEN @ \cup {"askedmodes"} ELSE @]

\* gotmode.
GotMode(c, by, uf, chg) ==
  LET d == IF Suspect(c, by, uf)
           THEN [Kicks(c, "modeq", {by}) EXCEPT !.rev = TRUE] ELSE [c EXCEPT !.rev = FALSE]
  IN  IF c.status \cap {"active", "pend"} = {} THEN c
      ELSE AfterMode(by, FoldLeft(LAMBDA x, y : GotChange(x, by, uf, y), d, chg))

-----------------------------------------------------------------------------
(* Timers *)

\* flush_modes, at the end of each turn of the main loop: delayed modes that are due,
\* and the buffer.
FlushModes(c, due) ==
  LET Give(d, n) ==
        LET ready == {md \in Status : <<"+", md>> \in d.member[n].sent}
            x == [d EXCEPT !.member[n].marks = @ \ {"delay"},
                           !.member[n].sent = @ \ {<<"+", md>> : md \in ready}]
        IN  AddModes(x, Each(ready, LAMBDA md : Change("+", md, n)))
  IN  FlushMode(FoldLeft(Give, c, SetToSeq(due)), "mq")

\* check_expired_chanstuff, once a minute: dynamic masks that are old, members lost in a
\* split too long ago; off the channel, the next attempt to join.
Minutely(c, old, lost) ==
  LET d == IF MeOp(c) \/ MeHalfop(c)
           THEN AddModes(c, Each(old, LAMBDA x : Change("-", KindOf(x), x))) ELSE c
      e == [d EXCEPT !.member = Restrict(@, DOMAIN @ \ lost)]
  IN  IF "active" \in c.status THEN CheckLonely(e)
      ELSE IF "pend" \notin c.status THEN SendJoin(c) ELSE c
Expirable(c) ==
  {x \in c.mask \ Sticky :
     IF x \in Masks THEN "dynamicbans" \in Settings
     ELSE /\ "dynamicexempts" \in Settings
          /\ \A b \in c.mask \cap Masks : Matches[b] \cap Matches[x] = {}}

-----------------------------------------------------------------------------
(* The bot's turns: one line read, the idle hook, the minute hook *)

Commit(c) ==
  /\ chan' = [c EXCEPT !.out = NoChannel.out]
  /\ modeq' = modeq \o c.out.modeq
  /\ mq' = mq \o c.out.mq

Handle(c, l) ==
  CASE l.cmd = "join"  -> GotJoin(c, l.nick, l.host)
    [] l.cmd = "part"  -> GotPart(c, l.nick)
    [] l.cmd = "kick"  -> GotKick(c, l.nick)
    [] l.cmd = "quit"  -> GotQuit(c, l.nick, l.split)
    [] l.cmd = "nick"  -> GotNick(c, l.nick, l.new)
    [] l.cmd = "mode"  -> GotMode(c, l.by, FlagsOf(l.host), l.chg)
    [] l.cmd = "who"   -> GotWho(c, l)
    [] l.cmd = "315"   -> Got315(c)
    [] l.cmd = "masks" -> GotMasks(c, l.masks)
    [] l.cmd = "324"   -> Got324(c, l.letters)

Reads ==
  /\ toBot # <<>>
  /\ \E c \in {Handle(chan, Head(toBot))} : Commit(c)
  /\ toBot' = Tail(toBot)
  /\ UNCHANGED <<here, set, away, events>>

Delayed == {n \in DOMAIN chan.member : "delay" \in chan.member[n].marks}
Idle ==
  /\ chan.cmode # <<>> \/ Delayed # {}
  /\ \E due \in SUBSET Delayed : \E c \in {FlushModes(chan, due)} : Commit(c)
  /\ UNCHANGED <<toBot, here, set, away, events>>

\* A minute is long enough for the lines under way.
Minute ==
  /\ modeq = <<>> /\ mq = <<>> /\ toBot = <<>> /\ chan.cmode = <<>>
  /\ \E old \in SUBSET Expirable(chan),
        lost \in SUBSET {n \in DOMAIN chan.member : "split" \in chan.member[n].marks} :
       \E c \in {Minutely(chan, old, lost)} : Commit(c)
  /\ UNCHANGED <<toBot, here, set, away, events>>

-----------------------------------------------------------------------------
(* The server and the others (external) *)

HostOf(n) == CHOOSE h \in DOMAIN here : here[h].nick = n
NicksHere == {here[h].nick : h \in DOMAIN here}
\* The bot hears what happens on the channel while it is there.
Hears(ls) == toBot' = IF Bot \in DOMAIN here THEN toBot \o ls ELSE toBot
Gone(hs)  == here' = Restrict(here, DOMAIN here \ hs)
\* Who comes to an empty channel is op; the modes of an empty channel are gone.
Comes(h, nick, modes) ==
  here' = (h :> [nick |-> nick, modes |-> IF DOMAIN here = {} THEN {"o"} ELSE modes]) @@ here
Leaves(h) == /\ Gone({h})
             /\ set' = IF DOMAIN here = {h} THEN {} ELSE set

\* One change of a MODE line, as the server obeys it: <<here, set, what was done>>.
Obey(w, x) ==
  LET hosts == {h \in DOMAIN w[1] : w[1][h].nick = x.arg}
      h     == CHOOSE h \in hosts : TRUE
      had   == IF x.mode \in Status THEN x.mode \in w[1][h].modes
               ELSE (IF x.mode \in {"b", "e"} THEN x.arg ELSE x.mode) \in w[2]
      With(S, e) == IF x.sign = "+" THEN S \cup {e} ELSE S \ {e}
  IN  IF (x.mode \in Status /\ hosts = {}) \/ had = (x.sign = "+") THEN w
      ELSE IF x.mode \in Status
      THEN <<[w[1] EXCEPT ![h].modes = With(@, x.mode)], w[2], Append(w[3], x)>>
      ELSE <<w[1], With(w[2], IF x.mode \in {"b", "e"} THEN x.arg ELSE x.mode), Append(w[3], x)>>

\* WHO shows the highest mode of each.
Shown(ms) == IF "o" \in ms THEN {"o"} ELSE IF "h" \in ms THEN {"h"} ELSE ms
Replies == {[nick |-> here[h].nick, host |-> h, shown |-> Shown(here[h].modes)] : h \in DOMAIN here}

BotMay(x) == /\ Bot \in DOMAIN here
             /\ \/ "o" \in here[Bot].modes
                \/ "h" \in here[Bot].modes /\ x \notin {"o", "h"}

Obeys(l) ==
  \/ /\ l.cmd = "join" /\ Bot \notin DOMAIN here
     /\ Comes(Bot, Me, {})
     /\ toBot' = Append(toBot, [cmd |-> "join", nick |-> Me, host |-> Bot])
     /\ UNCHANGED set
  \/ /\ l.cmd = "part" /\ Bot \in DOMAIN here
     /\ Leaves(Bot) /\ Hears(<<[cmd |-> "part", nick |-> Me]>>)
  \/ /\ l.cmd = "who"
     /\ toBot' = toBot \o <<[cmd |-> "who", replies |-> Replies], [cmd |-> "315"]>>
     /\ UNCHANGED <<here, set>>
  \/ /\ l.cmd = "list"
     /\ toBot' = Append(toBot, [cmd |-> "masks", masks |-> set \ Letters])
     /\ UNCHANGED <<here, set>>
  \/ /\ l.cmd = "modes"
     /\ toBot' = Append(toBot, [cmd |-> "324", letters |-> set \cap Letters])
     /\ UNCHANGED <<here, set>>
  \/ /\ l.cmd = "mode"
     /\ LET w == FoldLeft(Obey, <<here, set, <<>>>>, SelectSeq(l.chg, LAMBDA x : BotMay(x.mode)))
        IN  /\ here' = w[1] /\ set' = w[2]
            /\ IF w[3] = <<>> THEN UNCHANGED toBot
               ELSE Hears(<<[cmd |-> "mode", by |-> Me, host |-> Bot, chg |-> w[3]]>>)
  \/ /\ l.cmd = "kick"
     /\ LET out == IF BotMay("kick") THEN {h \in DOMAIN here \ {Bot} : here[h].nick \in l.nicks}
                   ELSE {}
        IN  /\ Gone(out)
            /\ Hears(SetToSeq({[cmd |-> "kick", nick |-> here[h].nick] : h \in out}))
     /\ UNCHANGED set
  \/ /\ \/ l.cmd = "join" /\ Bot \in DOMAIN here
        \/ l.cmd = "part" /\ Bot \notin DOMAIN here
     /\ UNCHANGED <<here, set, toBot>>

\* The mode queue goes first.
ServerReads ==
  /\ \/ /\ modeq # <<>> /\ Obeys(Head(modeq))
        /\ modeq' = Tail(modeq) /\ UNCHANGED mq
     \/ /\ modeq = <<>> /\ mq # <<>> /\ Obeys(Head(mq))
        /\ mq' = Tail(mq) /\ UNCHANGED modeq
  /\ UNCHANGED <<chan, away, events>>

Event(kind) ==
  /\ kind \in Events /\ events < MaxEvents /\ events' = events + 1
  /\ UNCHANGED <<chan, modeq, mq>>

Joins(h) ==
  /\ Event("join") /\ h \notin DOMAIN here \cup DOMAIN away
  /\ NickAt[h] \notin NicksHere
  /\ Comes(h, NickAt[h], {})
  /\ Hears(<<[cmd |-> "join", nick |-> NickAt[h], host |-> h]>>)
  /\ UNCHANGED <<set, away>>

Parts(h) ==
  /\ h \in DOMAIN here
  /\ \/ Event("part") /\ Hears(<<[cmd |-> "part", nick |-> here[h].nick]>>)
     \/ Event("quit") /\ Hears(<<[cmd |-> "quit", nick |-> here[h].nick, split |-> FALSE]>>)
  /\ Leaves(h) /\ UNCHANGED away

\* A netsplit takes h away; at its end h joins again and its server gives it back its op.
Splits(h) ==
  /\ Event("split") /\ h \in DOMAIN here
  /\ Hears(<<[cmd |-> "quit", nick |-> here[h].nick, split |-> TRUE]>>)
  /\ Leaves(h) /\ away' = (h :> here[h]) @@ away
Returns(h) ==
  /\ h \in DOMAIN away /\ UNCHANGED <<chan, modeq, mq, events, set>>
  /\ away' = Restrict(away, DOMAIN away \ {h})
  /\ IF away[h].nick \in NicksHere THEN UNCHANGED <<here, toBot>>
     ELSE /\ Comes(h, away[h].nick, away[h].modes)
          /\ Hears(<<[cmd |-> "join", nick |-> away[h].nick, host |-> h]>>
                   \o IF away[h].modes = {} THEN <<>>
                      ELSE <<[cmd |-> "mode", by |-> "", host |-> "",
                              chg |-> SetToSeq({Change("+", m, away[h].nick) : m \in away[h].modes})]>>)

NickChange(h, n) ==
  /\ Event("nick") /\ h \in DOMAIN here /\ n \in Nicks \ NicksHere
  /\ \A g \in (Users \cup {Bot}) \ DOMAIN here : n # NickAt[g] \/ g \in DOMAIN away
  /\ Hears(<<[cmd |-> "nick", nick |-> here[h].nick, new |-> n]>>)
  /\ here' = [here EXCEPT ![h].nick = n]
  /\ UNCHANGED <<set, away>>

\* An op sets a mode.
UserMode(h, x) ==
  /\ h \in DOMAIN here /\ "o" \in here[h].modes
  /\ Event("mode " \o x.sign \o x.mode \o (IF x.arg = Me THEN " bot" ELSE ""))
  /\ LET w == Obey(<<here, set, <<>>>>, x)
     IN  /\ w[3] # <<>> /\ here' = w[1] /\ set' = w[2]
         /\ Hears(<<[cmd |-> "mode", by |-> here[h].nick, host |-> h, chg |-> w[3]]>>)
  /\ UNCHANGED away

UserKick(h, g) ==
  /\ Event("kick") /\ h \in DOMAIN here /\ "o" \in here[h].modes
  /\ g \in DOMAIN here \ {h}
  /\ Gone({g}) /\ Hears(<<[cmd |-> "kick", nick |-> here[g].nick]>>)
  /\ UNCHANGED <<set, away>>

Changes == [sign : {"+", "-"}, mode : Status, arg : Nicks]
           \cup {Change(s, KindOf(m), m) : s \in {"+", "-"}, m \in Masks \cup Exempts}
           \cup [sign : {"+", "-"}, mode : Letters, arg : {""}]

Others ==
  \E h \in Users :
    \/ Joins(h) \/ Parts(h) \/ Splits(h) \/ Returns(h)
    \/ \E n \in Nicks : NickChange(h, n)
    \/ \E x \in Changes : UserMode(h, x)
    \/ \E g \in Users \cup {Bot} : UserKick(h, g)

\* The bot is about to join; the first of those who are there is op.
Init ==
  /\ chan = NoChannel /\ modeq = <<>> /\ mq = <<[cmd |-> "join"]>> /\ toBot = <<>>
  /\ here \in UNION {{[h \in S |-> [nick |-> NickAt[h], modes |-> IF h \in ops THEN {"o"} ELSE {}]]
                       : ops \in (SUBSET S) \ {{}}} : S \in (SUBSET Users) \ {{}}}
  /\ set = {} /\ away = <<>> /\ events = 0

Next == Reads \/ Idle \/ Minute \/ ServerReads \/ Others

Spec == Init /\ [][Next]_vars
        /\ WF_vars(Reads) /\ WF_vars(Idle) /\ WF_vars(Minute) /\ WF_vars(ServerReads)

-----------------------------------------------------------------------------
(* Properties *)

Still == /\ toBot = <<>> /\ modeq = <<>> /\ mq = <<>> /\ chan.cmode = <<>> /\ Delayed = {}
         /\ "active" \in chan.status /\ "pend" \notin chan.status

\* The type of the state.
TypeOK ==
  /\ chan.status \subseteq {"active", "pend", "askedbans", "askedmodes", "stopcycle"}
  /\ \A n \in DOMAIN chan.member :
       /\ n \in Nicks /\ chan.member[n].host \in Users \cup {Bot}
       /\ chan.member[n].has \subseteq Status
       /\ chan.member[n].sent \subseteq {KickSent} \cup ({"+", "-"} \X Status)
  /\ chan.mask \subseteq Masks \cup Exempts /\ chan.mode \subseteq Letters
  /\ Cardinality({k \in DOMAIN chan.cmode : chan.cmode[k].mode \notin Letters}) < ModesPerLine
  /\ set \subseteq Masks \cup Exempts \cup Letters

\* When all lines have been read, the bot knows everyone who is on the channel, and who is op:
\* WHO, sync_members and the lines that came in the meantime must add up (got315, gotjoin, gotmode).
AllKnown ==
  Still => \A h \in DOMAIN here :
             LET n == here[h].nick
             IN  /\ n \in DOMAIN chan.member /\ chan.member[n].host = h
                 /\ "o" \in chan.member[n].has <=> "o" \in here[h].modes

\* Nor does it know anyone else, but for those lost in a split (sync_members' comment, "Remove
\* channel members for which no WHO reply was received").
NoGhosts ==
  Still => {n \in DOMAIN chan.member : "split" \notin chan.member[n].marks} \subseteq NicksHere

\* So are the bans, exempts and other modes, once the answers to what was asked are in.
MasksAgree ==
  Still => /\ "askedbans" \notin chan.status => chan.mask = set \ Letters
           /\ "askedmodes" \notin chan.status => chan.mode = set \cap Letters

\* What was sent does not stay "sent" when nothing is under way: the bot would never kick or op
\* that member again (the SENT flags, got_deop's cancelling).  But that does happen to what
\* was sent before the bot was deopped, if a WHO was being answered then, and to halfops.
NoStuckSent ==
  Still => \A n \in DOMAIN chan.member :
             "split" \in chan.member[n].marks \/ \A s \in chan.member[n].sent : <<n, s>> \in chan.uncancelled

\* Nobody who is op is taken for a desynched non-op and kicked (gotmode).
NoFalseDesync ==
  /\ toBot # <<>> /\ Head(toBot).cmd = "mode" /\ "active" \in chan.status
  /\ Head(toBot).by \in DOMAIN chan.member \ {Me}
  => chan.member[Head(toBot).by].has \cap {"o", "h"} # {}

\* Where the bot is op, its policy holds in the end: no op it must not have, the sticky bans
\* set, the enforced modes as they should be.
PolicyHolds ==
  Still /\ MeOp(chan) /\ "o" \in here[Bot].modes =>
    /\ \A h \in DOMAIN here : "o" \in here[h].modes /\ "deop" \in FlagsOf(h) => FALSE
    /\ Sticky \subseteq set
    /\ Pls \subseteq set /\ Mns \cap set = {}

\* However it lost the channel, the bot comes back to it.
Rejoins == <>[]("active" \in chan.status /\ Bot \in DOMAIN here)
=============================================================================
