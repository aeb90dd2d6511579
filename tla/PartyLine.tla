------------------------------ MODULE PartyLine ------------------------------
(***************************************************************************)
(* The party line across linked bots: every bot keeps the members on the   *)
(* other bots, told by join, part, nick and away lines that are passed on  *)
(* from bot to bot, by the dump that opens a link, and by the loss of the  *)
(* bots behind a link (botnet.c, botcmd.c, botmsg.c, dccutil.c).  Members  *)
(* may leave for another bot over a relay and come back.                   *)
(*                                                                         *)
(* How links come to be and loops are cut is in Botnet; here the bots form *)
(* a tree whose links break and come back.                                 *)
(***************************************************************************)
EXTENDS Integers, Sequences, FiniteSets, SequencesExt, Functions

CONSTANTS
  Bots, Tree,   \* the bots, and the pairs of them that may be linked: a tree
  Seats,         \* the pairs of a bot and a socket number that users come in on
  Nicks,
  Global, Local, \* the channels that are sent over the botnet, and those that are not
  Breakable,     \* the links that may be lost
  Relays,        \* "none", "work", or "any": what users do with relays
  MaxOps, MaxBreaks  \* bounds

Off == -1
Ends == {e \in Bots \X Bots : {e[1], e[2]} \in Tree}

VARIABLES
  dcc,     \* dcc[<<b, c>>]: b's end of the link to c: "none", "new" or "bot"
  wire,    \* wire[<<b, c>>]: the lines from b to c that c has not read
  tandbot, \* tandbot[b]: the bots b knows, with the link they are behind and their parent
  party,   \* party[b]: the members on other bots
  home,    \* home[s]: the user on seat s
  alarm,   \* the bots that took a line for fake
  ops, breaks  \* bounds

vars == <<dcc, wire, tandbot, party, home, alarm, ops, breaks>>
links == <<dcc, tandbot, alarm, breaks>>

Gone == [type |-> "none", nick |-> "", chan |-> Off, away |-> FALSE, told |-> FALSE]

Init ==
  /\ dcc = [e \in Ends |-> "none"] /\ wire = [e \in Ends |-> <<>>]
  /\ tandbot = [b \in Bots |-> <<>>] /\ party = [b \in Bots |-> <<>>]
  /\ home = [s \in Seats |-> Gone]
  /\ alarm = {} /\ ops = 0 /\ breaks = 0

\* The lines.  An idle line carries the away message, if any.
Join(s, n, c)  == [cmd |-> "j", seat |-> s, nick |-> n, chan |-> c]
Part(s)        == [cmd |-> "pt", seat |-> s]
Nkch(s, n)     == [cmd |-> "nc", seat |-> s, nick |-> n]
AwayLine(s, a) == [cmd |-> "aw", seat |-> s, away |-> a]
Idle(s, a)     == [cmd |-> "i", seat |-> s, away |-> a]
N(x, up)       == [cmd |-> "n", bot |-> x, up |-> up]
Un(x)          == [cmd |-> "un", bot |-> x]
Version == [cmd |-> "v"]
Eof     == [cmd |-> "eof"]

\* send_tand_but: what b sends to the bots it is linked to, but one.
SendBut(b, but, ms) ==
  [e \in Ends |-> IF e[1] = b /\ e[2] # but /\ dcc[e] = "bot" THEN ms ELSE <<>>]

Sent(out) == wire' = [e \in Ends |-> wire[e] \o out[e]]
SentAfter(w, out) == wire' = [e \in Ends |-> w[e] \o out[e]]

\* f with another entry, or another value of it.
With(f, x, v) == [y \in DOMAIN f \cup {x} |-> IF y = x THEN v ELSE f[y]]

\* The parents of x as b knows them, x included; and the bots behind x.
Chain(t, x) ==
  LET up[n \in Nat] == IF n = 0 THEN {x}
                       ELSE up[n - 1] \cup {t[y].up : y \in up[n - 1] \cap DOMAIN t}
  IN  up[Cardinality(Bots)]
Subtree(t, x) == {y \in DOMAIN t : x \in Chain(t, y)}

-----------------------------------------------------------------------------
(* Users, on their own bot *)

\* What b tells the botnet of a user of its own, and the change to the user.
UserStep(s, u, ms) ==
  /\ ops < MaxOps /\ ops' = ops + 1
  /\ home' = [home EXCEPT ![s] = u]
  /\ Sent(SendBut(s[1], s[1], ms))
  /\ UNCHANGED <<links, party>>

\* The botnet hears of channels below GLOBAL_CHANS.
TellIf(c, m) == IF c \in Global THEN <<m>> ELSE <<>>

\* dcc_chatter: a user who has logged in.
Chatter(s, n) ==
  /\ home[s].type = "none"
  /\ UserStep(s, [Gone EXCEPT !.type = "chat", !.nick = n, !.chan = 0], <<Join(s, n, 0)>>)

\* cmd_chat off.
ChatOff(s) ==
  LET u == home[s]
  IN  /\ u.type = "chat" /\ u.chan # Off
      /\ UserStep(s, [u EXCEPT !.chan = Off, !.told = FALSE], TellIf(u.chan, Part(s)))

\* Mutant: local channels are announced too.
CmdChatAll(s, c) ==
  LET u == home[s]
  IN  /\ u.type = "chat" /\ u.chan # c
      /\ UserStep(s, [u EXCEPT !.chan = c], <<Join(s, u.nick, c)>>)

\* cmd_chat, to another channel.
CmdChat(s, c) ==
  LET u == home[s]
  IN  /\ u.type = "chat" /\ u.chan # c
      /\ UserStep(s, [u EXCEPT !.chan = c, !.away = u.chan # Off /\ @,
                               !.told = @ /\ c \in Global],
                  IF c \in Global THEN <<Join(s, u.nick, c)>>
                  ELSE IF u.chan \in Global \cup {Off} THEN <<Part(s)>> ELSE <<>>)

\* set_away and not_away.
SetAway(s) ==
  LET u == home[s]
  IN  /\ u.type = "chat"
      /\ UserStep(s, [u EXCEPT !.away = TRUE, !.told = u.chan \in Global],
                  TellIf(u.chan, AwayLine(s, TRUE)))
NotAway(s) ==
  LET u == home[s]
  IN  /\ u.type = "chat" /\ u.away
      /\ UserStep(s, [u EXCEPT !.away = FALSE, !.told = FALSE],
                  TellIf(u.chan, AwayLine(s, FALSE)))

\* change_handle.
ChangeHandle(s, n) ==
  LET u == home[s]
  IN  /\ u.type = "chat" /\ u.nick # n
      /\ UserStep(s, [u EXCEPT !.nick = n], TellIf(u.chan, Nkch(s, n)))

\* eof_dcc_chat, do_boot.
EofChat(s) ==
  /\ home[s].type = "chat"
  /\ UserStep(s, Gone, TellIf(home[s].chan, Part(s)))

-----------------------------------------------------------------------------
(* Relays *)

Retyped(s, from, to, ms) ==
  /\ home[s].type = from
  /\ UserStep(s, [home[s] EXCEPT !.type = to, !.told = @ /\ to # "relaying"], ms)

\* tandem_relay: the user is still shown on the party line.
TandemRelay(s) == Relays # "none" /\ Retyped(s, "chat", "pre_relay", <<>>)

\* cont_tandem_relay: the other bot answers.
ContRelay(s) == Retyped(s, "pre_relay", "relaying", TellIf(home[s].chan, Part(s)))

\* eof_dcc_relay: the other bot ends it.
EofRelay(s) ==
  Retyped(s, "relaying", "chat", TellIf(home[s].chan, Join(s, home[s].nick, home[s].chan)))

\* eof_dcc_relaying: the user hangs up.
EofRelaying(s) == home[s].type = "relaying" /\ UserStep(s, Gone, <<>>)

\* tandem_relay_resolve_failure, failed_tandem_relay, and *bye* in pre_relay.
FailedRelay(s) == Relays = "any" /\ Retyped(s, "pre_relay", "chat", <<>>)

\* failed_pre_relay: the user hangs up first.  No part is sent.
FailedPreRelay(s) ==
  Relays = "any" /\ home[s].type = "pre_relay" /\ UserStep(s, Gone, <<>>)

\* dcc_relaying, *bye*: the join is sent before u.chat is set again, and the channel
\* it names is read through the wrong type.
ByeRelaying(s) ==
  /\ Relays = "any"
  /\ \E c \in Global : Retyped(s, "relaying", "chat",
                               TellIf(home[s].chan, Join(s, home[s].nick, c)))

-----------------------------------------------------------------------------
(* Tree *)

\* A call that is answered: both ends exchange versions (see Botnet).
Connect(b, c) ==
  /\ {b, c} \in Tree
  /\ \A e \in {<<b, c>>, <<c, b>>} : dcc[e] = "none" /\ wire[e] = <<>>
  /\ dcc' = [dcc EXCEPT ![<<b, c>>] = "new", ![<<c, b>>] = "new"]
  /\ wire' = [wire EXCEPT ![<<b, c>>] = <<Version>>, ![<<c, b>>] = <<Version>>]
  /\ UNCHANGED <<tandbot, party, home, alarm, ops, breaks>>

\* The bots that b lists, parents first (see Botnet).
InOrder(t) ==
  SetToSortSeq(DOMAIN t, LAMBDA x, y : Cardinality(Chain(t, x)) < Cardinality(Chain(t, y)))

\* Mutant: only the bot's own users.
DumpOwn(b) ==
  FlattenSeq([k \in 1..Cardinality(DOMAIN tandbot[b]) |->
                LET x == InOrder(tandbot[b])[k] IN <<N(x, tandbot[b][x].up)>>])
  \o FlattenSeq(SetToSeq({<<Join(s, home[s].nick, home[s].chan), Idle(s, home[s].away)>> :
                 s \in {s \in Seats : s[1] = b /\ home[s].type = "chat" /\ home[s].chan \in Global}}))

\* dump_links: the bots, the bot's own users, the members it knows.
DumpLinks(b) ==
  LET t   == tandbot[b]
      own == {s \in Seats : s[1] = b /\ home[s].type = "chat" /\ home[s].chan \in Global}
      Shown(s, m, a) == <<Join(s, m.nick, m.chan), Idle(s, a)>>
  IN  [k \in DOMAIN InOrder(t) |-> N(InOrder(t)[k], t[InOrder(t)[k]].up)]
      \o FlattenSeq(SetToSeq({Shown(s, home[s], home[s].away) : s \in own}))
      \o FlattenSeq(SetToSeq({Shown(s, party[b][s], party[b][s].msg) : s \in DOMAIN party[b]}))

\* bot_version, at either end.
BotVersion(c, b) ==
  /\ Head(wire[<<c, b>>]) = Version
  /\ dcc' = [dcc EXCEPT ![<<b, c>>] = "bot"]
  /\ tandbot' = [tandbot EXCEPT ![b] = With(@, c, [via |-> c, up |-> b])]
  /\ SentAfter([wire EXCEPT ![<<c, b>>] = Tail(@)],
               [SendBut(b, c, <<N(c, b)>>) EXCEPT ![<<b, c>>] = DumpLinks(b)])
  /\ UNCHANGED <<party, home, alarm, ops, breaks>>

\* Mutant: the members of the bots behind it stay.
UnviaOne(b, x) ==
  LET lost == Subtree(tandbot[b], x)
  IN  /\ tandbot' = [tandbot EXCEPT ![b] = Restrict(@, DOMAIN @ \ lost)]
      /\ party' = [party EXCEPT ![b] = Restrict(@, {s \in DOMAIN @ : s[1] # x})]

\* unvia and rembot: a bot and those behind it, with their members.
Unvia(b, x) ==
  LET lost == Subtree(tandbot[b], x)
  IN  /\ tandbot' = [tandbot EXCEPT ![b] = Restrict(@, DOMAIN @ \ lost)]
      /\ party' = [party EXCEPT ![b] = Restrict(@, {s \in DOMAIN @ : s[1] \notin lost})]

\* Mutant: the other bots are not told.
ClosesSilently(b, c, w) ==
  /\ dcc' = [dcc EXCEPT ![<<b, c>>] = "none"]
  /\ \/ dcc[<<b, c>>] = "bot" /\ Unvia(b, c)
     \/ dcc[<<b, c>>] = "new" /\ UNCHANGED <<tandbot, party>>
  /\ wire' = w
  /\ UNCHANGED <<home, alarm, ops>>

\* eof_dcc_bot, also at a ping timeout, an unlink and a bye: b closes its end, what it
\* had not read is lost; what it sent can still be read at the other end.
Closes(b, c, w) ==
  /\ dcc' = [dcc EXCEPT ![<<b, c>>] = "none"]
  /\ \/ dcc[<<b, c>>] = "bot" /\ Unvia(b, c)
     \/ dcc[<<b, c>>] = "new" /\ UNCHANGED <<tandbot, party>>
  /\ SentAfter(w, SendBut(b, c, IF dcc[<<b, c>>] = "bot" THEN <<Un(c)>> ELSE <<>>))
  /\ UNCHANGED <<home, alarm, ops>>

Break(b, c) ==
  /\ {b, c} \in Breakable /\ breaks < MaxBreaks
  /\ dcc[<<b, c>>] # "none" /\ dcc[<<c, b>>] # "none"
  /\ Closes(b, c, [wire EXCEPT ![<<c, b>>] = <<>>, ![<<b, c>>] = Append(@, Eof)])
  /\ breaks' = breaks + 1

\* The other end reads to the end.
ReadsEof(c, b) ==
  /\ Head(wire[<<c, b>>]) = Eof
  /\ Closes(b, c, [wire EXCEPT ![<<c, b>>] = <<>>, ![<<b, c>>] = <<>>])
  /\ UNCHANGED breaks

-----------------------------------------------------------------------------
(* What b reads from c *)

\* The line is taken off and ms is passed on.
Reads(c, b, ms) ==
  /\ SentAfter([wire EXCEPT ![<<c, b>>] = Tail(@)], SendBut(b, c, ms))
  /\ UNCHANGED <<dcc, home, ops, breaks>>

IsBehind(b, x, c) == x \in DOMAIN tandbot[b] /\ tandbot[b][x].via = c

\* fake_alert.
FakeAlert(c, b) == alarm' = alarm \cup {b} /\ Reads(c, b, <<>>) /\ UNCHANGED <<tandbot, party>>

\* bot_nlinked and bot_unlinked; in a tree no loop is found.
BotNlinked(c, b, m) ==
  /\ m.cmd = "n"
  /\ \/ /\ m.bot \notin DOMAIN tandbot[b] \cup {b} /\ IsBehind(b, m.up, c)
        /\ tandbot' = [tandbot EXCEPT ![b] = With(@, m.bot, [via |-> c, up |-> m.up])]
        /\ Reads(c, b, <<m>>)
        /\ UNCHANGED <<party, alarm>>
     \/ /\ ~(m.bot \notin DOMAIN tandbot[b] \cup {b} /\ IsBehind(b, m.up, c))
        /\ FakeAlert(c, b)
BotUnlinked(c, b, m) ==
  /\ m.cmd = "un"
  /\ \/ /\ IsBehind(b, m.bot, c)
        /\ Unvia(b, m.bot)
        /\ Reads(c, b, <<m>>) /\ UNCHANGED alarm
     \/ m.bot \in DOMAIN tandbot[b] /\ tandbot[b][m.bot].via # c /\ FakeAlert(c, b)
     \/ m.bot \notin DOMAIN tandbot[b] /\ Reads(c, b, <<>>) /\ UNCHANGED <<tandbot, party, alarm>>

\* addparty: for a member who is known, only the channel changes.
AddParty(p, m) ==
  IF m.seat \in DOMAIN p THEN [p EXCEPT ![m.seat].chan = m.chan]
  ELSE With(p, m.seat, [nick |-> m.nick, chan |-> m.chan, away |-> FALSE, msg |-> FALSE])

\* bot_join, with its test of the direction.
BotJoin(c, b, m) ==
  /\ m.cmd = "j"
  /\ \/ /\ IsBehind(b, m.seat[1], c)
        /\ party' = [party EXCEPT ![b] = AddParty(@, m)]
        /\ Reads(c, b, <<Join(m.seat, AddParty(party[b], m)[m.seat].nick, m.chan)>>)
        /\ UNCHANGED <<tandbot, alarm>>
     \/ ~IsBehind(b, m.seat[1], c) /\ FakeAlert(c, b)

\* bot_part: of an unknown member it is dropped.
BotPart(c, b, m) ==
  /\ m.cmd = "pt"
  /\ party' = [party EXCEPT ![b] = Restrict(@, DOMAIN @ \ {m.seat})]
  /\ Reads(c, b, IF m.seat \in DOMAIN party[b] THEN <<m>> ELSE <<>>)
  /\ UNCHANGED <<tandbot, alarm>>

\* bot_nickchange.
BotNickchange(c, b, m) ==
  /\ m.cmd = "nc"
  /\ \/ /\ IsBehind(b, m.seat[1], c) /\ m.seat \in DOMAIN party[b]
        /\ party' = [party EXCEPT ![b][m.seat].nick = m.nick]
        /\ Reads(c, b, <<m>>) /\ UNCHANGED <<tandbot, alarm>>
     \/ ~(IsBehind(b, m.seat[1], c) /\ m.seat \in DOMAIN party[b]) /\ FakeAlert(c, b)

\* partystat and partyaway: the away message is set, never cleared.
Marked(p, s, isAway) ==
  IF s \notin DOMAIN p THEN p
  ELSE [p EXCEPT ![s].away = isAway, ![s].msg = @ \/ isAway]

\* Mutant: the away message that an idle line carries is ignored.
IdleOnly(c, b, m) == m.cmd = "i" /\ Reads(c, b, <<m>>) /\ UNCHANGED <<tandbot, alarm, party>>

\* Mutant: who is back is not marked so.
BotAwayOnly(c, b, m) ==
  /\ m.cmd = "aw"
  /\ party' = [party EXCEPT ![b] = IF m.away THEN Marked(@, m.seat, TRUE) ELSE @]
  /\ Reads(c, b, <<m>>) /\ UNCHANGED <<tandbot, alarm>>

\* bot_away, and bot_idle, whose away message is the only one that counts.
BotAway(c, b, m) ==
  /\ m.cmd = "aw"
  /\ party' = [party EXCEPT ![b] = Marked(@, m.seat, m.away)]
  /\ Reads(c, b, <<m>>) /\ UNCHANGED <<tandbot, alarm>>
BotIdle(c, b, m) ==
  /\ m.cmd = "i"
  /\ party' = [party EXCEPT ![b] = IF m.away THEN Marked(@, m.seat, TRUE) ELSE @]
  /\ Reads(c, b, <<m>>) /\ UNCHANGED <<tandbot, alarm>>

Handle(c, b) ==
  /\ <<c, b>> \in Ends /\ dcc[<<b, c>>] # "none" /\ wire[<<c, b>>] # <<>>
  /\ \/ BotVersion(c, b) \/ ReadsEof(c, b)
     \/ LET m == Head(wire[<<c, b>>])
        IN  \/ BotNlinked(c, b, m) \/ BotUnlinked(c, b, m) \/ BotJoin(c, b, m) \/ BotPart(c, b, m)
            \/ BotNickchange(c, b, m) \/ BotAway(c, b, m) \/ BotIdle(c, b, m)

-----------------------------------------------------------------------------
Next ==
  \/ \E b, c \in Bots : Connect(b, c) \/ Break(b, c) \/ Handle(c, b)
  \/ \E s \in Seats :
       \/ \E n \in Nicks : Chatter(s, n) \/ ChangeHandle(s, n)
       \/ \E c \in Global \cup Local : CmdChat(s, c)
       \/ ChatOff(s) \/ SetAway(s) \/ NotAway(s) \/ EofChat(s)
       \/ TandemRelay(s) \/ ContRelay(s) \/ EofRelay(s) \/ EofRelaying(s)
       \/ FailedRelay(s) \/ FailedPreRelay(s) \/ ByeRelaying(s)

Spec == Init /\ [][Next]_vars

-----------------------------------------------------------------------------
(* Properties *)

Members == [nick : Nicks, chan : Global, away : BOOLEAN, msg : BOOLEAN]

TypeOK ==
  /\ dcc \in [Ends -> {"none", "new", "bot"}]
  /\ \A b \in Bots :
       /\ \A x \in DOMAIN tandbot[b] : tandbot[b][x].via \in Bots \ {b} /\ tandbot[b][x].up \in Bots
       /\ DOMAIN party[b] \subseteq Seats
       /\ \A s \in DOMAIN party[b] : party[b][s] \in Members
  /\ \A s \in Seats : home[s].chan \in Global \cup Local \cup {Off}
  /\ alarm \subseteq Bots

\* A bot shows members of bots that it knows only: whoever is behind a lost link is off
\* the list, whatever order lines, losses and new links come in.
NoStrangers == \A b \in Bots : \A s \in DOMAIN party[b] : s[1] \in DOMAIN tandbot[b]

\* No line of an honest bot is taken for fake (bot_join, bot_nickchange, bot_unlinked).
NoFalseAlarm == alarm = {}

\* Every line has been read and every link is up.
Quiet == \A e \in Ends : wire[e] = <<>> /\ dcc[e] \in {"bot", "none"}

\* .whom: the members that a bot shows of a bot it knows are those on that bot's global
\* channels, with their nick and channel.  One whose relay is being set up may be shown.
OnLine(b) == {s \in Seats : s[1] = b /\ home[s].type = "chat" /\ home[s].chan \in Global}
PartyAgrees ==
  Quiet => \A b \in Bots : \A x \in DOMAIN tandbot[b] :
    /\ {s \in DOMAIN party[b] : s[1] = x /\ home[s].type # "pre_relay"} = OnLine(x)
    /\ \A s \in OnLine(x) : party[b][s].nick = home[s].nick /\ party[b][s].chan = home[s].chan

KeptMessage(m) == m.msg /\ ~m.away
\* A user who told the party line he is away is shown away, also on a bot that links later; and
\* nobody is shown away who is back, but where another bot, which shows him back, has kept his
\* message and passed it on when they linked (bot_away, dump_links).
AwaySeen ==
  Quiet => \A b \in Bots : \A s \in DOMAIN party[b] :
    /\ home[s].away /\ home[s].told => party[b][s].away
    /\ party[b][s].away => home[s].away \/ \E c \in Bots : s \in DOMAIN party[c] /\ KeptMessage(party[c][s])
=============================================================================
