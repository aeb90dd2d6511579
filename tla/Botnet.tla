------------------------------- MODULE Botnet -------------------------------
(***************************************************************************)
(* The botnet: bots linked pairwise over TCP into a tree, each keeping its *)
(* own list of every other bot on the net (tandbot, botnet.c), the bot the *)
(* list was heard from (via) and the bot's parent in the tree (uplink).    *)
(* A bot is one single-threaded event loop, so each handler below is one   *)
(* atomic action; bots interleave, and the two directions of a connection  *)
(* are FIFO queues that hold what has been sent and not yet read.          *)
(*                                                                         *)
(* A connection is dialled once.  Its two ends go through the dcc types of *)
(* the code:                                                               *)
(*   caller  DNSWAIT -> FORK_BOT -> BOT_NEW -> BOT                         *)
(*   callee  TELNET_ID (-> DUPWAIT) -> CHAT_PASS -> BOT_NEW -> BOT         *)
(* "none" is an end that does not exist or is DCC_LOST.                    *)
(*                                                                         *)
(* tandbot is a linked list.  Its order matters in one place, dump_links,  *)
(* so an entry records the names that stand before it in the list.         *)
(***************************************************************************)
EXTENDS Naturals, Sequences, FiniteSets

CONSTANTS
  Bots,       \* the bots' botnet nicks
  Conns,      \* the TCP connections that may be opened
  Caller,     \* Caller[c] dials c ...
  Callee,     \* ... and Callee[c] listens
  Hub,        \* <<b, x>>: x has the hub flag (+h) in b's userfile
  Alt,        \* <<b, x>>: x has the alternate-hub flag (+a)
  Leaf,       \* <<b, x>>: x has the leaf flag (+l)
  Reject,     \* <<b, x>>: x has the reject flag (+r)
  Unlinks,    \* <<b, x>>: an operator on b may type .unlink x
  MayFail,    \* the connections whose dial, login or link may time out
  MayDie      \* the bots that may shut down (and be restarted)

ASSUME BotsAssumption == IsFiniteSet(Bots)

ASSUME EndsAssumption ==
  /\ Caller \in [Conns -> Bots]
  /\ Callee \in [Conns -> Bots]
  /\ \A c \in Conns : Caller[c] # Callee[c]

ASSUME FlagsAssumption ==
  /\ {Hub, Alt, Leaf, Reject, Unlinks} \subseteq SUBSET (Bots \X Bots)
  /\ MayFail \subseteq Conns
  /\ MayDie \subseteq Bots

VARIABLES
  tandbot,    \* tandbot[b]: b's list of the other bots
  dcc,        \* dcc[b][c]: the type of b's end of connection c
  wire,       \* wire[c][b]: what b has still to read from c
  dialled,    \* the connections already opened
  typed       \* the .unlink commands already given

vars == <<tandbot, dcc, wire, dialled, typed>>

CallerTypes == {"dns", "fork"}
CalleeTypes == {"telnet", "dupwait", "pass"}
DccTypes    == {"none", "new", "bot"} \cup CallerTypes \cup CalleeTypes

Peer(c, b) == IF Caller[c] = b THEN Callee[c] ELSE Caller[c]
Ends(b)    == {c \in Conns : b \in {Caller[c], Callee[c]}}

-----------------------------------------------------------------------------
(* Messages.  The botnet commands are named as on the wire; the login lines *)
(* are named for the code that sends them.                                  *)

Id       == [cmd |-> "id"]          \* the caller's botnet nick
Passreq  == [cmd |-> "passreq"]     \* the callee's challenge
Digest   == [cmd |-> "digest"]      \* the caller's answer
Hello    == [cmd |-> "*hello!"]
Version  == [cmd |-> "v"]
Bye      == [cmd |-> "bye"]
EOF      == [cmd |-> "eof"]         \* the peer closed its socket
N(x, up) == [cmd |-> "n", bot |-> x, up |-> up]
Un(x)    == [cmd |-> "un", bot |-> x]
Rej(f, x)   == [cmd |-> "r", from |-> f, bot |-> x]
Ul(via, x)  == [cmd |-> "ul", via |-> via, bot |-> x]

Messages ==
  {Id, Passreq, Digest, Hello, Version, Bye, EOF}
    \cup {N(x, up) : x \in Bots, up \in Bots}
    \cup {Un(x) : x \in Bots}
    \cup {Rej(f, x) : f \in Bots, x \in Bots}
    \cup {Ul(via, x) : via \in Bots, x \in Bots}

-----------------------------------------------------------------------------
(* The list of bots *)

NoBots == [x \in {} |-> x]

InChain(b, x)  == x = b \/ x \in DOMAIN tandbot[b]

\* b's established links, and those on which x is heard from.
Links(b)      == {c \in Conns : dcc[b][c] = "bot"}
NextBots(b, x) ==
  IF x \in DOMAIN tandbot[b]
  THEN {c \in Links(b) : Peer(c, b) = tandbot[b][x].via}
  ELSE {}

\* lastbot: the parent of x (only asked for bots that are listed).
LastBot(b, x) == tandbot[b][x].uplink

\* The list t with x appended.
WithBot(t, x, via, up) ==
  [y \in DOMAIN t \cup {x} |->
     IF y = x THEN [via |-> via, uplink |-> up, before |-> DOMAIN t] ELSE t[y]]

\* Mutant: unvia does not follow the parents.
NotBelow(t, W) == W

\* The names that hang below one of the names in W, W included: what unvia
\* reaches by following uplink, then removes together with the bot itself.
Subtree(t, W) ==
  {x \in DOMAIN t \cup W :
     \A S \in SUBSET (DOMAIN t \cup W) :
        /\ W \subseteq S
        /\ \A y \in DOMAIN t : t[y].uplink \in S => y \in S
        => x \in S}

\* Mutant: a lost link leaves the list as it is.
KeepAll(t, R) == t

\* The list t without the names in R.
Without(t, R) ==
  [y \in DOMAIN t \ R |-> [t[y] EXCEPT !.before = @ \ R]]

\* Mutant: addbot puts new bots in front, so children come before parents.
NewestFirst(t) ==
  [k \in 1..Cardinality(DOMAIN t) |->
     LET x == CHOOSE y \in DOMAIN t :
                Cardinality(t[y].before) = Cardinality(DOMAIN t) - k
     IN  N(x, t[x].uplink)]

\* dump_links: every listed bot with its parent, in list order.
DumpLinks(t) ==
  [k \in 1..Cardinality(DOMAIN t) |->
     LET x == CHOOSE y \in DOMAIN t : Cardinality(t[y].before) = k - 1
     IN  N(x, t[x].uplink)]

-----------------------------------------------------------------------------
(* One handler of bot b: its new list, the new types of the ends, what it   *)
(* left unread and what it sent.  An end that becomes "none" is closed: the *)
(* peer finds EOF after the last line, and what was unread here is lost.    *)

Nothing == [c \in Conns |-> <<>>]

\* b's inboxes, and the same with the first line of c consumed.
Inbox(b)       == [c \in Conns |-> wire[c][b]]
Consumed(b, c) == [Inbox(b) EXCEPT ![c] = Tail(@)]

Commit(b, list, ends, unread, sent) ==
  /\ tandbot' = [tandbot EXCEPT ![b] = list]
  /\ dcc' = ends
  /\ wire' = [c \in Conns |-> [x \in Bots |->
       CASE x = b -> IF ends[b][c] = "none" THEN <<>> ELSE unread[c]
         [] c \in Ends(b) /\ x = Peer(c, b) /\ ends[x][c] # "none" ->
              wire[c][x] \o sent[c]
                \o IF dcc[b][c] # "none" /\ ends[b][c] = "none"
                   THEN <<EOF>> ELSE <<>>
         [] OTHER -> wire[c][x]]]

\* The ends with those of b in K set to a type.
SetEnds(ends, b, K, type) ==
  [ends EXCEPT ![b] = [c \in Conns |-> IF c \in K THEN type ELSE @[c]]]
Closed(ends, b, K) == SetEnds(ends, b, K, "none")

\* Mutant: news is not passed on.
SendNobody(b, K, m) == [c \in Conns |-> <<>>]

\* Lines m on every established link of b outside K; on the connections in K.
SendBut(b, K, m) == [c \in Conns |-> IF c \in Links(b) \ K THEN m ELSE <<>>]
SendOn(K, m)     == [c \in Conns |-> IF c \in K THEN m ELSE <<>>]
s1 ++ s2         == [c \in Conns |-> s1[c] \o s2[c]]

\* rembot ends in dupwait_notify: for each removed name, one duplicate login
\* that waits under this name is let go on.
Resumable(b, R) ==
  LET waiting == {c \in Conns : dcc[b][c] = "dupwait" /\ Peer(c, b) \in R}
  IN  {S \in SUBSET waiting :
         \A x \in {Peer(c, b) : c \in waiting} :
            Cardinality({c \in S : Peer(c, b) = x}) = 1}

\* Link c is dropped: announced as unlinked on the other links, sent the lines
\* in bye, closed, and everything that was heard over it leaves the list.
\* "ends", "unread" and "sent" are what the handler did to b's other ends.
DropLink(b, c, bye, ends, unread, sent) ==
  LET R == Subtree(tandbot[b], {Peer(c, b)})
  IN  \E S \in Resumable(b, R) :
        Commit(b, Without(tandbot[b], R),
               SetEnds(Closed(ends, b, {c}), b, S, "pass"), unread,
               SendBut(b, {c}, <<Un(Peer(c, b))>>) ++ sent
                 ++ SendOn({c}, bye) ++ SendOn(S, <<Passreq>>))

-----------------------------------------------------------------------------
(* Dialling *)

\* botlink refuses while a connection to x is in one of these types.
Linking(b, x) ==
  {c \in Ends(b) : Peer(c, b) = x /\ dcc[b][c] \in {"fork", "new"}}

\* botlink: the checks an operator's .link passes (auto: the checks that
\* autolink_cycle passes, which may dial a hub that is already on the net).
CanLink(b, c, auto) ==
  /\ Caller[c] = b
  /\ c \notin dialled
  /\ ~InChain(b, Callee[c]) \/ auto
  /\ <<b, Callee[c]>> \notin Reject
  /\ Linking(b, Callee[c]) = {}

Dial(b, c) ==
  /\ Commit(b, tandbot[b], SetEnds(dcc, b, {c}, "dns"), Inbox(b), Nothing)
  /\ dialled' = dialled \cup {c}
  /\ UNCHANGED typed

Botlink(b, c) == CanLink(b, c, FALSE) /\ Dial(b, c)

\* autolink_cycle dials a hub that is not directly linked or linking, or an
\* alternate that is not on the net at all; which one depends on the order of
\* the userfile, so any of them may be the next.  Ends in K are already lost.
AutoChoices(b, K) ==
  {c \in Conns :
     /\ CanLink(b, c, TRUE)
     /\ \A d \in Ends(b) \ K :
          Peer(d, b) = Callee[c] => dcc[b][d] \notin {"bot", "new", "fork"}
     /\ \/ <<b, Callee[c]>> \in Hub
        \/ <<b, Callee[c]>> \in Alt /\ ~InChain(b, Callee[c])}

\* autolink_cycle(NULL), once a minute: not while a link is still pending.
Autolink(b, c) ==
  /\ \A d \in Ends(b) : dcc[b][d] \notin {"dns", "fork", "new"}
  /\ c \in AutoChoices(b, {})
  /\ Dial(b, c)

\* botlink_resolve_success: the socket is opened and starts to connect.
ResolveSuccess(b, c) ==
  /\ dcc[b][c] = "dns"
  /\ Commit(b, tandbot[b], SetEnds(dcc, b, {c}, "fork"), Inbox(b), Nothing)
  /\ UNCHANGED <<dialled, typed>>

\* botlink_resolve_failure, and failed_link when no port is left to try: the
\* attempt is dropped and autolink_cycle(nick) goes on with the next bot, if
\* there is one.
FailedLink(b, c) ==
  /\ dcc[b][c] \in {"dns", "fork"}
  /\ c \in MayFail
  /\ \E next \in {{}} \cup {{d} : d \in AutoChoices(b, {c})} :
       /\ Commit(b, tandbot[b],
                 SetEnds(Closed(dcc, b, {c}), b, next, "dns"), Inbox(b), Nothing)
       /\ dialled' = dialled \cup next
       /\ UNCHANGED typed

\* cont_link: connected, and the callee has accepted.  The caller sends its
\* name.  If the callee is a hub, the attempts to reach alternates are stopped,
\* and the link over which the hub is already heard is taken down.
ContLink(b, c) ==
  LET x     == Peer(c, b)
      alts  == {d \in Ends(b) \ {c} : /\ <<b, Peer(d, b)>> \in Alt
                                      /\ dcc[b][d] \in {"fork", "new"}}
      lost  == IF <<b, x>> \in Hub THEN alts ELSE {}
      route == IF <<b, x>> \in Hub THEN NextBots(b, x) ELSE {}
      ends  == [Closed(dcc, b, lost) EXCEPT ![b][c] = "new", ![x][c] = "telnet"]
  IN  /\ dcc[b][c] = "fork"
      /\ UNCHANGED <<dialled, typed>>
      /\ \/ /\ route = {}
            /\ Commit(b, tandbot[b], ends, Inbox(b), SendOn({c}, <<Id>>))
         \/ \E d \in route :
              DropLink(b, d, <<Bye>>, ends, Inbox(b), SendOn({c}, <<Id>>))

-----------------------------------------------------------------------------
(* Login.  Reads(b, c, m): b's next line on c is m.                        *)

Reads(b, c, m) == wire[c][b] # <<>> /\ Head(wire[c][b]) = m

\* The peer has closed.  Lines it sent before may be lost: killsock throws away
\* what the socket could not take yet, and a reset discards what is unread.
PeerGone(b, c) ==
  wire[c][b] # <<>> /\ wire[c][b][Len(wire[c][b])] = EOF

\* dcc_telnet_id: a bot that is already on the net has to wait, any other is
\* challenged (dcc_telnet_pass).
TelnetId(b, c) ==
  /\ dcc[b][c] = "telnet"
  /\ Reads(b, c, Id)
  /\ IF InChain(b, Peer(c, b))
     THEN Commit(b, tandbot[b], SetEnds(dcc, b, {c}, "dupwait"),
                 Consumed(b, c), Nothing)
     ELSE Commit(b, tandbot[b], SetEnds(dcc, b, {c}, "pass"),
                 Consumed(b, c), SendOn({c}, <<Passreq>>))
  /\ UNCHANGED <<dialled, typed>>

\* timeout_dupwait: still a duplicate, or challenged at last.
TimeoutDupwait(b, c) ==
  /\ dcc[b][c] = "dupwait"
  /\ IF InChain(b, Peer(c, b))
     THEN Commit(b, tandbot[b], Closed(dcc, b, {c}), Inbox(b), Nothing)
     ELSE Commit(b, tandbot[b], SetEnds(dcc, b, {c}, "pass"), Inbox(b),
                 SendOn({c}, <<Passreq>>))
  /\ UNCHANGED <<dialled, typed>>

\* dcc_bot_new, passreq: the caller answers the challenge.
AnswerChallenge(b, c) ==
  /\ dcc[b][c] = "new"
  /\ Reads(b, c, Passreq)
  /\ Commit(b, tandbot[b], dcc, Consumed(b, c), SendOn({c}, <<Digest>>))
  /\ UNCHANGED <<dialled, typed>>

\* greet_new_bot after the lines in "first": a rejected bot is turned away; any
\* other is sent our version, and every connection attempt of ours is stopped.
GreetNewBot(b, c, first) ==
  LET forks == {d \in Conns : dcc[b][d] = "fork"}
      ends  == SetEnds(dcc, b, {c}, "new")
  IN  IF <<b, Peer(c, b)>> \in Reject
      THEN Commit(b, tandbot[b], Closed(dcc, b, {c}), Consumed(b, c),
                  SendOn({c}, first \o <<Bye>>))
      ELSE Commit(b, tandbot[b], Closed(ends, b, forks), Consumed(b, c),
                  SendOn({c}, first \o <<Version>>))

\* dcc_chat_pass: the callee accepts the digest and greets.
ChatPass(b, c) ==
  /\ dcc[b][c] = "pass"
  /\ Reads(b, c, Digest)
  /\ GreetNewBot(b, c, <<Hello>>)
  /\ UNCHANGED <<dialled, typed>>

\* dcc_bot_new, *hello!: the caller is let in and greets.
ReadHello(b, c) ==
  /\ dcc[b][c] = "new"
  /\ Reads(b, c, Hello)
  /\ GreetNewBot(b, c, <<>>)
  /\ UNCHANGED <<dialled, typed>>

\* bot_version: the link is established unless the bot is on the net by now.
BotVersion(b, c) ==
  LET x == Peer(c, b)
  IN  /\ dcc[b][c] = "new"
      /\ Reads(b, c, Version)
      /\ IF InChain(b, x)
         THEN Commit(b, tandbot[b], Closed(dcc, b, {c}), Consumed(b, c),
                     SendOn({c}, <<Bye>>))
         ELSE Commit(b, WithBot(tandbot[b], x, x, b),
                     SetEnds(dcc, b, {c}, "bot"), Consumed(b, c),
                     SendBut(b, {c}, <<N(x, b)>>)
                       ++ SendOn({c}, DumpLinks(tandbot[b])))
      /\ UNCHANGED <<dialled, typed>>

\* dcc_bot_new ignores the bye of a bot that turns us away; EOF follows.
IgnoreBye(b, c) ==
  /\ dcc[b][c] = "new"
  /\ Reads(b, c, Bye)
  /\ Commit(b, tandbot[b], dcc, Consumed(b, c), Nothing)
  /\ UNCHANGED <<dialled, typed>>

\* Mutant: a login that gets no answer is never given up.
WaitForever(b, c) == FALSE

\* The login timeouts of both sides, and the end of a login whose peer is gone.
LoginLost(b, c) ==
  /\ dcc[b][c] \in {"telnet", "pass", "new", "dupwait"}
  /\ \/ c \in MayFail /\ dcc[b][c] # "dupwait"
     \/ PeerGone(b, c)
  /\ Commit(b, tandbot[b], Closed(dcc, b, {c}), Inbox(b), Nothing)
  /\ UNCHANGED <<dialled, typed>>

-----------------------------------------------------------------------------
(* The established link *)

Next1(b, c) == dcc[b][c] = "bot" /\ wire[c][b] # <<>>

\* Mutant: a loop goes unnoticed.
LoopUnnoticed(b, m) == FALSE

Loop(b, m)        == InChain(b, m.bot)
Bogus(b, c, m)    == ~Loop(b, m) /\ c \notin NextBots(b, m.up)
IllegalLeaf(b, c) == <<b, Peer(c, b)>> \in Leaf

\* Mutant: news of a bot that is known is ignored.
LoopsIgnored(b, c) ==
  LET m == Head(wire[c][b])
  IN  /\ Next1(b, c)
      /\ m.cmd = "n"
      /\ UNCHANGED <<dialled, typed>>
      /\ IF Loop(b, m) \/ Bogus(b, c, m)
         THEN Commit(b, tandbot[b], dcc, Consumed(b, c), Nothing)
         ELSE Commit(b, WithBot(tandbot[b], m.bot, Peer(c, b), m.up), dcc,
                     Consumed(b, c), SendBut(b, {c}, <<m>>))

\* bot_nlinked: "x has linked to up".  A bot we know already means a loop, a
\* parent that is not heard over this link means the peer's list is wrong, and
\* a leaf may not bring bots: each costs the link.  Otherwise the news travels
\* on and x is listed; an unwanted bot is rejected at the link it came from.
BotNlinked(b, c) ==
  LET m == Head(wire[c][b])
  IN  /\ Next1(b, c)
      /\ m.cmd = "n"
      /\ UNCHANGED <<dialled, typed>>
      /\ IF Loop(b, m) \/ Bogus(b, c, m) \/ IllegalLeaf(b, c)
         THEN DropLink(b, c, <<Bye>>, dcc, Consumed(b, c), Nothing)
         ELSE Commit(b, WithBot(tandbot[b], m.bot, Peer(c, b), m.up), dcc,
                     Consumed(b, c),
                     SendBut(b, {c}, <<m>>)
                       ++ SendOn(IF <<b, m.bot>> \in Reject THEN {c} ELSE {},
                                 <<Rej(b, m.bot)>>))

\* bot_unlinked: x is gone, if this link is where it was heard from.  From
\* another link the line is a fake, for an unknown bot it is no news.
FromElsewhere(b, c, x) == NextBots(b, x) # {} /\ c \notin NextBots(b, x)

BotUnlinked(b, c) ==
  LET x == Head(wire[c][b]).bot
      R == Subtree(tandbot[b], {x})
  IN  /\ Next1(b, c)
      /\ Head(wire[c][b]).cmd = "un"
      /\ UNCHANGED <<dialled, typed>>
      /\ IF c \in NextBots(b, x)
         THEN \E S \in Resumable(b, R) :
                Commit(b, Without(tandbot[b], R), SetEnds(dcc, b, S, "pass"),
                       Consumed(b, c),
                       SendBut(b, {c}, <<Un(x)>>) ++ SendOn(S, <<Passreq>>))
         ELSE Commit(b, tandbot[b], dcc, Consumed(b, c), Nothing)

\* bot_bye and eof_dcc_bot; zapfbot and check_botnet_pings when a ping was not
\* answered in time.
BotBye(b, c) ==
  /\ Next1(b, c)
  /\ Reads(b, c, Bye) \/ PeerGone(b, c)
  /\ DropLink(b, c, <<>>, dcc, Inbox(b), Nothing)
  /\ UNCHANGED <<dialled, typed>>

PingTimeout(b, c) ==
  /\ dcc[b][c] = "bot"
  /\ c \in MayFail
  /\ DropLink(b, c, <<>>, dcc, Inbox(b), Nothing)
  /\ UNCHANGED <<dialled, typed>>

\* Mutant: a reject is heeded by the bot's neighbour only when it hears it first.
RejectNotPassedOn(b, c) ==
  LET m  == Head(wire[c][b])
      to == NextBots(b, m.bot)
  IN  /\ Next1(b, c)
      /\ m.cmd = "r"
      /\ UNCHANGED <<dialled, typed>>
      /\ IF c \in NextBots(b, m.from) /\ to # {}
         THEN \E d \in to :
                IF Peer(d, b) = m.bot
                THEN DropLink(b, d, <<Bye>>, dcc, Consumed(b, c), Nothing)
                ELSE Commit(b, tandbot[b], dcc, Consumed(b, c), Nothing)
         ELSE Commit(b, tandbot[b], dcc, Consumed(b, c), Nothing)

\* bot_reject, of a bot: taken down if it is our neighbour, else passed on
\* towards it.  The line counts only from the side where the rejecting bot is.
BotReject(b, c) ==
  LET m  == Head(wire[c][b])
      to == NextBots(b, m.bot)
  IN  /\ Next1(b, c)
      /\ m.cmd = "r"
      /\ UNCHANGED <<dialled, typed>>
      /\ IF c \in NextBots(b, m.from) /\ to # {}
         THEN \E d \in to :
                IF Peer(d, b) = m.bot
                THEN DropLink(b, d, <<Bye>>, dcc, Consumed(b, c), Nothing)
                ELSE Commit(b, tandbot[b], dcc, Consumed(b, c), SendOn({d}, <<m>>))
         ELSE Commit(b, tandbot[b], dcc, Consumed(b, c), Nothing)

-----------------------------------------------------------------------------
(* Unlinking.  botunlink(nick) acts on the first connection attempt or link *)
(* to the bot; when there is none, a bot that is listed all the same is     *)
(* taken for a ghost and struck off with rembot alone.                      *)

Unlinkable(b, x) ==
  {c \in Ends(b) : Peer(c, b) = x /\ dcc[b][c] \in {"fork", "new", "bot"}}

IsGhost(b, x) == Unlinkable(b, x) = {} /\ x \in DOMAIN tandbot[b]

Unlink(b, x, unread) ==
  \/ \E c \in Unlinkable(b, x) :
       IF dcc[b][c] = "bot"
       THEN DropLink(b, c, <<Bye>>, dcc, unread, Nothing)
       ELSE Commit(b, tandbot[b], Closed(dcc, b, {c}), unread, Nothing)
  \/ /\ IsGhost(b, x)
     /\ \E S \in Resumable(b, {x}) :
          Commit(b, Without(tandbot[b], {x}), SetEnds(dcc, b, S, "pass"),
                 unread, SendOn(S, <<Passreq>>))

\* .unlink x: done here for a neighbour or a bot we have no route to; a bot
\* further off is left to its parent (lastbot).
CmdUnlink(b, x) ==
  LET route == NextBots(b, x)
  IN  /\ <<b, x>> \in Unlinks \ typed
      /\ typed' = typed \cup {<<b, x>>}
      /\ UNCHANGED dialled
      /\ \/ /\ \A c \in route : Peer(c, b) = x
            /\ Unlink(b, x, Inbox(b))
         \/ \E c \in route :
              /\ Peer(c, b) # x
              /\ Commit(b, tandbot[b], dcc, Inbox(b),
                        SendOn({c}, <<Ul(LastBot(b, x), x)>>))

\* bot_unlink: the request has reached the parent, or travels on.  When there
\* is nothing to unlink, the parent tells everybody that x is not linked.
BotUnlink(b, c) ==
  LET m  == Head(wire[c][b])
      to == NextBots(b, m.via)
  IN  /\ Next1(b, c)
      /\ m.cmd = "ul"
      /\ UNCHANGED <<dialled, typed>>
      /\ CASE m.via = b /\ (Unlinkable(b, m.bot) # {} \/ IsGhost(b, m.bot)) ->
                Unlink(b, m.bot, Consumed(b, c))
           [] m.via = b /\ Unlinkable(b, m.bot) = {} /\ ~IsGhost(b, m.bot) ->
                Commit(b, tandbot[b], dcc, Consumed(b, c),
                       SendBut(b, {}, <<Un(m.bot)>>))
           [] m.via # b /\ to # {} ->
                \E d \in to : Commit(b, tandbot[b], dcc, Consumed(b, c),
                                     SendOn({d}, <<m>>))
           [] OTHER -> Commit(b, tandbot[b], dcc, Consumed(b, c), Nothing)

\* The bot shuts down: bye to every link (botnet_send_bye), every socket
\* closed.  Restarted, it knows no other bot.
Die(b) ==
  /\ b \in MayDie
  /\ Commit(b, NoBots, Closed(dcc, b, Conns), Inbox(b), SendBut(b, {}, <<Bye>>))
  /\ UNCHANGED <<dialled, typed>>

-----------------------------------------------------------------------------
Init ==
  /\ tandbot = [b \in Bots |-> NoBots]
  /\ dcc = [b \in Bots |-> [c \in Conns |-> "none"]]
  /\ wire = [c \in Conns |-> [b \in Bots |-> <<>>]]
  /\ dialled = {}
  /\ typed = {}

\* What the event loop does for a connection, by itself.
Handle(b, c) ==
  \/ ResolveSuccess(b, c) \/ ContLink(b, c)
  \/ TelnetId(b, c) \/ TimeoutDupwait(b, c) \/ AnswerChallenge(b, c)
  \/ ChatPass(b, c) \/ ReadHello(b, c) \/ BotVersion(b, c)
  \/ IgnoreBye(b, c) \/ LoginLost(b, c)
  \/ BotNlinked(b, c) \/ BotUnlinked(b, c) \/ BotBye(b, c)
  \/ BotReject(b, c) \/ BotUnlink(b, c)

Next ==
  \E b \in Bots :
    \/ \E c \in Ends(b) : \/ Handle(b, c) \/ Botlink(b, c) \/ Autolink(b, c)
                          \/ FailedLink(b, c) \/ PingTimeout(b, c)
    \/ \E x \in Bots : CmdUnlink(b, x)
    \/ Die(b)

Spec == Init /\ [][Next]_vars

\* Every line that was sent is read sooner or later, and every attempt to
\* connect or wait for a duplicate ends: main.c serves every socket that is
\* ready, and the resolver and the once-a-second timeouts always answer.
FairSpec == Spec /\ \A b \in Bots : \A c \in Ends(b) : WF_vars(Handle(b, c))

-----------------------------------------------------------------------------
(* Properties *)

\* Every variable has the shape the code gives it, and the positions recorded
\* in a list are those of one list.
ListType(b, t) ==
  /\ DOMAIN t \subseteq Bots \ {b}
  /\ t \in [DOMAIN t -> [via : Bots, uplink : Bots, before : SUBSET Bots]]

OrderOK(t) ==
  \A x, y \in DOMAIN t :
    /\ t[x].before \subseteq DOMAIN t \ {x}
    /\ x # y => (x \in t[y].before <=> y \notin t[x].before)
    /\ x \in t[y].before => t[x].before \subseteq t[y].before

TypeOK ==
  /\ DOMAIN tandbot = Bots
  /\ \A b \in Bots : ListType(b, tandbot[b]) /\ OrderOK(tandbot[b])
  /\ dcc \in [Bots -> [Conns -> DccTypes]]
  /\ \A b \in Bots : \A c \in Conns \ Ends(b) : dcc[b][c] = "none"
  /\ wire \in [Conns -> [Bots -> Seq(Messages)]]
  /\ dialled \subseteq Conns
  /\ typed \subseteq Unlinks

\* Every link's bot is listed as linked to us, at most one link goes to each bot.
LinksListed(b, t, ends) ==
  LET links == {c \in Ends(b) : ends[c] = "bot"}
  IN  \A c \in links :
        /\ Peer(c, b) \in DOMAIN t
        /\ t[Peer(c, b)].via = Peer(c, b)
        /\ t[Peer(c, b)].uplink = b
        /\ \A d \in links : Peer(d, b) = Peer(c, b) => d = c

\* The list of bots and the list of connections agree: every linked bot is listed,
\* and every listed bot is heard over a link that is up, so nextbot finds it.  When
\* it does not, the code calls the bot a "ghost" (botunlink, autolink_cycle).
RoutesOK(b, t, ends) ==
  /\ LinksListed(b, t, ends)
  /\ \A x \in DOMAIN t : \E c \in Ends(b) : ends[c] = "bot" /\ t[x].via = Peer(c, b)

ListMatchesLinks == \A b \in Bots : RoutesOK(b, tandbot[b], dcc[b])

\* A listed bot's parent is ourselves or a bot listed before it and heard over
\* the same link.  dump_links sends the list in this order, and the receiver
\* drops the link when a parent is not there yet (bot_nlinked); unvia removes a
\* subtree by its parents, and lastbot follows them.
ParentsOK(b, t) ==
  \A x \in DOMAIN t :
    IF t[x].uplink = b
    THEN t[x].via = x
    ELSE /\ t[x].uplink \in t[x].before \cap DOMAIN t
         /\ t[t[x].uplink].via = t[x].via

ParentsFirst == \A b \in Bots : ParentsOK(b, tandbot[b])

\* Every bot's list has its shape, agrees with its links and names parents first (addbot,
\* rembot, unvia; nextbot, dump_links).
ListsKept == TypeOK /\ ListMatchesLinks /\ ParentsFirst

\* Between bots that all run this code nobody is accused: no "bogus link
\* notice" costs a link and no "fake message rejected (direction)" is raised.
NoFalseAlarm ==
  \A b \in Bots : \A c \in Links(b) :
    wire[c][b] # <<>> =>
      LET m == Head(wire[c][b])
      IN  /\ m.cmd = "n"  => ~Bogus(b, c, m)
          /\ m.cmd = "un" => ~FromElsewhere(b, c, m.bot)

Settled ==
  /\ \A c \in Conns : \A b \in Bots : wire[c][b] = <<>>
  /\ \A b \in Bots : \A c \in Conns : dcc[b][c] \in {"none", "bot"}

\* The bots that can be reached from b over links: those in every set that has b
\* and, with a bot, the bots at the other ends of its links.
Linked(b) == {Peer(c, b) : c \in Links(b)}
Reached(b) ==
  {x \in Bots :
     \A S \in SUBSET Bots : b \in S /\ (\A y \in S : Linked(y) \subseteq S) => x \in S}

\* When nothing is in transit, every bot lists exactly the bots it can reach,
\* each under a parent that is really linked to it: all bots see one net.
ViewsAgree ==
  Settled => \A b \in Bots :
    /\ DOMAIN tandbot[b] = Reached(b) \ {b}
    /\ \A x \in DOMAIN tandbot[b] : tandbot[b][x].uplink \in Linked(x)

\* When nothing is in transit, the links form no loop: a net of n bots has
\* n - 1 links (each seen from its two ends).
NoLoops ==
  Settled => \A b \in Bots :
    Cardinality({p \in Reached(b) \X Conns : dcc[p[1]][p[2]] = "bot"})
      = 2 * (Cardinality(Reached(b)) - 1)

\* When nothing is in transit there is one net, the same for all: the links form
\* trees, and every bot's list is the tree it is in (bot_nlinked, bot_unlinked).
OneNet == NoLoops /\ ViewsAgree

\* When nothing is in transit, no bot is on the net of one that rejects it.
RejectedAreOff ==
  Settled => \A p \in Reject : p[2] \notin DOMAIN tandbot[p[1]]

\* The net comes to rest once dialling stops.
ComesToRest == <>[]Settled

=============================================================================
