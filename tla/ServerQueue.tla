----------------------------- MODULE ServerQueue -----------------------------
(***************************************************************************)
(* The three queues of lines to the IRC server (server.mod/server.c): mode,*)
(* server and help.  A timer sends from them once a second, at a rate that *)
(* keeps the server from cutting the bot off for flooding; a line for the  *)
(* mode queue is sent at once if the rate allows.  On the way out, lines   *)
(* with the same text are stacked (fast_deq), kicks are merged (deq_kick), *)
(* and kicks of users who left or changed nick are adapted.                *)
(*                                                                         *)
(* A queue is a linked list with a pointer to its last element.  A line    *)
(* that is unlinked when it is the last leaves that pointer dangling in    *)
(* two places of the code; what is appended then hangs behind freed memory *)
(* and is never reached from the head.                                     *)
(***************************************************************************)
EXTENDS Integers, Sequences, FiniteSets, SequencesExt, FiniteSetsExt

CONSTANTS
  Inputs,          \* the lines the bot's modules and scripts queue, with their queue
  Nicks, Channels,
  OptimizeKicks,   \* 0, 1 or 2
  KickMethod,      \* kick_method: how many users one KICK may name, 0 for any number
  Stackable,       \* the commands that fast_deq stacks
  StackLimit,      \* stack_limit, 0 for none
  Double,          \* the queues that may hold a line twice
  Penalties,       \* use_penalties
  MaxQMsg,         \* maxqmsg
  MsgRate,         \* msgrate: seconds between two lines when no burst is left
  Cleared,         \* the queues an operator may clear
  MayRefuse,       \* whether a script refuses lines (an "out" bind)
  Login,           \* the lines of server_resolve_success
  Joined,          \* the members of the channels at first
  MaxInputs, MaxMoves, MaxDials  \* bounds

Queues == {"mode", "server", "help"}
MaxPenalty == 10

VARIABLES
  uplink,   \* "none", "resolving" or "up"
  queue,    \* queue[q]: the lines that can be reached from the head
  dangling, \* the queues whose last pointer points to a line that was freed
  tot,      \* the lines counted in each queue
  burst,    \* lines sent ahead of the rate
  gap,      \* now - last_time, penalties included
  members,  \* members[c]: the users on channel c
  out,      \* the lines that the last step wrote to the server
  owed,     \* what was queued and still has to be said to the server
  inputs, moves, dialled  \* bounds

queueVars == <<uplink, queue, dangling, tot, burst, gap, members, out, owed,
               inputs, moves, dialled>>

\* A line: a command, its target, the users a KICK names, and the rest.
\* What is written may name several targets.
QueueLine == [cmd : STRING, to : STRING, nicks : Seq(Nicks), text : STRING]

ASSUME QueuesAssumption ==
  /\ Inputs \subseteq [queue : Queues, next : BOOLEAN, line : QueueLine]
  /\ Login \in Seq(QueueLine) /\ \A k \in DOMAIN Login : Login[k].cmd # "KICK"
  /\ \A i \in Inputs : /\ i.line.cmd = "KICK" <=> i.line.nicks # <<>>
                       /\ i.line.cmd = "KICK" => i.line.to \in Channels
  /\ Joined \in [Channels -> SUBSET Nicks]
  /\ OptimizeKicks \in 0..2 /\ {KickMethod, StackLimit} \subseteq Nat
  /\ {Double, Cleared} \subseteq SUBSET Queues
  /\ {MaxQMsg, MsgRate, MaxInputs, MaxMoves, MaxDials} \subseteq Nat \ {0}
  /\ {Penalties, MayRefuse} \subseteq BOOLEAN

\* What a line asks of the server, piece by piece.
Asks(l) == IF l.cmd = "KICK" THEN {<<l.to, n>> : n \in Range(l.nicks)} ELSE {<<l.to, l.text>>}
AsksOf(ls)   == UNION {Asks(ls[k]) : k \in DOMAIN ls}
AsksWritten(w) ==
  IF w.cmd = "KICK" THEN Range(w.to) \X Range(w.nicks) ELSE Range(w.to) \X {w.text}

-----------------------------------------------------------------------------
(* Sending.  The dequeueing functions work on a record of the variables they *)
(* change, as the code's do on its globals.                                  *)

Now == [queue |-> queue, dangling |-> dangling, tot |-> tot, burst |-> burst,
        gap |-> gap, out |-> <<>>]

\* calc_penalty, after which last_time has moved by that much less two; the
\* other commands cost what a short line costs.
CalcPenalty(w) ==
  IF w.cmd = "KICK" THEN (2 + Len(w.nicks)) * Len(w.to) ELSE 1 + Len(w.to)

\* Mutant: the line is not taken off the count.
Uncounted(s, q, rest, lastFreed, w) ==
  [s EXCEPT !.queue[q] = rest,
            !.dangling = IF rest = <<>> THEN @ \ {q} ELSE @,
            !.gap = IF Penalties THEN @ - (CalcPenalty(w) - 2) ELSE @,
            !.out = Append(@, w)]

\* Line w goes out and the queue becomes rest; lastFreed says what became of the
\* pointer to the last line when a line in the middle of the list was unlinked.
WriteToServer(s, q, rest, lastFreed, w) ==
  [queue    |-> [s.queue EXCEPT ![q] = rest],
   dangling |-> CASE rest = <<>>            -> s.dangling \ {q}
                  [] lastFreed = "dangles"  -> s.dangling \cup {q}
                  [] lastFreed = "repaired" -> s.dangling \ {q}
                  [] OTHER                  -> s.dangling,
   tot      |-> [s.tot EXCEPT ![q] = @ - (Len(s.queue[q]) - Len(rest))],
   burst    |-> s.burst,
   gap      |-> IF Penalties THEN s.gap - (CalcPenalty(w) - 2) ELSE s.gap,
   out      |-> Append(s.out, w)]

\* Mutant: lines to other targets are taken whatever their text.
StacksAnyText(h, l) == h.cmd \in Stackable /\ l.cmd = h.cmd /\ l.to # h.to

\* fast_deq, or the plain way when nothing can be stacked: lines with the same
\* text for other targets go out with the first.
Stacks(h, l) ==
  h.cmd \in Stackable /\ l.cmd = h.cmd /\ l.text = h.text /\ l.nicks = h.nicks /\ l.to # h.to

\* The elements of s at the places in S, in their order.
Chosen(s, S) ==
  LET C[k \in 0..Len(s)] == IF k = 0 THEN <<>> ELSE IF k \in S THEN Append(C[k - 1], s[k]) ELSE C[k - 1]
  IN  C[Len(s)]

FastDeq(s, q) ==
  LET ls    == s.queue[q]
      same  == {k \in 2..Len(ls) : Stacks(ls[1], ls[k])}
      taken == {k \in same : StackLimit = 0 \/ Cardinality({j \in same : j < k}) < StackLimit - 1}
      to    == Chosen(ls, {1} \cup taken)
  IN  WriteToServer(s, q, Chosen(ls, (2..Len(ls)) \ taken),
                    IF Len(ls) \in taken THEN "repaired" ELSE "kept",
                    [cmd |-> ls[1].cmd, to |-> [k \in DOMAIN to |-> to[k].to],
                     nicks |-> ls[1].nicks, text |-> ls[1].text])

\* Mutant: victims are looked for among those who left.
Absent(l) == [l EXCEPT !.nicks = Chosen(@, {k \in DOMAIN @ : @[k] \notin members[l.to]})]

\* purge_kicks: a kick loses the victims who are not on its channel any more,
\* and goes when none is left.
Present(l) == [l EXCEPT !.nicks = Chosen(@, {k \in DOMAIN @ : @[k] \in members[l.to]})]

PurgeKicks(s, q) ==
  LET ls   == [k \in DOMAIN s.queue[q] |-> IF s.queue[q][k].cmd = "KICK" THEN Present(s.queue[q][k])
                                           ELSE s.queue[q][k]]
      idle == {k \in DOMAIN ls : ls[k].cmd = "KICK" /\ ls[k].nicks = <<>>}
      rest == Chosen(ls, DOMAIN ls \ idle)
  IN  [s EXCEPT !.queue[q] = rest,
                !.dangling = IF rest = <<>> THEN @ \ {q}
                             ELSE IF Len(ls) \in idle THEN @ \cup {q} ELSE @,
                !.tot[q] = @ - (Len(ls) - Len(rest))]

\* deq_kick: later kicks from the same channel for the same reason go out with
\* the first one, as far as kick_method allows (the victims of the first line
\* count as one).
SameKick(h, l) == l.cmd = "KICK" /\ l.to = h.to /\ l.text = h.text

TakeVictims(h, a, l) ==
  LET room == Max({0, KickMethod - 1 - Len(a.nicks)})
      n    == IF SameKick(h, l) THEN Min({room, Len(l.nicks)}) ELSE 0
  IN  IF n = Len(l.nicks) /\ n > 0
      THEN [nicks |-> a.nicks \o l.nicks, left |-> a.left, tail |-> FALSE]
      ELSE [nicks |-> a.nicks \o SubSeq(l.nicks, 1, n),
            left  |-> Append(a.left, [l EXCEPT !.nicks = SubSeq(@, n + 1, Len(@))]),
            tail  |-> TRUE]

\* What becomes of the lines behind the first one.
Merged(ls) ==
  LET M[k \in 1..Len(ls)] == IF k = 1 THEN [nicks |-> <<>>, left |-> <<>>, tail |-> TRUE]
                             ELSE TakeVictims(ls[1], M[k - 1], ls[k])
  IN  M[Len(ls)]

MergeKicks(s, q) ==
  LET h == s.queue[q][1]
      r == Merged(s.queue[q])
  IN  WriteToServer(s, q, r.left, IF r.tail THEN "kept" ELSE "dangles",
                    [cmd |-> "KICK", to |-> <<h.to>>, nicks |-> h.nicks \o r.nicks,
                     text |-> h.text])

\* One turn of a queue that is not empty.
DeqKick(p, q) ==
  CASE p.queue[q] = <<>>                                  -> p
    [] p.queue[q] # <<>> /\ p.queue[q][1].cmd = "KICK"    -> MergeKicks(p, q)
    [] OTHER                                              -> FastDeq(p, q)

\* The purged queue is named by a bound variable: TLC evaluates that once, and in an ENABLED
\* predicate a LET as often as it is used.
Deq(s, q) ==
  IF OptimizeKicks = 0 \/ s.queue[q][1].cmd # "KICK" THEN FastDeq(s, q)
  ELSE CHOOSE d \in {DeqKick(p, q) : p \in {IF OptimizeKicks = 2 THEN PurgeKicks(s, q) ELSE s}} :
         TRUE

Count(s) == [s EXCEPT !.burst = @ + 1]

\* The first part of deq_msg: the rate gives back one line of the burst.
Due(g) == g >= MsgRate \/ g < -90

\* Mutant: the burst is never given back.
NoRefill(s) == IF Due(s.gap) THEN [s EXCEPT !.gap = 0] ELSE s

Refill(s) ==
  IF Due(s.gap)
  THEN [s EXCEPT !.gap = 0, !.burst = Max({0, @ - 1})]
  ELSE s

\* deq_msg: from the mode queue until the burst or the penalty is used up;
\* otherwise one line of the server queue; the help queue only when there is
\* nothing else and no burst to make up for.
DeqMode(s) ==
  LET more(t) == IF t.queue["mode"] # <<>> /\ t.burst < 4 /\ -t.gap < MaxPenalty
                 THEN Count(Deq(t, "mode")) ELSE t
      first   == more(s)
      second  == more(first)
      third   == more(second)
  IN  more(third)

DeqMsg(s) ==
  LET t == Refill(s)
  IN  IF t.queue["mode"] # <<>> THEN DeqMode(t)
      ELSE IF t.queue["server"] # <<>> /\ t.burst <= 1 THEN Deq(Count(t), "server")
      ELSE IF t.queue["server"] = <<>> /\ t.queue["help"] # <<>> /\ t.burst = 0 /\ Due(s.gap)
      THEN Deq(t, "help")
      ELSE t

Becomes(s) ==
  /\ queue' = s.queue /\ dangling' = s.dangling /\ tot' = s.tot
  /\ burst' = s.burst /\ gap' = s.gap /\ out' = s.out

\* What is still owed when the lines w have been written.
Owing(o, w) == o \ UNION {AsksWritten(w[k]) : k \in DOMAIN w}

-----------------------------------------------------------------------------
(* Queueing *)

\* Line l goes to the front or to the end of queue q; behind a pointer that
\* dangles it is lost, though counted.
Inserted(s, q, next, l) ==
  [s EXCEPT !.queue[q] = IF next THEN <<l>> \o @
                         ELSE IF q \in s.dangling THEN @ ELSE Append(@, l),
            !.tot[q] = @ + 1]

\* Mutant: a full queue takes one line more.
HasRoomYet(s, q) == s.tot[q] <= MaxQMsg
HasRoom(s, q)    == s.tot[q] < MaxQMsg

Twice(s, q, l) == q \notin Double /\ \E k \in DOMAIN s.queue[q] : s.queue[q][k] = l

\* queue_server: nothing is queued beyond maxqmsg or twice; with a line for the
\* mode queue the queues get a turn at once, also when it is full.
Queued(s, q, next, l) ==
  LET deq(t) == IF q = "mode" THEN DeqMsg(t) ELSE t
  IN  CASE ~HasRoom(s, q)                     -> deq(s)
        [] HasRoom(s, q) /\ Twice(s, q, l)    -> s
        [] HasRoom(s, q) /\ ~Twice(s, q, l)   -> deq(Inserted(s, q, next, l))

OnConn(l, n) == [cmd |-> l.cmd, to |-> l.to, nicks |-> l.nicks, text |-> l.text, conn |-> n]

\* What has to be said when l is queued: a kick of somebody who is not there is
\* not owed when kicks follow the channel.
Owed(l) == IF OptimizeKicks = 2 /\ l.cmd = "KICK" THEN Asks(Present(l)) ELSE Asks(l)

\* A module or a script queues a line; a script's "out" bind may stop it.
QueueServer(i) ==
  LET l == OnConn(i.line, dialled)
      s == Queued(Now, i.queue, i.next, l)
  IN  /\ uplink = "up"
      /\ inputs < MaxInputs
      /\ inputs' = inputs + 1
      /\ \/ /\ Becomes(s)
            /\ owed' = Owing(IF HasRoom(Now, i.queue) THEN owed \cup Owed(l) ELSE owed, s.out)
         \/ /\ MayRefuse /\ HasRoom(Now, i.queue)
            /\ Becomes(Now)
            /\ UNCHANGED owed
      /\ UNCHANGED <<uplink, members, moves, dialled>>

\* .clearqueue and the Tcl command of that name.
ClearQueue(cs) ==
  LET others == Queues \ cs
      s == [Now EXCEPT
              !.queue = [q \in Queues |-> IF q \in cs THEN <<>> ELSE @[q]],
              !.tot   = [q \in Queues |-> IF q \in cs THEN 0 ELSE @[q]],
              !.dangling = @ \ cs,
              !.burst = IF \/ cs = Queues
                           \/ cs = {"mode"} /\ tot["server"] = 0
                           \/ cs = {"server"} /\ tot["mode"] = 0
                        THEN 0 ELSE @]
  IN  /\ cs \in {{q} : q \in Queues} \cup {Queues} /\ cs \subseteq Cleared
      /\ inputs < MaxInputs
      /\ inputs' = inputs + 1
      /\ Becomes(s)
      /\ owed' = owed \cap UNION {AsksOf(queue[q]) : q \in others}
      /\ UNCHANGED <<uplink, members, moves, dialled>>

-----------------------------------------------------------------------------
(* The channel *)

\* Mutant: a kick follows the nick of its victim only if there is just one.
OnlyOne(nicks, old, new) == IF nicks = <<old>> THEN <<new>> ELSE nicks

\* parse_q: the list of victims starts over at every one who keeps his nick.
Victims(nicks, old, new) ==
  LET from == Max({1} \cup {k \in DOMAIN nicks : nicks[k] # old})
  IN  [k \in 1..(Len(nicks) - from + 1) |-> IF nicks[from + k - 1] = old THEN new ELSE nicks[from + k - 1]]

ParseQ(l, old, new) ==
  IF l.cmd = "KICK" /\ old \in Range(l.nicks)
  THEN [l EXCEPT !.nicks = Victims(@, old, new)] ELSE l

\* Whom the kicks in ls do not name any more then: those before one who keeps his nick.
Forgotten(ls, old) ==
  UNION {{<<ls[k].to, ls[k].nicks[i]>> : i \in {i \in DOMAIN ls[k].nicks :
            \E j \in DOMAIN ls[k].nicks : j > i /\ ls[k].nicks[j] # old}} :
         k \in {k \in DOMAIN ls : ls[k].cmd = "KICK" /\ old \in Range(ls[k].nicks)}}

\* gotnick: check_queues for every queue that is not empty, then the members.
CheckQueues(old, new) ==
  /\ uplink = "up" /\ moves < MaxMoves
  /\ \E c \in Channels : old \in members[c]
  /\ \A c \in Channels : new \notin members[c]
  /\ moves' = moves + 1
  /\ members' = [c \in Channels |-> IF old \in members[c]
                                 THEN (members[c] \ {old}) \cup {new} ELSE members[c]]
  /\ IF OptimizeKicks = 2
     THEN /\ queue' = [q \in Queues |-> [k \in DOMAIN queue[q] |-> ParseQ(queue[q][k], old, new)]]
          /\ owed' = {IF a[2] = old THEN <<a[1], new>> ELSE a :
                        a \in owed \ UNION {Forgotten(queue[q], old) : q \in Queues}}
     ELSE UNCHANGED <<queue, owed>>
  /\ out' = <<>>
  /\ UNCHANGED <<uplink, dangling, tot, burst, gap, inputs, dialled>>

\* A user parts, quits or is kicked.
Leaves(c, n) ==
  /\ uplink = "up" /\ moves < MaxMoves /\ n \in members[c]
  /\ moves' = moves + 1
  /\ members' = [members EXCEPT ![c] = @ \ {n}]
  /\ owed' = IF OptimizeKicks = 2 THEN owed \ {<<c, n>>} ELSE owed
  /\ out' = <<>>
  /\ UNCHANGED <<uplink, queue, dangling, tot, burst, gap, inputs, dialled>>

-----------------------------------------------------------------------------
(* Time and the connection *)

\* Mutant: the queues survive the connection.
KeepQueues(s) == [s EXCEPT !.burst = 0]

EmptyMsgq(s) ==
  [s EXCEPT !.queue = [q \in Queues |-> <<>>], !.tot = [q \in Queues |-> 0],
            !.dangling = {}, !.burst = 0]

\* connect_server: the queues are emptied whether or not a server can be tried.
Reconnect(s) ==
  /\ Becomes(EmptyMsgq(s))
  /\ \/ dialled < MaxDials /\ uplink' = "resolving" /\ dialled' = dialled + 1
     \/ UNCHANGED <<uplink, dialled>>

\* server_secondly: a turn of the queues, and connect_server when there is no
\* server and none is being looked up.
SecondlyQueues ==
  LET t == [Now EXCEPT !.gap = Min({@ + 1, MsgRate})]
  IN  \E s \in {IF uplink = "up" THEN DeqMsg(t) ELSE Refill(t)} :
        /\ \/ /\ uplink # "none"
              /\ UNCHANGED <<uplink, dialled>>
              /\ Becomes(s)
           \/ uplink = "none" /\ Reconnect(s)
        /\ owed' = Owing(owed, s.out)
        /\ UNCHANGED <<members, inputs, moves>>

\* server_resolve_success, which queues the login, and server_resolve_failure.
LoggedIn ==
  LET L[k \in 0..Len(Login)] == IF k = 0 THEN Now
                                ELSE Queued(L[k - 1], "mode", FALSE, OnConn(Login[k], dialled))
  IN  L[Len(Login)]

ResolvedQueues ==
  /\ uplink = "resolving"
  /\ \/ /\ uplink' = "up"
        /\ Becomes(LoggedIn)
        /\ owed' = Owing(AsksOf(Login), LoggedIn.out)
     \/ /\ uplink' = "none"
        /\ Becomes(Now)
        /\ UNCHANGED owed
  /\ UNCHANGED <<members, inputs, moves, dialled>>

\* disconnect_server: the connection ends, is given up, or is left for another.
\* Nobody can be told any more what was queued for it.  The bot will find its channels as at first.
DisconnectServer ==
  /\ uplink = "up" /\ dialled < MaxDials
  /\ uplink' = "none"
  /\ owed' = {}
  /\ out' = <<>>
  /\ members' = Joined
  /\ UNCHANGED <<queue, dangling, tot, burst, gap, inputs, moves, dialled>>

-----------------------------------------------------------------------------
InitQueues ==
  /\ uplink = "none"
  /\ queue = [q \in Queues |-> <<>>] /\ dangling = {} /\ tot = [q \in Queues |-> 0]
  /\ burst = 0 /\ gap = MsgRate
  /\ members = Joined
  /\ out = <<>> /\ owed = {}
  /\ inputs = 0 /\ moves = 0 /\ dialled = 0

NextQueues ==
  \/ \E i \in Inputs : QueueServer(i)
  \/ \E cs \in SUBSET Queues : ClearQueue(cs)
  \/ \E old, new \in Nicks : CheckQueues(old, new)
  \/ \E c \in Channels, n \in Nicks : Leaves(c, n)
  \/ SecondlyQueues \/ ResolvedQueues \/ DisconnectServer

SpecQueues == InitQueues /\ [][NextQueues]_queueVars

-----------------------------------------------------------------------------
(* Properties *)

\* The counters stay within their limits.
QueueTypeOK ==
  /\ uplink \in {"none", "resolving", "up"}
  /\ \A q \in Queues : tot[q] \in 0..MaxQMsg /\ Len(queue[q]) <= MaxQMsg
  /\ dangling \subseteq Queues
  /\ burst \in 0..4 /\ gap \in Int /\ gap <= MsgRate
  /\ members \in [Channels -> SUBSET Nicks]

\* Whatever was accepted for the server and has not been said to it, nor become
\* pointless, is still queued: neither stacking nor merging, following a nick nor
\* purging victims loses any of it.
NothingLost == owed \subseteq UNION {AsksOf(queue[q]) : q \in Queues}

\* Each queue's count, which decides whether it is full and which "queuesize"
\* reports, is the number of lines in it.
CountMatches == \A q \in Queues : tot[q] = Len(queue[q])

\* What was queued for one connection never goes out on another.
OnlyThisConnection ==
  uplink = "up" => \A q \in Queues : \A k \in DOMAIN queue[q] : queue[q][k].conn = dialled

\* With optimize-kicks 2 nobody is kicked who is no longer on the channel.
NoVainKicks ==
  OptimizeKicks = 2 =>
    \A k \in DOMAIN out : out[k].cmd = "KICK" =>
      \A n \in Range(out[k].nicks) : n \in members[out[k].to[1]]

\* No line goes out on a connection it was not queued for, no kick to a user who has left, and
\* the counters stay within their limits.
QueuesKept == QueueTypeOK /\ OnlyThisConnection /\ NoVainKicks

\* No line is forgotten, and every one is counted.  (A queue whose last pointer dangles loses what
\* is appended to it: without kicks that are merged or purged none does.)
NothingMissing == NothingLost /\ CountMatches

\* Once nothing more is queued everything is said, from the help queue too.
Drains == <>[](owed = {})

=============================================================================
