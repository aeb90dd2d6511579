---------------------------- MODULE Server_proofs ----------------------------
(***************************************************************************)
(* Proofs about the connection to the server: its flags describe one       *)
(* connection, the bot knows its nick once it has read what it was sent,   *)
(* and every step is one of an abstract session.                           *)
(*                                                                         *)
(* The nick is the hard part: the bot learns of a change only when it      *)
(* reads the line that tells it.  The invariant therefore follows the name *)
(* through the lines under way, from the one that registers the bot to the *)
(* last, where it is what the server calls the bot now.                    *)
(***************************************************************************)
EXTENDS ServerConn, ServerQueue, SequenceTheorems, FiniteSetTheorems, WellFoundedInduction, TLAPS

\* The lines that travel to the server, and from it.
Asked ==
  [cmd : {"NICK", "ISON"}, nick : BotNicks] \cup [cmd : {"PING", "JOIN"}, nick : {NoNick}]
Said ==
  [cmd : {"001", "433"}, nick : BotNicks]
    \cup [cmd : {"NICK"}, nick : BotNicks, new : BotNicks \cup {NoNick}]
    \cup [cmd : {"303"}, on : SUBSET BotNicks]
    \cup [cmd : {"PONG", "020", "JOIN"}, nick : {NoNick}]

\* at is where in s the line stands that registers the bot: 0 when it was read, behind the last
\* when there is none yet.  names[i] is what the bot calls itself when it has read i lines.
Told(s, at, names, on, own, irc) ==
  /\ on <=> at = 0
  /\ irc = NoNick <=> at = Len(s) + 1
  /\ at = 0 => names[0] = own
  /\ at <= Len(s) => names[Len(s)] = irc
  /\ \A i \in 1..Len(s) :
       /\ s[i].cmd = "001" <=> i = at
       /\ s[i].cmd = "NICK" => i > at
       /\ i = at => names[i] = s[i].nick
       /\ i > at => names[i] = IF s[i].cmd = "NICK" /\ s[i].nick = names[i - 1]
                               THEN s[i].new ELSE names[i - 1]
Knows(s, on, own, irc) ==
  \E at \in 0..(Len(s) + 1) : \E names \in [0..Len(s) -> BotNicks] : Told(s, at, names, on, own, irc)

NoJoin(s) == \A i \in 1..Len(s) : s[i].cmd # "JOIN"

Lines ==
  /\ toServer \in Seq(Asked) /\ toBot \in Seq(Said)
  /\ link # "up" => toServer = <<>> /\ toBot = <<>>
Joins == ~online => onchan = {} /\ NoJoin(toServer) /\ NoJoin(toBot)
Names ==
  /\ ircnick \notin taken
  /\ link = "none" => ircnick = NoNick
  /\ link = "up" => Knows(toBot, online, botname, ircnick)

\* The inductive invariant.
IInv == TypeOK /\ serverlist # <<>> /\ OneConnection /\ Lines /\ Joins /\ Names

-----------------------------------------------------------------------------
(* Lines *)

LEMMA OneMore ==
  ASSUME NEW S, NEW s \in Seq(S), NEW m \in S
  PROVE  /\ s \o <<m>> \in Seq(S)
         /\ Len(s \o <<m>>) = Len(s) + 1
         /\ \A i \in 1..Len(s) : (s \o <<m>>)[i] = s[i]
         /\ (s \o <<m>>)[Len(s) + 1] = m
  <1>1. <<m>> \in Seq(S) /\ Len(<<m>>) = 1 /\ <<m>>[1] = m
    OBVIOUS
  <1>2. QED
    BY <1>1, ConcatProperties

LEMMA OneLess ==
  ASSUME NEW S, NEW s \in Seq(S), s # <<>>
  PROVE  /\ Tail(s) \in Seq(S)
         /\ Head(s) \in S /\ Head(s) = s[1]
         /\ Len(s) \in Nat \ {0} /\ Len(Tail(s)) = Len(s) - 1
         /\ \A i \in 1..Len(Tail(s)) : Tail(s)[i] = s[i + 1]
  BY HeadTailProperties, EmptySeq, LenProperties, ElementOfSeq

\* Nothing is said but what the lines were; the first says something about the bot's registering.
LEMMA Nothing ==
  ASSUME ConstantsOK, NEW on, NEW own \in BotNicks
  PROVE  Knows(<<>>, FALSE, own, NoNick)
  <1> DEFINE names == [i \in 0..0 |-> own]
  <1>1. Len(<<>>) = 0
    OBVIOUS
  <1>2. names \in [0..0 -> BotNicks]
    OBVIOUS
  <1>3. Told(<<>>, 1, names, FALSE, own, NoNick)
    BY <1>1 DEF Told
  <1>4. QED
    BY <1>1, <1>2, <1>3 DEF Knows

\* What the server appends.
LEMMA Appended ==
  ASSUME ConstantsOK, NEW s \in Seq(Said), NEW m \in Said, NEW on \in BOOLEAN, NEW own,
         NEW irc \in BotNicks \cup {NoNick}, NEW now \in BotNicks \cup {NoNick},
         Knows(s, on, own, irc),
         \/ m.cmd \notin {"001", "NICK"} /\ now = irc
         \/ m.cmd = "001" /\ irc = NoNick /\ now \in BotNicks /\ now = m.nick
         \/ m.cmd = "NICK" /\ irc # NoNick /\ now \in BotNicks
              /\ now = IF m.nick = irc THEN m.new ELSE irc
  PROVE  Knows(s \o <<m>>, on, own, now)
  <1> DEFINE t == s \o <<m>>
  <1>1. PICK at \in 0..(Len(s) + 1), names \in [0..Len(s) -> BotNicks] :
          Told(s, at, names, on, own, irc)
    BY DEF Knows
  <1>2. /\ t \in Seq(Said) /\ Len(s) \in Nat /\ Len(t) = Len(s) + 1
        /\ \A i \in 1..Len(s) : t[i] = s[i]
        /\ t[Len(s) + 1] = m
    BY OneMore
  <1>3. NoNick \notin BotNicks /\ names[Len(s)] \in BotNicks
    BY <1>1, <1>2 DEF NoNick, BotNicks, ConstantsOK
  <1> DEFINE then == IF at <= Len(s) \/ m.cmd = "001" THEN at ELSE at + 1
             last == IF m.cmd \in {"001", "NICK"} THEN now ELSE names[Len(s)]
             more == [i \in 0..Len(t) |-> IF i <= Len(s) THEN names[i] ELSE last]
  <1>4. last \in BotNicks /\ more \in [0..Len(t) -> BotNicks]
    BY <1>1, <1>2, <1>3
  <1>5. then \in 0..(Len(t) + 1)
    BY <1>1, <1>2
  <1>6. /\ more[Len(t)] = last
        /\ \A i \in 0..Len(s) : more[i] = names[i]
    BY <1>2
  <1> HIDE DEF t, more
  <1>7. Told(t, then, more, on, own, now)
    <2>1. /\ on <=> then = 0
          /\ now = NoNick <=> then = Len(t) + 1
          /\ then = 0 => more[0] = own
          /\ then <= Len(t) => more[Len(t)] = now
      BY <1>1, <1>2, <1>3, <1>6 DEF Told
    <2>2. ASSUME NEW i \in 1..Len(t)
          PROVE  /\ t[i].cmd = "001" <=> i = then
                 /\ t[i].cmd = "NICK" => i > then
                 /\ i = then => more[i] = t[i].nick
                 /\ i > then => more[i] = IF t[i].cmd = "NICK" /\ t[i].nick = more[i - 1]
                                          THEN t[i].new ELSE more[i - 1]
      <3>1. CASE i <= Len(s)
        BY <1>1, <1>2, <1>6, <3>1 DEF Told
      <3>2. CASE i = Len(s) + 1
        BY <1>1, <1>2, <1>3, <1>6, <3>2 DEF Told
      <3>3. QED
        BY <1>2, <3>1, <3>2
    <2>3. QED
      BY <2>1, <2>2 DEF Told
  <1>8. QED
    BY <1>4, <1>5, <1>7 DEF Knows, t

\* What the bot reads.
LEMMA Heard ==
  ASSUME ConstantsOK, NEW s \in Seq(Said), s # <<>>, NEW on \in BOOLEAN, NEW own, NEW new,
         NEW irc \in BotNicks \cup {NoNick},
         Knows(s, on, own, irc)
  PROVE  LET m == Head(s) IN
         /\ on => m.cmd # "001"
         /\ m.cmd = "NICK" => on
         /\ m.cmd = "NICK" /\ m.nick = own => m.new \in BotNicks
         /\ \/ m.cmd = "001" /\ new = m.nick
            \/ m.cmd # "001" /\ ~on
            \/ m.cmd # "001" /\ new = IF m.cmd = "NICK" /\ m.nick = own THEN m.new ELSE own
            => Knows(Tail(s), on \/ m.cmd = "001", new, irc)
  <1> DEFINE m == Head(s)
             t == Tail(s)
  <1>1. PICK at \in 0..(Len(s) + 1), names \in [0..Len(s) -> BotNicks] :
          Told(s, at, names, on, own, irc)
    BY DEF Knows
  <1>2. /\ t \in Seq(Said) /\ Len(s) \in Nat \ {0} /\ Len(t) = Len(s) - 1
        /\ \A i \in 1..Len(t) : t[i] = s[i + 1]
        /\ m = s[1]
    BY OneLess
  <1> HIDE DEF m, t
  <1>3. /\ m.cmd = "001" <=> at = 1
        /\ m.cmd = "NICK" => at = 0
        /\ at = 0 => names[0] = own
        /\ at = 1 => names[1] = m.nick
        /\ at = 0 => names[1] = IF m.cmd = "NICK" /\ m.nick = own THEN m.new ELSE own
        /\ names[1] \in BotNicks
        /\ on <=> at = 0
    BY <1>1, <1>2 DEF Told
  <1> DEFINE then == IF at = 0 THEN 0 ELSE at - 1
             less == [i \in 0..Len(t) |-> names[i + 1]]
  <1>4. less \in [0..Len(t) -> BotNicks] /\ then \in 0..(Len(t) + 1)
    BY <1>1, <1>2
  <1>5. ASSUME \/ m.cmd = "001" /\ new = m.nick
               \/ m.cmd # "001" /\ ~on
               \/ m.cmd # "001" /\ new = IF m.cmd = "NICK" /\ m.nick = own THEN m.new ELSE own
        PROVE  Told(t, then, less, on \/ m.cmd = "001", new, irc)
    <2>1. /\ (on \/ m.cmd = "001") <=> then = 0
          /\ irc = NoNick <=> then = Len(t) + 1
          /\ then = 0 => less[0] = new
          /\ then <= Len(t) => less[Len(t)] = irc
      BY <1>1, <1>2, <1>3, <1>5 DEF Told
    <2>2. ASSUME NEW i \in 1..Len(t)
          PROVE  /\ t[i].cmd = "001" <=> i = then
                 /\ t[i].cmd = "NICK" => i > then
                 /\ i = then => less[i] = t[i].nick
                 /\ i > then => less[i] = IF t[i].cmd = "NICK" /\ t[i].nick = less[i - 1]
                                          THEN t[i].new ELSE less[i - 1]
      <3>1. /\ i + 1 \in 1..Len(s) /\ t[i] = s[i + 1]
            /\ less[i] = names[i + 1] /\ less[i - 1] = names[i]
        BY <1>2
      <3>2. QED
        BY <1>1, <1>2, <3>1 DEF Told
    <2>3. QED
      BY <2>1, <2>2 DEF Told
  <1>6. on => m.cmd # "001"
    BY <1>3
  <1>7. QED
    BY <1>3, <1>4, <1>5, <1>6 DEF Knows, m, t

-----------------------------------------------------------------------------
(* What the handlers share *)

LEMMA Says ==
  ASSUME TypeOK, Lines, link # "none", link' = link,
         NEW ms, ms = <<>> \/ \E m \in Asked : ms = <<m>>, Say(ms)
  PROVE  /\ toServer' \in Seq(Asked)
         /\ link # "up" => toServer' = <<>>
         /\ NoJoin(toServer) /\ (ms # <<>> => ms[1].cmd # "JOIN") => NoJoin(toServer')
  <1>1. CASE link = "silent"
    BY <1>1 DEF Say, NoJoin
  <1>2. CASE link = "up" /\ ms = <<>>
    BY <1>2, ConcatEmptySeq DEF Say, Lines
  <1>3. CASE link = "up" /\ ms # <<>>
    <2>1. PICK m \in Asked : ms = <<m>>
      BY <1>3
    <2>2. toServer' = toServer \o <<m>> /\ toServer \in Seq(Asked) /\ Len(toServer) \in Nat
      BY <1>3, <2>1 DEF Say, Lines
    <2>3. /\ toServer' \in Seq(Asked)
          /\ Len(toServer') = Len(toServer) + 1
          /\ \A i \in 1..Len(toServer) : toServer'[i] = toServer[i]
          /\ toServer'[Len(toServer) + 1] = m
      BY <2>2, OneMore
    <2>4. ASSUME NoJoin(toServer), m.cmd # "JOIN"
          PROVE  NoJoin(toServer')
      BY <2>2, <2>3, <2>4 DEF NoJoin
    <2>5. ms[1] = m
      BY <2>1
    <2>6. QED
      BY <1>3, <2>3, <2>4, <2>5
  <1>4. QED
    BY <1>1, <1>2, <1>3 DEF TypeOK

LEMMA Disconnected ==
  ASSUME ConstantsOK, IInv, NEW toldIt \in BOOLEAN, Disconnect(toldIt)
  PROVE  Lines' /\ Joins' /\ Names' /\ taken' \subseteq BotNicks
  <1>1. toServer' = <<>> /\ toBot' = <<>> /\ onchan' = {} /\ link' = "none" /\ ircnick' = NoNick
    BY DEF Disconnect
  <1>2. taken' \subseteq BotNicks /\ NoNick \notin BotNicks
    BY DEF Disconnect, IInv, TypeOK, NoNick, BotNicks, ConstantsOK
  <1>3. Lines'
    BY <1>1 DEF Lines
  <1>4. Joins'
    BY <1>1 DEF Joins, NoJoin
  <1>5. Names'
    BY <1>1, <1>2 DEF Names
  <1>6. QED
    BY <1>2, <1>3, <1>4, <1>5

LEMMA InitHolds ==
  ASSUME ConstantsOK, Init
  PROVE  IInv
  <1>1. OneConnection /\ {serv, resolvserv, trying, online, pinged} \subseteq BOOLEAN
    BY DEF Init, OneConnection
  <1>2. TypeOK /\ serverlist # <<>>
    <2>1. Len(ServerList) \in Nat \ {0}
      BY EmptySeq, LenProperties DEF ConstantsOK
    <2>2. QED
      BY <1>1, <2>1 DEF ConstantsOK, Init, TypeOK, BotNicks, Orig, Alt, NoNick
  <1>3. Lines /\ Joins
    BY DEF Init, Lines, Joins, NoJoin
  <1>4. Names
    BY DEF ConstantsOK, Init, Names, BotNicks, Orig, Alt, NoNick
  <1>5. QED
    BY <1>1, <1>2, <1>3, <1>4 DEF IInv

-----------------------------------------------------------------------------
(* Every step keeps the invariant *)

LEMMA EofServerKeeps ==
  ASSUME ConstantsOK, IInv, EofServer
  PROVE  IInv'
  <1>1. PICK toldIt \in BOOLEAN : Disconnect(toldIt)
    BY DEF EofServer
  <1>2. Lines' /\ Joins' /\ Names' /\ taken' \subseteq BotNicks
    BY <1>1, Disconnected
  <1>3. TypeOK' /\ serverlist' # <<>> /\ OneConnection'
    BY <1>1, <1>2 DEF EofServer, Disconnect, IInv, TypeOK, OneConnection, flags
  <1>4. QED
    BY <1>2, <1>3 DEF IInv

LEMMA TimeoutServerKeeps ==
  ASSUME ConstantsOK, IInv, TimeoutServer
  PROVE  IInv'
  <1>1. Disconnect(FALSE)
    BY DEF TimeoutServer
  <1>2. Lines' /\ Joins' /\ Names' /\ taken' \subseteq BotNicks
    BY <1>1, Disconnected
  <1>3. TypeOK' /\ serverlist' # <<>> /\ OneConnection'
    BY <1>1, <1>2 DEF TimeoutServer, Disconnect, IInv, TypeOK, OneConnection, flags
  <1>4. QED
    BY <1>2, <1>3 DEF IInv

LEMMA FiveMinutelyKeeps ==
  ASSUME ConstantsOK, IInv, FiveMinutely
  PROVE  IInv'
  <1>1. CASE pinged
    <2>1. Disconnect(FALSE) /\ UNCHANGED <<flags, botname, bounds>>
      BY <1>1 DEF FiveMinutely
    <2>2. Lines' /\ Joins' /\ Names' /\ taken' \subseteq BotNicks
      BY <2>1, Disconnected
    <2>3. TypeOK' /\ serverlist' # <<>> /\ OneConnection'
      BY <2>1, <2>2 DEF Disconnect, IInv, TypeOK, OneConnection, flags
    <2>4. QED
      BY <2>2, <2>3 DEF IInv
  <1>2. CASE ~pinged
    <2> DEFINE m == Msg("PING", NoNick)
    <2>1. /\ online /\ pinged' = TRUE /\ Say(<<m>>)
          /\ UNCHANGED <<serv, resolvserv, trying, online, cycle, newserver, curserv, serverlist,
                         target, botname, onchan, peer, toBot, bounds>>
      BY <1>2 DEF FiveMinutely
    <2>2. m \in Asked
      BY DEF Asked, Msg
    <2>3. TypeOK' /\ serverlist' # <<>> /\ OneConnection' /\ link # "none"
      BY <2>1 DEF IInv, TypeOK, OneConnection, peer
    <2>4. Lines'
      BY <2>1, <2>2, <2>3, Says DEF IInv, Lines, peer
    <2>5. Joins' /\ Names'
      BY <2>1 DEF IInv, Joins, Names, peer
    <2>6. QED
      BY <2>3, <2>4, <2>5 DEF IInv
  <1>3. QED
    BY <1>1, <1>2

LEMMA SmallestOf ==
  ASSUME NEW n \in Nat, NEW S \in SUBSET (1..n), S # {}
  PROVE  \E i \in S : \A j \in S : i <= j
  <1> DEFINE T == {1..i : i \in S}
             Less == StrictSubsetOrdering(1..n)
  <1>1. IsWellFoundedOn(Less, SUBSET (1..n))
    <2> DEFINE I == 1..n
    <2>1. IsFiniteSet(I)
      BY FS_Interval
    <2> HIDE DEF I
    <2>2. IsWellFoundedOn(StrictSubsetOrdering(I), SUBSET I)
      BY <2>1, FS_StrictSubsetOrderingWellFounded, FS_FiniteSubsetsOfFinite
    <2> QED  BY <2>2 DEF I
  <1>2. T \subseteq SUBSET (1..n) /\ T # {}
    <2>1. \A i \in S : 1..i \subseteq 1..n
      OBVIOUS
    <2> QED  BY <2>1
  <1>3. \E t \in T : \A u \in T : <<u, t>> \notin Less
    <2> HIDE DEF T, Less
    <2> QED  BY <1>1, <1>2, WFMin
  <1>4. PICK i \in S : \A j \in S : <<1..j, 1..i>> \notin Less
    BY <1>3
  <1>5. ASSUME NEW j \in S, j < i
        PROVE  FALSE
    <2>1. 1..j \subseteq 1..i /\ i \in 1..i /\ i \notin 1..j
      BY <1>5
    <2>2. 1..j \in SUBSET (1..n) /\ 1..i \in SUBSET (1..n)
      OBVIOUS
    <2>3. <<1..j, 1..i>> \in Less
      BY <2>1, <2>2 DEF StrictSubsetOrdering
    <2> QED  BY <1>4, <2>3
  <1> QED  BY <1>5

LEMMA NextServerKeeps ==
  ASSUME TypeOK, serverlist # <<>>, NEW asked \in Hosts \cup {NoHost}, NextServer(asked)
  PROVE  /\ target' \in Hosts /\ (asked # NoHost => target' = asked)
         /\ serverlist' \in Seq(Hosts) /\ serverlist' # <<>>
         /\ curserv' \in -1..(Len(serverlist') - 1)
  <1>1. /\ serverlist \in Seq(Hosts) /\ Len(serverlist) \in Nat \ {0}
        /\ DOMAIN serverlist = 1..Len(serverlist)
        /\ curserv \in -1..(Len(serverlist) - 1)
    BY EmptySeq, LenProperties DEF TypeOK
  <1>2. CASE asked = NoHost
    <2>1. curserv' \in 0..(Len(serverlist) - 1)
      BY <1>1, <1>2 DEF NextServer
    <2>2. serverlist' = serverlist /\ target' = serverlist[curserv' + 1]
      BY <1>2 DEF NextServer
    <2>3. \A i \in 1..Len(serverlist) : serverlist[i] \in Hosts
      BY <1>1, ElementOfSeq
    <2>4. target' \in Hosts
      <3>1. Len(serverlist) \in Nat
        BY <1>1
      <3>2. \A i \in 0..(Len(serverlist) - 1) : i + 1 \in 1..Len(serverlist)
        BY <3>1
      <3>3. QED
        BY <2>1, <2>2, <2>3, <3>2
    <2>5. curserv' \in -1..(Len(serverlist') - 1)
      BY <1>1, <2>1, <2>2
    <2>6. QED
      BY <1>1, <1>2, <2>2, <2>4, <2>5
  <1>3. CASE asked # NoHost
    <2> DEFINE known == {i \in DOMAIN serverlist : serverlist[i] = asked}
               first == CHOOSE i \in known : \A j \in known : i <= j
    <2>1. /\ target' = asked
          /\ serverlist' = IF known = {} THEN Append(serverlist, asked) ELSE serverlist
          /\ curserv' = IF known = {} THEN Len(serverlist) ELSE first - 1
      BY <1>3 DEF NextServer
    <2>2. CASE known = {}
      <3>1. /\ Append(serverlist, asked) \in Seq(Hosts)
            /\ Len(Append(serverlist, asked)) = Len(serverlist) + 1
        BY <1>1, <1>3, AppendProperties
      <3>2. serverlist' # <<>>
        BY <1>1, <2>1, <2>2, <3>1
      <3>3. QED
        BY <1>1, <1>3, <2>1, <2>2, <3>1, <3>2
    <2>3. CASE known # {}
      <3>1. \E i \in known : \A j \in known : i <= j
        BY <1>1, <2>3, SmallestOf
      <3>2. first \in known
        BY <3>1
      <3>3. first \in 1..Len(serverlist)
        BY <1>1, <3>2
      <3> HIDE DEF first, known
      <3>4. curserv' = first - 1 /\ serverlist' = serverlist
        BY <2>1, <2>3
      <3>5. curserv' \in -1..(Len(serverlist) - 1)
        BY <1>1, <3>3, <3>4
      <3>6. QED
        BY <1>1, <1>3, <2>1, <3>4, <3>5
    <2>4. QED
      BY <2>2, <2>3
  <1>4. QED
    BY <1>2, <1>3

LEMMA SecondlyKeeps ==
  ASSUME ConstantsOK, IInv, Secondly
  PROVE  IInv'
  <1> DEFINE wait == IF cycle > 0 THEN cycle - 1 ELSE 0
  <1>1. wait \in 0..CycleWait /\ 0 \in 0..CycleWait /\ CycleWait \in 0..CycleWait
    BY DEF IInv, TypeOK, ConstantsOK
  <1>2. UNCHANGED <<serv, online, botname, onchan, peer, toServer, toBot, losses, changes>>
    BY DEF Secondly
  <1>3. Lines' /\ Joins' /\ Names'
    BY <1>2 DEF IInv, Lines, Joins, Names, peer
  <1>4. CASE resolvserv \/ serv
    <2>1. cycle' = wait /\ UNCHANGED <<resolvserv, trying, pinged, newserver, curserv, serverlist, target, conns>>
      BY <1>4 DEF Secondly
    <2>2. TypeOK' /\ serverlist' # <<>> /\ OneConnection'
      BY <1>1, <1>2, <2>1 DEF IInv, TypeOK, OneConnection, peer
    <2>3. QED
      BY <1>3, <2>2 DEF IInv
  <1>5. CASE ~resolvserv /\ ~serv
    <2>1. ConnectServer(wait) /\ ~online
      BY <1>5 DEF Secondly, IInv, OneConnection
    <2>2. newserver \in Hosts \cup {NoHost}
      BY DEF IInv, TypeOK
    <2>3. /\ target' \in Hosts \cup {NoHost}
          /\ serverlist' \in Seq(Hosts) /\ serverlist' # <<>>
          /\ curserv' \in -1..(Len(serverlist') - 1)
          /\ cycle' \in 0..CycleWait /\ resolvserv' \in BOOLEAN
      <3>1. CASE NextServer(newserver) /\ resolvserv' = TRUE /\ cycle' = CycleWait
        BY <1>1, <2>2, <3>1, NextServerKeeps DEF IInv
      <3>2. CASE cycle' = wait /\ curserv' = -1 /\ UNCHANGED <<resolvserv, serverlist, target, conns>>
        BY <1>1, <3>2, EmptySeq, LenProperties DEF IInv, TypeOK
      <3>3. QED
        BY <2>1, <3>1, <3>2 DEF ConnectServer
    <2>4. pinged' = FALSE /\ trying' = TRUE /\ newserver' = NoHost
      BY <2>1 DEF ConnectServer
    <2>5. TypeOK'
      BY <1>2, <2>3, <2>4 DEF IInv, TypeOK, peer
    <2>6. OneConnection'
      BY <1>2, <1>5, <2>1 DEF IInv, OneConnection, peer
    <2>7. QED
      BY <1>3, <2>3, <2>5, <2>6 DEF IInv
  <1>6. QED
    BY <1>4, <1>5

LEMMA MinutelyKeeps ==
  ASSUME ConstantsOK, IInv, Minutely
  PROVE  IInv'
  <1> DEFINE m == Msg("ISON", botname)
  <1>1. /\ online /\ Say(<<m>>)
        /\ UNCHANGED <<serv, online, flags, botname, onchan, peer, toBot, bounds>>
    BY DEF Minutely
  <1>2. m \in Asked
    BY DEF Asked, Msg, IInv, TypeOK
  <1>3. TypeOK' /\ serverlist' # <<>> /\ OneConnection' /\ link # "none"
    BY <1>1 DEF IInv, TypeOK, OneConnection, peer, flags
  <1>4. Lines'
    BY <1>1, <1>2, <1>3, Says DEF IInv, Lines, peer
  <1>5. Joins' /\ Names'
    BY <1>1 DEF IInv, Joins, Names, peer
  <1>6. QED
    BY <1>3, <1>4, <1>5 DEF IInv

LEMMA ResolvedKeeps ==
  ASSUME ConstantsOK, IInv, Resolved
  PROVE  IInv'
  <1>1. /\ resolvserv /\ resolvserv' = FALSE /\ ~serv /\ ~online /\ link = "none"
        /\ onchan = {} /\ ircnick = NoNick /\ toServer = <<>> /\ toBot = <<>>
        /\ UNCHANGED <<trying, pinged, cycle, newserver, curserv, serverlist, target, ircnick, taken>>
        /\ online' = online /\ onchan' = onchan
    BY DEF Resolved, IInv, TypeOK, OneConnection, Lines, Joins, Names
  <1>2. CASE serv' = TRUE
    <2> DEFINE m == Msg("NICK", Orig)
    <2>1. /\ link' = "up" /\ botname' = Orig /\ toServer' = <<m>> /\ toBot' = <<>>
      BY <1>1, <1>2 DEF Resolved
    <2>2. Orig \in BotNicks /\ m \in Asked /\ m.cmd = "NICK"
      BY DEF Orig, BotNicks, ConstantsOK, Asked, Msg
    <2>3. TypeOK' /\ serverlist' # <<>> /\ OneConnection'
      BY <1>1, <1>2, <2>1, <2>2 DEF IInv, TypeOK, OneConnection
    <2>4. Lines' /\ Joins'
      BY <1>1, <2>1, <2>2 DEF Lines, Joins, NoJoin
    <2>5. Names'
      BY <1>1, <2>1, <2>2, Nothing DEF IInv, TypeOK, Names
    <2>6. QED
      BY <2>3, <2>4, <2>5 DEF IInv
  <1>3. CASE serv' = FALSE
    <2>1. UNCHANGED <<link, botname, toServer, toBot>>
      BY <1>1, <1>3 DEF Resolved
    <2>2. TypeOK' /\ serverlist' # <<>> /\ OneConnection'
      BY <1>1, <1>3, <2>1 DEF IInv, TypeOK, OneConnection
    <2>3. Lines' /\ Joins' /\ Names'
      BY <1>1, <2>1 DEF IInv, Lines, Joins, Names
    <2>4. QED
      BY <2>2, <2>3 DEF IInv
  <1>4. QED
    BY <1>2, <1>3 DEF Resolved

LEMMA JumpKeeps ==
  ASSUME ConstantsOK, IInv, NEW h \in Hosts \cup {NoHost}, Jump(h)
  PROVE  IInv'
  <1>1. /\ cycle' \in 0..CycleWait /\ newserver' \in Hosts \cup {NoHost}
        /\ UNCHANGED <<resolvserv, trying, pinged, curserv, serverlist, target, botname>>
    BY DEF Jump, IInv, TypeOK, ConstantsOK
  <1>2. CASE serv /\ Disconnect(TRUE)
    <2>1. Lines' /\ Joins' /\ Names' /\ taken' \subseteq BotNicks
      BY <1>2, Disconnected
    <2>2. TypeOK' /\ serverlist' # <<>> /\ OneConnection'
      BY <1>1, <1>2, <2>1 DEF Disconnect, IInv, TypeOK, OneConnection
    <2>3. QED
      BY <2>1, <2>2 DEF IInv
  <1>3. CASE UNCHANGED <<serv, online, onchan, link, ircnick, taken, toServer, toBot>>
    <2>1. TypeOK' /\ serverlist' # <<>> /\ OneConnection'
      BY <1>1, <1>3 DEF IInv, TypeOK, OneConnection
    <2>2. Lines' /\ Joins' /\ Names'
      BY <1>1, <1>3 DEF IInv, Lines, Joins, Names
    <2>3. QED
      BY <2>1, <2>2 DEF IInv
  <1>4. QED
    BY <1>2, <1>3 DEF Jump, NukeServer

-----------------------------------------------------------------------------
(* Reading a line *)

\* What the handler of line m does to the bot and what it says.
LEMMA ActivityFacts ==
  ASSUME ConstantsOK, IInv, Activity
  PROVE  LET m == Head(toBot) IN
         /\ m \in Said /\ toBot # <<>> /\ serv /\ link = "up"
         /\ toBot' = Tail(toBot)
         /\ trying' = FALSE /\ pinged' = FALSE
         /\ online' = (online \/ m.cmd = "001")
         /\ \/ m.cmd = "001" /\ botname' = m.nick
            \/ m.cmd # "001" /\ ~online
            \/ m.cmd # "001" /\ botname' = IF m.cmd = "NICK" /\ m.nick = botname THEN m.new ELSE botname
         /\ botname' \in BotNicks
         /\ m.cmd = "001" => ~online /\ onchan' = {}
         /\ m.cmd = "JOIN" => online /\ onchan' = Chans
         /\ m.cmd \notin {"001", "JOIN"} => onchan' = onchan
         /\ UNCHANGED <<serv, resolvserv, cycle, newserver, curserv, serverlist, target, peer, bounds>>
  <1> DEFINE m == Head(toBot)
  <1>1. /\ serv /\ toBot # <<>> /\ trying' = FALSE /\ pinged' = FALSE /\ toBot' = Tail(toBot)
        /\ UNCHANGED <<serv, resolvserv, cycle, newserver, curserv, serverlist, target, peer, bounds>>
    BY DEF Activity
  <1>2. toBot \in Seq(Said) /\ link = "up" /\ Knows(toBot, online, botname, ircnick)
    BY <1>1 DEF IInv, Lines, Names
  <1>3. m \in Said /\ m = toBot[1] /\ 1 \in 1..Len(toBot)
    BY <1>1, <1>2, OneLess
  <1>4. online \in BOOLEAN /\ botname \in BotNicks /\ ircnick \in BotNicks \cup {NoNick}
    BY DEF IInv, TypeOK
  <1>5. /\ online => m.cmd # "001"
        /\ m.cmd = "NICK" => online
        /\ m.cmd = "NICK" /\ m.nick = botname => m.new \in BotNicks
    BY <1>1, <1>2, <1>4, Heard
  <1>6. m.cmd = "JOIN" => online
    BY <1>3 DEF IInv, Joins, NoJoin
  <1> HIDE DEF m
  <1>7. CASE m.cmd = "001"
    <2>1. Registered(m)
      BY <1>7 DEF Activity, m
    <2>2. m.nick \in BotNicks
      BY <1>3, <1>7 DEF Said
    <2>3. QED
      BY <1>1, <1>2, <1>3, <1>5, <1>7, <2>1, <2>2 DEF Registered, m
  <1>8. CASE m.cmd = "433"
    <2>1. NickRefused /\ UNCHANGED <<online, onchan>>
      BY <1>8 DEF Activity, m
    <2>2. Fallback(botname) \in BotNicks
      BY <1>4 DEF Fallback, BotNicks, ConstantsOK
    <2>3. QED
      BY <1>1, <1>2, <1>3, <1>4, <1>8, <2>1, <2>2 DEF NickRefused, m
  <1>9. CASE m.cmd = "NICK"
    <2>1. GotNick(m) /\ UNCHANGED <<online, onchan>>
      BY <1>9 DEF Activity, m
    <2>2. QED
      BY <1>1, <1>2, <1>3, <1>4, <1>5, <1>9, <2>1 DEF GotNick, m
  <1>10. CASE m.cmd \in {"303", "PONG", "020"}
    <2>1. UNCHANGED <<online, onchan, botname>>
      BY <1>10 DEF Activity, m
    <2>2. QED
      BY <1>1, <1>2, <1>3, <1>4, <1>10, <2>1 DEF m
  <1>11. CASE m.cmd = "JOIN"
    <2>1. onchan' = Chans /\ UNCHANGED <<online, botname>>
      BY <1>11 DEF Activity, m
    <2>2. QED
      BY <1>1, <1>2, <1>3, <1>4, <1>6, <1>11, <2>1 DEF m
  <1>12. m.cmd \in {"001", "433", "NICK", "303", "PONG", "020", "JOIN"}
    BY <1>3 DEF Said
  <1>13. QED
    BY <1>7, <1>8, <1>9, <1>10, <1>11, <1>12

\* Only the line that registers the bot is answered with the channels to join.
LEMMA ActivitySays ==
  ASSUME ConstantsOK, IInv, Activity
  PROVE  \E ms : /\ Say(ms) \/ (ms = <<>> /\ toServer' = toServer)
                 /\ ms = <<>> \/ \E q \in Asked : ms = <<q>>
                 /\ ms # <<>> /\ ms[1].cmd = "JOIN" => Head(toBot).cmd = "001"
  <1> DEFINE m == Head(toBot)
  <1>1. m \in Said /\ botname \in BotNicks /\ botname' \in BotNicks
    BY ActivityFacts DEF IInv, TypeOK
  <1>2. \A n \in BotNicks : Msg("NICK", n) \in Asked /\ Msg("NICK", n).cmd = "NICK"
    BY DEF Asked, Msg
  <1>3. Msg("JOIN", NoNick) \in Asked
    BY DEF Asked, Msg
  <1>4. Orig \in BotNicks /\ Alt \in BotNicks
    BY DEF ConstantsOK, Orig, Alt, BotNicks
  <1> HIDE DEF m
  <1>5. CASE m.cmd = "001"
    BY <1>3, <1>5 DEF Activity, Registered, m
  <1>6. CASE m.cmd = "433"
    BY <1>1, <1>2, <1>6 DEF Activity, NickRefused, m
  <1>7. CASE m.cmd = "NICK"
    BY <1>1, <1>2, <1>4, <1>7 DEF Activity, GotNick, m
  <1>8. CASE m.cmd = "303"
    BY <1>1, <1>2, <1>4, <1>8 DEF Activity, Got303, m
  <1>9. CASE m.cmd \in {"PONG", "020", "JOIN"}
    BY <1>9 DEF Activity, m
  <1>10. m.cmd \in {"001", "433", "NICK", "303", "PONG", "020", "JOIN"}
    BY <1>1 DEF Said, m
  <1>11. QED
    BY <1>5, <1>6, <1>7, <1>8, <1>9, <1>10

LEMMA ActivityKeeps ==
  ASSUME ConstantsOK, IInv, Activity
  PROVE  IInv'
  <1> DEFINE m == Head(toBot)
  <1>1. /\ m \in Said /\ toBot # <<>> /\ serv /\ link = "up" /\ link' = link
        /\ toBot' = Tail(toBot)
        /\ trying' = FALSE /\ pinged' = FALSE
        /\ online' = (online \/ m.cmd = "001")
        /\ botname' \in BotNicks
        /\ m.cmd = "001" => ~online /\ onchan' = {}
        /\ m.cmd = "JOIN" => online /\ onchan' = Chans
        /\ m.cmd \notin {"001", "JOIN"} => onchan' = onchan
        /\ UNCHANGED <<serv, resolvserv, cycle, newserver, curserv, serverlist, target, peer>>
    BY ActivityFacts DEF peer
  <1>2. TypeOK' /\ serverlist' # <<>> /\ OneConnection'
    BY <1>1 DEF IInv, TypeOK, OneConnection, peer
  <1>3. /\ toBot \in Seq(Said) /\ online \in BOOLEAN /\ ircnick \in BotNicks \cup {NoNick}
        /\ Knows(toBot, online, botname, ircnick)
    BY <1>1 DEF IInv, TypeOK, Lines, Names
  <1>4. Names'
    <2>1. Knows(Tail(toBot), online \/ m.cmd = "001", botname', ircnick)
      BY <1>1, <1>3, Heard, ActivityFacts
    <2>2. Knows(toBot', online', botname', ircnick')
      BY <1>1, <2>1 DEF peer
    <2>3. QED
      BY <1>1, <2>2 DEF IInv, Names, peer
  <1>5. PICK ms : /\ Say(ms) \/ (ms = <<>> /\ toServer' = toServer)
                  /\ ms = <<>> \/ \E q \in Asked : ms = <<q>>
                  /\ ms # <<>> /\ ms[1].cmd = "JOIN" => m.cmd = "001"
    BY ActivitySays
  <1>6. /\ toServer' \in Seq(Asked)
        /\ NoJoin(toServer) /\ (ms # <<>> => ms[1].cmd # "JOIN") => NoJoin(toServer')
    <2>1. CASE Say(ms)
      BY <1>1, <1>5, <2>1, Says DEF IInv
    <2>2. CASE toServer' = toServer
      BY <2>2 DEF IInv, Lines
    <2>3. QED
      BY <1>5, <2>1, <2>2
  <1>7. toBot' \in Seq(Said) /\ (NoJoin(toBot) => NoJoin(toBot'))
    BY <1>1, <1>3, OneLess DEF NoJoin
  <1>8. Lines'
    BY <1>1, <1>6, <1>7 DEF Lines, peer
  <1>9. Joins'
    BY <1>1, <1>5, <1>6, <1>7 DEF IInv, Joins
  <1>10. QED
    BY <1>2, <1>4, <1>8, <1>9 DEF IInv

-----------------------------------------------------------------------------
(* The server's steps *)

\* What the server appends to the lines under way, and when the bot knows no less for it.
LEMMA Replies ==
  ASSUME ConstantsOK, IInv, link = "up", NEW m \in Said, toBot' = toBot \o <<m>>,
         UNCHANGED <<online, botname, link>>,
         ircnick' \in BotNicks \cup {NoNick},
         m.cmd = "JOIN" => online,
         \/ m.cmd \notin {"001", "NICK"} /\ ircnick' = ircnick
         \/ m.cmd = "NICK" /\ ircnick # NoNick /\ ircnick' \in BotNicks
              /\ ircnick' = IF m.nick = ircnick THEN m.new ELSE ircnick
  PROVE  /\ toBot' \in Seq(Said)
         /\ ~online => NoJoin(toBot')
         /\ Knows(toBot', online', botname', ircnick')
  <1>1. /\ toBot \in Seq(Said) /\ online \in BOOLEAN /\ ircnick \in BotNicks \cup {NoNick}
        /\ Knows(toBot, online, botname, ircnick)
        /\ ~online => NoJoin(toBot)
    BY DEF IInv, TypeOK, Lines, Joins, Names
  <1>2. Knows(toBot \o <<m>>, online, botname, ircnick')
    BY <1>1, Appended
  <1>3. Knows(toBot', online', botname', ircnick')
    BY <1>2
  <1>4. /\ toBot' \in Seq(Said) /\ Len(toBot') = Len(toBot) + 1 /\ Len(toBot) \in Nat
        /\ \A i \in 1..Len(toBot) : toBot'[i] = toBot[i]
        /\ toBot'[Len(toBot) + 1] = m
    BY <1>1, OneMore
  <1>5. ASSUME ~online
        PROVE  NoJoin(toBot')
    BY <1>1, <1>4, <1>5 DEF NoJoin
  <1>6. QED
    BY <1>3, <1>4, <1>5

\* The bot is let in: two lines.
LEMMA LetsIn ==
  ASSUME ConstantsOK, IInv, link = "up", NEW n \in BotNicks, ircnick = NoNick,
         toBot' = toBot \o <<Msg("020", NoNick), Msg("001", n)>>,
         UNCHANGED <<online, botname, link>>, ircnick' = n
  PROVE  /\ toBot' \in Seq(Said)
         /\ ~online => NoJoin(toBot')
         /\ Knows(toBot', online', botname', ircnick')
  <1> DEFINE a == Msg("020", NoNick)
             b == Msg("001", n)
             s == toBot \o <<a>>
  <1>1. a \in Said /\ b \in Said /\ a.cmd = "020" /\ b.cmd = "001" /\ b.nick = n
    BY DEF Msg, Said
  <1>2. /\ toBot \in Seq(Said) /\ online \in BOOLEAN /\ NoNick \in BotNicks \cup {NoNick}
        /\ Knows(toBot, online, botname, NoNick)
        /\ ~online => NoJoin(toBot)
    BY DEF IInv, TypeOK, Lines, Joins, Names
  <1> HIDE DEF a, b
  <1>3. Knows(s, online, botname, NoNick)
    BY <1>1, <1>2, Appended
  <1>4. /\ s \in Seq(Said) /\ Len(s) = Len(toBot) + 1 /\ Len(toBot) \in Nat
        /\ \A i \in 1..Len(toBot) : s[i] = toBot[i]
        /\ s[Len(toBot) + 1] = a
    BY <1>1, <1>2, OneMore
  <1> HIDE DEF s
  <1>5. Knows(s \o <<b>>, online, botname, n)
    BY <1>1, <1>2, <1>3, <1>4, Appended
  <1>6. /\ s \o <<b>> \in Seq(Said) /\ Len(s \o <<b>>) = Len(s) + 1
        /\ \A i \in 1..Len(s) : (s \o <<b>>)[i] = s[i]
        /\ (s \o <<b>>)[Len(s) + 1] = b
    BY <1>1, <1>4, OneMore
  <1>7. toBot' = s \o <<b>>
    <2>1. <<a, b>> = <<a>> \o <<b>>
      <3>1. <<a, b>> = Append(<<a>>, b) /\ <<a>> \in Seq(Said)
        BY <1>1
      <3>2. QED
        BY <1>1, <3>1, AppendIsConcat
    <2>2. toBot' = toBot \o (<<a>> \o <<b>>)
      BY <2>1 DEF a, b
    <2>3. <<a>> \in Seq(Said) /\ <<b>> \in Seq(Said)
      BY <1>1
    <2>4. QED
      BY <1>2, <2>2, <2>3, ConcatAssociative DEF s
  <1>8. ASSUME ~online
        PROVE  NoJoin(toBot')
    BY <1>1, <1>2, <1>4, <1>6, <1>7, <1>8 DEF NoJoin
  <1>9. QED
    BY <1>5, <1>6, <1>7, <1>8

LEMMA ServerReadsKeeps ==
  ASSUME ConstantsOK, IInv, ServerReads
  PROVE  IInv'
  <1> DEFINE m == Head(toServer)
  <1>1. /\ link = "up" /\ toServer # <<>> /\ toServer' = Tail(toServer)
        /\ UNCHANGED <<serv, online, flags, botname, onchan, link, taken, bounds>>
    BY DEF ServerReads
  <1>2. /\ toServer \in Seq(Asked) /\ toBot \in Seq(Said) /\ online \in BOOLEAN
        /\ ircnick \in BotNicks \cup {NoNick} /\ NoNick \notin BotNicks /\ ircnick \notin taken
        /\ taken \subseteq BotNicks /\ Orig \in BotNicks /\ Alt \in BotNicks
        /\ Knows(toBot, online, botname, ircnick)
        /\ ~online => NoJoin(toBot)
    BY <1>1 DEF IInv, TypeOK, Lines, Joins, Names, NoNick, BotNicks, Orig, Alt, ConstantsOK
  <1>3. /\ m \in Asked /\ m = toServer[1] /\ 1 \in 1..Len(toServer) /\ toServer' \in Seq(Asked)
        /\ NoJoin(toServer) => NoJoin(toServer')
    BY <1>1, <1>2, OneLess DEF NoJoin
  <1>4. m.cmd = "JOIN" => online
    BY <1>3 DEF IInv, Joins, NoJoin
  <1> HIDE DEF m
  <1>5. /\ toBot' \in Seq(Said) /\ ircnick' \in BotNicks \cup {NoNick} /\ ircnick' \notin taken
        /\ ~online => NoJoin(toBot')
        /\ Knows(toBot', online', botname', ircnick')
    <2>1. CASE m.cmd = "NICK" /\ m.nick \in taken
      <3>1. Msg("433", m.nick) \in Said /\ Msg("433", m.nick).cmd = "433"
        BY <1>2, <2>1 DEF Msg, Said
      <3>2. toBot' = toBot \o <<Msg("433", m.nick)>> /\ ircnick' = ircnick
        BY <2>1 DEF ServerReads, Reply, m
      <3>3. QED
        BY <1>1, <1>2, <3>1, <3>2, Replies
    <2>2. CASE m.cmd = "NICK" /\ m.nick \notin taken
      <3>1. m.nick \in BotNicks /\ ircnick' = m.nick
        BY <1>3, <2>2 DEF ServerReads, Asked, m
      <3>2. CASE ircnick = NoNick
        <4>1. toBot' = toBot \o <<Msg("020", NoNick), Msg("001", m.nick)>>
          BY <2>2, <3>2 DEF ServerReads, Reply, m
        <4>2. QED
          BY <1>1, <1>2, <2>2, <3>1, <3>2, <4>1, LetsIn
      <3>3. CASE ircnick = m.nick
        <4>1. toBot' = toBot \o <<>>
          BY <1>2, <2>2, <3>1, <3>3 DEF ServerReads, Reply, m
        <4>2. toBot' = toBot
          BY <1>2, <4>1, ConcatEmptySeq
        <4>3. QED
          BY <1>1, <1>2, <3>1, <3>3, <4>2
      <3>4. CASE ircnick # NoNick /\ ircnick # m.nick
        <4> DEFINE r == [cmd |-> "NICK", nick |-> ircnick, new |-> m.nick]
        <4>1. toBot' = toBot \o <<r>>
          BY <2>2, <3>4 DEF ServerReads, Reply, m
        <4>2. r \in Said /\ r.cmd = "NICK" /\ r.nick = ircnick /\ r.new = m.nick
          BY <1>2, <3>1, <3>4 DEF Said
        <4> HIDE DEF r
        <4>3. QED
          BY <1>1, <1>2, <2>2, <3>1, <3>4, <4>1, <4>2, Replies
      <3>5. QED
        BY <3>2, <3>3, <3>4
    <2>3. CASE m.cmd = "ISON"
      <3> DEFINE r == [cmd |-> "303", on |-> ({m.nick, Orig, Alt} \cap (taken \cup {ircnick}))]
      <3>1. toBot' = toBot \o <<r>> /\ ircnick' = ircnick
        BY <2>3 DEF ServerReads, Reply, m
      <3>2. m.nick \in BotNicks
        BY <1>3, <2>3 DEF Asked
      <3>3. r \in Said /\ r.cmd = "303"
        BY <1>2, <3>2 DEF Said
      <3> HIDE DEF r
      <3>4. QED
        BY <1>1, <1>2, <3>1, <3>3, Replies
    <2>4. CASE m.cmd = "PING"
      <3>1. Msg("PONG", NoNick) \in Said /\ Msg("PONG", NoNick).cmd = "PONG"
        BY DEF Msg, Said
      <3>2. toBot' = toBot \o <<Msg("PONG", NoNick)>> /\ ircnick' = ircnick
        BY <2>4 DEF ServerReads, Reply, m
      <3>3. QED
        BY <1>1, <1>2, <3>1, <3>2, Replies
    <2>5. CASE m.cmd = "JOIN"
      <3>1. Msg("JOIN", NoNick) \in Said /\ Msg("JOIN", NoNick).cmd = "JOIN"
        BY DEF Msg, Said
      <3>2. toBot' = toBot \o <<Msg("JOIN", NoNick)>> /\ ircnick' = ircnick
        BY <2>5 DEF ServerReads, Reply, m
      <3>3. QED
        BY <1>1, <1>2, <1>4, <2>5, <3>1, <3>2, Replies
    <2>6. QED
      BY <1>3, <2>1, <2>2, <2>3, <2>4, <2>5 DEF Asked
  <1>6. TypeOK' /\ serverlist' # <<>> /\ OneConnection'
    BY <1>1, <1>5 DEF IInv, TypeOK, OneConnection, flags
  <1>7. Lines' /\ Joins' /\ Names'
    BY <1>1, <1>3, <1>5 DEF IInv, Lines, Joins, Names
  <1>8. QED
    BY <1>6, <1>7 DEF IInv

LEMMA FallsSilentKeeps ==
  ASSUME ConstantsOK, IInv, FallsSilent
  PROVE  IInv'
  <1>1. /\ link = "up" /\ link' = "silent" /\ toBot' = <<>> /\ toServer' = <<>>
        /\ UNCHANGED <<serv, online, flags, botname, onchan, ircnick, taken, conns, changes>>
    BY DEF FallsSilent
  <1>2. TypeOK' /\ serverlist' # <<>> /\ OneConnection'
    BY <1>1 DEF IInv, TypeOK, OneConnection, flags
  <1>3. Lines' /\ Joins' /\ Names'
    BY <1>1 DEF IInv, Lines, Joins, Names, NoJoin
  <1>4. QED
    BY <1>2, <1>3 DEF IInv

LEMMA OthersTakeKeeps ==
  ASSUME ConstantsOK, IInv, NEW n \in BotNicks, OthersTake(n)
  PROVE  IInv'
  <1>1. /\ n # ircnick /\ taken' = taken \cup {n}
        /\ UNCHANGED <<serv, online, flags, botname, onchan, link, ircnick, toServer, toBot>>
    BY DEF OthersTake
  <1>2. TypeOK' /\ serverlist' # <<>> /\ OneConnection'
    BY <1>1 DEF IInv, TypeOK, OneConnection, flags
  <1>3. Lines' /\ Joins' /\ Names'
    BY <1>1 DEF IInv, Lines, Joins, Names
  <1>4. QED
    BY <1>2, <1>3 DEF IInv

\* A user who is not the bot drops a nick: nothing that the bot takes for its own.
LEMMA OthersLeaveKeeps ==
  ASSUME ConstantsOK, IInv, NEW n \in BotNicks, OthersLeave(n)
  PROVE  IInv'
  <1>1. /\ n \in taken /\ taken' = taken \ {n}
        /\ UNCHANGED <<serv, online, flags, botname, onchan, link, ircnick, toServer, bounds>>
    BY DEF OthersLeave
  <1>2. TypeOK' /\ serverlist' # <<>> /\ OneConnection'
    BY <1>1 DEF IInv, TypeOK, OneConnection, flags
  <1>3. ircnick' \notin taken'
    BY <1>1 DEF IInv, Names
  <1>4. CASE toBot' = toBot
    <2>1. Lines' /\ Joins' /\ Names'
      BY <1>1, <1>3, <1>4 DEF IInv, Lines, Joins, Names
    <2>2. QED
      BY <1>2, <2>1 DEF IInv
  <1>5. CASE toBot' # toBot
    <2> DEFINE r == [cmd |-> "NICK", nick |-> n, new |-> NoNick]
    <2>1. link = "up" /\ onchan # {} /\ toBot' = toBot \o <<r>>
      BY <1>5 DEF OthersLeave, Reply
    <2>2. r \in Said /\ r.cmd = "NICK" /\ r.nick = n
      BY DEF Said
    <2>3. online /\ ircnick \in BotNicks \cup {NoNick} /\ ircnick # n
      BY <1>1, <2>1 DEF IInv, Joins, Names, TypeOK
    <2>4. ircnick # NoNick
      <3>1. PICK at \in 0..(Len(toBot) + 1), names \in [0..Len(toBot) -> BotNicks] :
              Told(toBot, at, names, online, botname, ircnick)
        BY <2>1 DEF IInv, Names, Knows
      <3>2. Len(toBot) \in Nat
        BY DEF IInv, Lines
      <3>3. QED
        BY <2>3, <3>1, <3>2 DEF Told
    <2> HIDE DEF r
    <2>5. /\ toBot' \in Seq(Said)
          /\ Knows(toBot', online', botname', ircnick')
      BY <1>1, <2>1, <2>2, <2>3, <2>4, Replies
    <2>6. Lines' /\ Joins' /\ Names'
      BY <1>1, <1>3, <2>1, <2>3, <2>5 DEF IInv, Lines, Joins, Names
    <2>7. QED
      BY <1>2, <2>6 DEF IInv
  <1>6. QED
    BY <1>4, <1>5

LEMMA RenamedKeeps ==
  ASSUME ConstantsOK, IInv, NEW n \in BotNicks, Renamed(n)
  PROVE  IInv'
  <1> DEFINE r == [cmd |-> "NICK", nick |-> ircnick, new |-> n]
  <1>1. /\ link = "up" /\ ircnick # NoNick /\ n \notin taken /\ ircnick' = n
        /\ toBot' = toBot \o <<r>>
        /\ UNCHANGED <<serv, online, flags, botname, onchan, link, taken, toServer, conns, losses>>
    BY DEF Renamed, Reply
  <1>2. r \in Said /\ r.cmd = "NICK" /\ r.nick = ircnick /\ r.new = n
    BY <1>1 DEF Said, IInv, TypeOK
  <1> HIDE DEF r
  <1>3. /\ toBot' \in Seq(Said)
        /\ ~online => NoJoin(toBot')
        /\ Knows(toBot', online', botname', ircnick')
    BY <1>1, <1>2, Replies
  <1>4. TypeOK' /\ serverlist' # <<>> /\ OneConnection'
    BY <1>1 DEF IInv, TypeOK, OneConnection, flags
  <1>5. Lines' /\ Joins' /\ Names'
    BY <1>1, <1>3 DEF IInv, Lines, Joins, Names
  <1>6. QED
    BY <1>4, <1>5 DEF IInv

-----------------------------------------------------------------------------
(* The theorems *)

LEMMA NextKeeps ==
  ASSUME ConstantsOK, IInv, [Next]_vars
  PROVE  IInv'
  <1>1. CASE UNCHANGED vars
    BY <1>1 DEF vars, IInv, TypeOK, OneConnection, Lines, Joins, Names
  <1>2. CASE Next
    BY <1>2, EofServerKeeps, TimeoutServerKeeps, FiveMinutelyKeeps, SecondlyKeeps, MinutelyKeeps,
       ResolvedKeeps, ActivityKeeps, ServerReadsKeeps, FallsSilentKeeps, JumpKeeps,
       OthersTakeKeeps, OthersLeaveKeeps, RenamedKeeps
       DEF Next
  <1>3. QED
    BY <1>1, <1>2

\* The invariant is one.
THEOREM ConnInvariance == ASSUME ConstantsOK PROVE Spec => []IInv
  <1>1. Init => IInv
    BY InitHolds
  <1>2. IInv /\ [Next]_vars => IInv'
    BY NextKeeps
  <1>3. QED
    BY <1>1, <1>2, PTL DEF Spec

\* When nothing is under way, the bot calls itself what the server calls it.
LEMMA NickKnown ==
  ASSUME ConstantsOK, IInv
  PROVE  NickAgrees
  <1> SUFFICES ASSUME online, link = "up", toBot = <<>>
               PROVE  botname = ircnick
    BY DEF NickAgrees
  <1>1. PICK at \in 0..(Len(toBot) + 1), names \in [0..Len(toBot) -> BotNicks] :
          Told(toBot, at, names, online, botname, ircnick)
    BY DEF IInv, Names, Knows
  <1>2. Len(toBot) = 0
    OBVIOUS
  <1>3. QED
    BY <1>1, <1>2 DEF Told

\* The flags describe one connection and the bot knows its nick on it (MCServer's ConnectionKept),
\* whatever the servers, the nicks and the settings.
THEOREM ConnectionIsKept == ASSUME ConstantsOK PROVE Spec => []ConnectionKept
  <1>1. IInv => ConnectionKept
    BY NickKnown DEF IInv, ConnectionKept
  <1>2. QED
    BY <1>1, ConnInvariance, PTL

-----------------------------------------------------------------------------
(* The abstract session *)

\* A server that was asked for is asked for until a connection to it is begun: the timer does not
\* wait meanwhile.
WantedNow == conns \in Nat /\ (newserver # NoHost => cycle = 0)

LEMMA WantedNowKeeps ==
  ASSUME ConstantsOK, IInv, WantedNow, [Next]_vars
  PROVE  WantedNow'
  <1>1. CASE UNCHANGED vars
    BY <1>1 DEF vars, WantedNow
  <1>2. CASE Secondly
    BY <1>2 DEF Secondly, ConnectServer, WantedNow, IInv, TypeOK
  <1>3. CASE \E h \in Hosts \cup {NoHost} : Jump(h)
    BY <1>3 DEF Jump, WantedNow
  <1>4. CASE UNCHANGED <<cycle, newserver, conns>>
    BY <1>4 DEF WantedNow
  <1>5. QED
    BY <1>1, <1>2, <1>3, <1>4
       DEF Next, EofServer, TimeoutServer, FiveMinutely, Minutely, Resolved, Activity,
           ServerReads, FallsSilent, OthersTake, OthersLeave, Renamed, flags, bounds

\* A session is given up, and everything that goes with it.
LEMMA GivenUp ==
  ASSUME IInv, NEW toldIt, Disconnect(toldIt), serv, resolvserv' = resolvserv,
         newserver' \in Hosts \cup {newserver}, UNCHANGED <<conns, target>>
  PROVE  Abstract!End
  BY DEF Abstract!End, Disconnect, IInv, OneConnection

LEMMA NothingSeen ==
  ASSUME UNCHANGED <<online, serv, resolvserv, conns, target, newserver, onchan>>
  PROVE  UNCHANGED Abstract!vars
  BY DEF Abstract!vars

LEMMA StepOfSession ==
  ASSUME ConstantsOK, TableFull = FALSE, IInv, WantedNow, [Next]_vars
  PROVE  [Abstract!Next]_(Abstract!vars)
  <1>1. CASE UNCHANGED vars
    BY <1>1, NothingSeen DEF vars
  <1>2. CASE EofServer
    <2>1. PICK toldIt \in BOOLEAN : Disconnect(toldIt)
      BY <1>2 DEF EofServer
    <2>2. serv /\ UNCHANGED <<resolvserv, conns, target, newserver>>
      BY <1>2 DEF EofServer, flags, IInv, OneConnection
    <2>3. Abstract!End
      BY <2>1, <2>2, GivenUp
    <2>4. QED
      BY <2>3 DEF Abstract!Next
  <1>3. CASE TimeoutServer
    <2>1. Disconnect(FALSE) /\ serv /\ UNCHANGED <<resolvserv, conns, target, newserver>>
      BY <1>3 DEF TimeoutServer, flags, bounds
    <2>2. Abstract!End
      BY <2>1, GivenUp
    <2>3. QED
      BY <2>2 DEF Abstract!Next
  <1>4. CASE FiveMinutely
    <2>1. CASE pinged
      <3>1. Disconnect(FALSE) /\ serv /\ UNCHANGED <<resolvserv, conns, target, newserver>>
        BY <1>4, <2>1 DEF FiveMinutely, flags, bounds, IInv, OneConnection
      <3>2. Abstract!End
        BY <3>1, GivenUp
      <3>3. QED
        BY <3>2 DEF Abstract!Next
    <2>2. CASE ~pinged
      BY <1>4, <2>2, NothingSeen DEF FiveMinutely, bounds
    <2>3. QED
      BY <2>1, <2>2
  <1>5. CASE Secondly
    <2>1. CASE resolvserv \/ serv
      BY <1>5, <2>1, NothingSeen DEF Secondly
    <2>2. CASE ~resolvserv /\ ~serv
      <3>1. UNCHANGED <<serv, online, onchan>> /\ ~online /\ onchan = {}
        BY <1>5, <2>2 DEF Secondly, IInv, OneConnection, Joins
      <3>2. newserver \in Hosts \cup {NoHost} /\ conns \in Nat
        BY DEF IInv, TypeOK, WantedNow
      <3>3. ConnectServer(IF cycle > 0 THEN cycle - 1 ELSE 0)
        BY <1>5, <2>2 DEF Secondly
      <3>4. newserver' = NoHost
        BY <3>3 DEF ConnectServer
      <3>5. CASE NextServer(newserver) /\ resolvserv' = TRUE /\ conns' = conns + 1
        <4>1. target' \in Hosts /\ (newserver # NoHost => target' = newserver)
          BY <3>2, <3>5, NextServerKeeps DEF IInv
        <4>2. Abstract!Begin
          BY <2>2, <3>1, <3>4, <3>5, <4>1 DEF Abstract!Begin
        <4>3. QED
          BY <4>2 DEF Abstract!Next
      <3>6. CASE /\ (IF cycle > 0 THEN cycle - 1 ELSE 0) > 0
                 /\ UNCHANGED <<resolvserv, target, conns>>
        <4>1. newserver = NoHost
          BY <3>6 DEF WantedNow
        <4>2. QED
          BY <3>1, <3>4, <3>6, <4>1, NothingSeen
      <3>7. QED
        BY <3>3, <3>5, <3>6 DEF ConnectServer
    <2>3. QED
      BY <2>1, <2>2
  <1>6. CASE Minutely
    BY <1>6, NothingSeen DEF Minutely, flags, bounds
  <1>7. CASE Resolved
    <2>1. /\ resolvserv /\ resolvserv' = FALSE /\ ~serv /\ ~online /\ online' = online
          /\ onchan = {} /\ onchan' = onchan
          /\ UNCHANGED <<newserver, target, conns>>
      BY <1>7 DEF Resolved, IInv, OneConnection, Joins
    <2>2. CASE serv' = TRUE
      BY <2>1, <2>2 DEF Abstract!vars
    <2>3. CASE serv' = FALSE
      <3>1. Abstract!End
        BY <2>1, <2>3 DEF Abstract!End
      <3>2. QED
        BY <3>1 DEF Abstract!Next
    <2>4. QED
      BY <1>7, <2>2, <2>3 DEF Resolved
  <1>8. CASE Activity
    <2> DEFINE m == Head(toBot)
    <2>1. /\ serv /\ online' = (online \/ m.cmd = "001")
          /\ m.cmd = "001" => ~online /\ onchan' = {}
          /\ m.cmd = "JOIN" => online /\ onchan' = Chans
          /\ m.cmd \notin {"001", "JOIN"} => onchan' = onchan
          /\ UNCHANGED <<serv, resolvserv, newserver, target, conns>>
      BY <1>8, ActivityFacts DEF bounds
    <2> HIDE DEF m
    <2>2. CASE m.cmd = "001"
      <3>1. Abstract!Register
        BY <2>1, <2>2 DEF Abstract!Register, IInv, Joins
      <3>2. QED
        BY <3>1 DEF Abstract!Next
    <2>3. CASE m.cmd = "JOIN"
      <3>1. Abstract!Join
        BY <2>1, <2>3 DEF Abstract!Join
      <3>2. QED
        BY <3>1 DEF Abstract!Next
    <2>4. CASE m.cmd \notin {"001", "JOIN"}
      <3>1. online' = online
        BY <2>1, <2>4 DEF IInv, TypeOK
      <3>2. QED
        BY <2>1, <2>4, <3>1, NothingSeen
    <2>5. QED
      BY <2>2, <2>3, <2>4
  <1>9. CASE \E h \in Hosts \cup {NoHost} : Jump(h)
    <2>1. PICK h \in Hosts \cup {NoHost} : Jump(h)
      BY <1>9
    <2>2. UNCHANGED <<resolvserv, target, conns>> /\ newserver' = IF h = NoHost THEN newserver ELSE h
      BY <2>1 DEF Jump
    <2>3. CASE serv /\ Disconnect(TRUE)
      <3>1. Abstract!End
        BY <2>2, <2>3, GivenUp
      <3>2. QED
        BY <3>1 DEF Abstract!Next
    <2>4. CASE UNCHANGED <<serv, online, onchan>>
      <3>1. CASE h = NoHost
        BY <2>2, <2>4, <3>1, NothingSeen
      <3>2. CASE h # NoHost
        <4>1. Abstract!Ask
          BY <2>2, <2>4, <3>2 DEF Abstract!Ask
        <4>2. QED
          BY <4>1 DEF Abstract!Next
      <3>3. QED
        BY <3>1, <3>2
    <2>5. QED
      BY <2>1, <2>3, <2>4 DEF Jump, NukeServer
  <1>10. CASE ServerReads \/ FallsSilent
    BY <1>10, NothingSeen DEF ServerReads, FallsSilent, flags, bounds
  <1>11. CASE \E n \in BotNicks : OthersTake(n) \/ OthersLeave(n) \/ Renamed(n)
    BY <1>11, NothingSeen DEF OthersTake, OthersLeave, Renamed, flags, bounds
  <1>12. QED
    BY <1>1, <1>2, <1>3, <1>4, <1>5, <1>6, <1>7, <1>8, <1>9, <1>10, <1>11 DEF Next

\* Every behaviour of the connection is one of the abstract session, provided the table of
\* connections is not full: connect_server gives up the server that was asked for before it finds
\* that there is no room (servmsg.c:1197 and 1216).
THEOREM SessionsAreKept == ASSUME ConstantsOK, TableFull = FALSE PROVE Spec => KeepsSessions
  <1>1. Init => Abstract!Init /\ WantedNow
    BY DEF Init, Abstract!Init, WantedNow
  <1>2. Init => IInv
    BY InitHolds
  <1>3. IInv /\ WantedNow /\ [Next]_vars => IInv' /\ WantedNow'
    BY NextKeeps, WantedNowKeeps
  <1>4. IInv /\ WantedNow /\ [Next]_vars => [Abstract!Next]_(Abstract!vars)
    BY StepOfSession
  <1>5. QED
    BY <1>1, <1>2, <1>3, <1>4, PTL DEF Spec, KeepsSessions, Abstract!Spec

-----------------------------------------------------------------------------
(***************************************************************************)
(* The queues to the server.                                               *)
(***************************************************************************)
LEMMA LeastOfMany ==
  ASSUME NEW S, S \subseteq Nat, S # {}
  PROVE  \E x \in S : \A y \in S : x <= y
  <1>1. PICK x \in S : \A y \in S : ~(<<y, x>> \in OpToRel(<, Nat))
    BY NatLessThanWellFounded, WFMin
  <1>2. \A y \in S : x <= y
    <2> SUFFICES ASSUME NEW y \in S PROVE x <= y
      OBVIOUS
    <2>1. ~(y < x)
      BY <1>1 DEF OpToRel
    <2> QED  BY <2>1
  <1> QED  BY <1>2

-----------------------------------------------------------------------------
(* The elements at some places of a sequence.                               *)

ChosenOf(C, s, S, N) ==
  C = [k \in 0..N |-> IF k = 0 THEN <<>> ELSE IF k \in S THEN Append(C[k - 1], s[k]) ELSE C[k - 1]]

LEMMA ChosenExists ==
  ASSUME NEW s, NEW S, NEW N \in Nat
  PROVE  \E C : ChosenOf(C, s, S, N)
  <1> DEFINE D == {n \in Nat : ~\E C : ChosenOf(C, s, S, n)}
  <1>1. SUFFICES ASSUME D # {} PROVE FALSE
    OBVIOUS
  <1>2. PICK n \in D : \A y \in D : n <= y
    BY <1>1, LeastOfMany
  <1>3. n \in Nat /\ ~\E C : ChosenOf(C, s, S, n)
    BY <1>2
  <1>4. CASE n = 0
    <2> DEFINE C == [k \in 0..0 |-> <<>>]
    <2>1. ChosenOf(C, s, S, 0)
      BY DEF ChosenOf
    <2> QED  BY <1>3, <1>4, <2>1
  <1>5. CASE n # 0
    <2>1. n - 1 \in Nat /\ ~(n <= n - 1)
      BY <1>3, <1>5
    <2>2. PICK C : ChosenOf(C, s, S, n - 1)
      BY <1>2, <2>1
    <2> DEFINE last == IF n \in S THEN Append(C[n - 1], s[n]) ELSE C[n - 1]
               G == [k \in 0..n |-> IF k = n THEN last ELSE C[k]]
    <2>3. \A k \in 0..n : G[k] = IF k = 0 THEN <<>> ELSE IF k \in S THEN Append(G[k - 1], s[k]) ELSE G[k - 1]
      <3> SUFFICES ASSUME NEW k \in 0..n
                   PROVE  G[k] = IF k = 0 THEN <<>> ELSE IF k \in S THEN Append(G[k - 1], s[k]) ELSE G[k - 1]
        OBVIOUS
      <3>1. k # 0 => k - 1 \in 0..n /\ k - 1 # n
        BY <1>3
      <3>2. k # 0 => G[k - 1] = C[k - 1]
        BY <3>1
      <3>3. CASE k = n
        BY <3>2, <3>3, <1>5
      <3>4. CASE k # n
        <4>1. k \in 0..n - 1
          BY <3>4, <1>3
        <4>2. C[k] = IF k = 0 THEN <<>> ELSE IF k \in S THEN Append(C[k - 1], s[k]) ELSE C[k - 1]
          BY <2>2, <4>1 DEF ChosenOf
        <4> QED  BY <3>2, <3>4, <4>2
      <3> QED  BY <3>3, <3>4
    <2> HIDE DEF last
    <2>4. ChosenOf(G, s, S, n)
      BY <2>3 DEF ChosenOf
    <2> QED  BY <1>3, <2>4
  <1> QED  BY <1>4, <1>5

\* What is chosen from a sequence is a sequence of those elements, and not longer.
LEMMA ChosenIs ==
  ASSUME NEW T, NEW s \in Seq(T), NEW S
  PROVE  /\ Chosen(s, S) \in Seq(T) /\ Len(Chosen(s, S)) <= Len(s)
         /\ \A k \in DOMAIN Chosen(s, S) : \E i \in DOMAIN s : i \in S /\ Chosen(s, S)[k] = s[i]
         /\ \A i \in DOMAIN s : i \in S => \E k \in DOMAIN Chosen(s, S) : Chosen(s, S)[k] = s[i]
  <1> DEFINE N == Len(s)
             C == CHOOSE f : ChosenOf(f, s, S, N)
             OK(n) == /\ C[n] \in Seq(T) /\ Len(C[n]) <= n
                      /\ \A k \in 1..Len(C[n]) : \E i \in 1..n : i \in S /\ C[n][k] = s[i]
                      /\ \A i \in 1..n : i \in S => \E k \in 1..Len(C[n]) : C[n][k] = s[i]
             D == {n \in 0..N : ~OK(n)}
  <1>1. N \in Nat /\ DOMAIN s = 1..N
    OBVIOUS
  <1>2. Chosen(s, S) = C[N]
    BY Zenon DEF Chosen, ChosenOf
  <1>3. ChosenOf(C, s, S, N)
    BY <1>1, ChosenExists
  <1> HIDE DEF C, N
  <1>4. \A k \in 0..N : C[k] = IF k = 0 THEN <<>> ELSE IF k \in S THEN Append(C[k - 1], s[k]) ELSE C[k - 1]
    BY <1>3 DEF ChosenOf
  <1>5. OK(N)
    <2>1. SUFFICES ASSUME ~OK(N) PROVE FALSE
      OBVIOUS
    <2> HIDE DEF OK
    <2>0. N \in D /\ D \subseteq Nat
      BY <2>1, <1>1
    <2>2. PICK n \in D : \A y \in D : n <= y
      BY <2>0, LeastOfMany
    <2>3. n \in 0..N /\ ~OK(n)
      BY <2>2
    <2>4. CASE n = 0
      <3>1. C[0] = <<>>
        BY <2>3, <2>4, <1>4
      <3>2. OK(0)
        BY <3>1 DEF OK
      <3> QED  BY <3>2, <2>3, <2>4
    <2>5. CASE n # 0
      <3>1. n - 1 \in 0..N /\ ~(n <= n - 1) /\ n - 1 \in Nat /\ n \in 1..N
        BY <2>3, <2>5, <1>1
      <3>2. OK(n - 1)
        BY <2>2, <3>1
      <3>3. C[n] = IF n \in S THEN Append(C[n - 1], s[n]) ELSE C[n - 1]
        BY <1>4, <2>3, <2>5
      <3>4. s[n] \in T
        BY <3>1, <1>1
      <3>5. (1..(n - 1)) \subseteq 1..n /\ n \in 1..n /\ \A i \in 1..n : i = n \/ i \in 1..(n - 1)
        BY <3>1
      <3> DEFINE c == C[n - 1]
      <3> HIDE DEF c
      <3>6. CASE n \in S
        <4>1. C[n] = Append(c, s[n])
          BY <3>3, <3>6 DEF c
        <4>2. /\ c \in Seq(T) /\ Len(c) <= n - 1
              /\ \A k \in 1..Len(c) : \E i \in 1..n - 1 : i \in S /\ c[k] = s[i]
              /\ \A i \in 1..n - 1 : i \in S => \E k \in 1..Len(c) : c[k] = s[i]
          BY <3>2 DEF c, OK
        <4>3. /\ Append(c, s[n]) \in Seq(T) /\ Len(Append(c, s[n])) = Len(c) + 1
              /\ Append(c, s[n])[Len(c) + 1] = s[n] /\ \A k \in 1..Len(c) : Append(c, s[n])[k] = c[k]
          BY <4>2, <3>4
        <4>4. Len(c) + 1 <= n /\ \A k \in 1..Len(c) + 1 : k = Len(c) + 1 \/ k \in 1..Len(c)
          BY <4>2, <3>1
        <4>5. 1..Len(c) \subseteq 1..(Len(c) + 1) /\ Len(c) + 1 \in 1..(Len(c) + 1)
          BY <4>2
        <4> DEFINE a == Append(c, s[n])
        <4> HIDE DEF a
        <4>6. \A k \in 1..(Len(c) + 1) : \E i \in 1..n : i \in S /\ a[k] = s[i]
          BY <4>2, <4>3, <4>4, <3>5, <3>6 DEF a
        <4>7. \A i \in 1..n : i \in S => \E k \in 1..(Len(c) + 1) : a[k] = s[i]
          BY <4>2, <4>3, <4>5, <3>5 DEF a
        <4>8. C[n] = a /\ a \in Seq(T) /\ Len(a) = Len(c) + 1
          BY <4>1, <4>3 DEF a
        <4>9. Len(a) <= n
          BY <4>4, <4>8
        <4>10. /\ \A k \in 1..Len(a) : \E i \in 1..n : i \in S /\ a[k] = s[i]
               /\ \A i \in 1..n : i \in S => \E k \in 1..Len(a) : a[k] = s[i]
          BY <4>6, <4>7, <4>8
        <4>11. OK(n)
          BY <4>8, <4>9, <4>10 DEF OK
        <4> QED  BY <4>11, <2>3
      <3>7. CASE n \notin S
        <4>1. C[n] = c
          BY <3>3, <3>7 DEF c
        <4>2. /\ c \in Seq(T) /\ Len(c) <= n - 1
              /\ \A k \in 1..Len(c) : \E i \in 1..n - 1 : i \in S /\ c[k] = s[i]
              /\ \A i \in 1..n - 1 : i \in S => \E k \in 1..Len(c) : c[k] = s[i]
          BY <3>2 DEF c, OK
        <4>3. Len(c) <= n
          BY <4>2, <3>1
        <4>4. \A i \in 1..n : i \in S => i \in 1..n - 1
          BY <3>5, <3>7
        <4>5. OK(n)
          BY <4>1, <4>2, <4>3, <4>4, <3>5 DEF OK
        <4> QED  BY <4>5, <2>3
      <3> QED  BY <3>6, <3>7
    <2> QED  BY <2>4, <2>5
  <1>6. /\ C[N] \in Seq(T) /\ Len(C[N]) <= N
        /\ \A k \in 1..Len(C[N]) : \E i \in 1..N : i \in S /\ C[N][k] = s[i]
        /\ \A i \in 1..N : i \in S => \E k \in 1..Len(C[N]) : C[N][k] = s[i]
    BY <1>5 DEF OK
  <1>7. DOMAIN C[N] = 1..Len(C[N])
    BY <1>6
  <1>8. Len(s) = N
    BY DEF N
  <1> DEFINE c == C[N]
  <1>9. Chosen(s, S) = c
    BY <1>2
  <1>10. /\ c \in Seq(T) /\ Len(c) <= N
         /\ \A k \in DOMAIN c : \E i \in 1..N : i \in S /\ c[k] = s[i]
         /\ \A i \in 1..N : i \in S => \E k \in DOMAIN c : c[k] = s[i]
    BY <1>6, <1>7, Zenon
  <1> HIDE DEF c, D, OK
  <1>11. /\ Chosen(s, S) \in Seq(T) /\ Len(Chosen(s, S)) <= N
         /\ \A k \in DOMAIN Chosen(s, S) : \E i \in 1..N : i \in S /\ Chosen(s, S)[k] = s[i]
         /\ \A i \in 1..N : i \in S => \E k \in DOMAIN Chosen(s, S) : Chosen(s, S)[k] = s[i]
    BY <1>9, <1>10, Zenon
  <1> QED  BY <1>1, <1>8, <1>11, Zenon

-----------------------------------------------------------------------------
(* The state that the dequeueing functions work on.                         *)

QLines == [cmd : STRING, to : STRING, nicks : Seq(Nicks), text : STRING, conn : Nat]
Writes == [cmd : STRING, to : Seq(STRING), nicks : Seq(Nicks), text : STRING]
States == [queue : [Queues -> Seq(QLines)], dangling : SUBSET Queues, tot : [Queues -> Int],
           burst : Int, gap : Int, out : Seq(Writes)]

\* Every line of ls was queued for connection n.
For(ls, n) == \A k \in DOMAIN ls : ls[k].conn = n
\* w kicks nobody in vain.
Meant(w) ==
  OptimizeKicks = 2 /\ w.cmd = "KICK" => \A n \in Range(w.nicks) : n \in members[w.to[1]]

\* The counters stay within their limits, the lines are of one connection, and what has been
\* written kicks nobody in vain.
Fine(s, n) ==
  /\ s \in States
  /\ \A q \in Queues : Len(s.queue[q]) <= s.tot[q] /\ s.tot[q] <= MaxQMsg /\ For(s.queue[q], n)
  /\ s.burst \in 0..4 /\ s.gap <= MsgRate
  /\ \A k \in DOMAIN s.out : Meant(s.out[k])

LEMMA QueuesConstants ==
  /\ OptimizeKicks \in 0..2 /\ KickMethod \in Nat /\ StackLimit \in Nat
  /\ MaxQMsg \in Nat /\ MaxQMsg > 0 /\ MsgRate \in Nat /\ MsgRate > 0
  BY QueuesAssumption

\* What is written to the server, field by field.
LEMMA WriteIs ==
  ASSUME NEW s \in States, NEW q \in Queues, NEW rest \in Seq(QLines), NEW lastFreed, NEW w \in Writes
  PROVE  LET t == WriteToServer(s, q, rest, lastFreed, w)
         IN  /\ t \in States
             /\ t.queue = [s.queue EXCEPT ![q] = rest]
             /\ t.tot = [s.tot EXCEPT ![q] = @ - (Len(s.queue[q]) - Len(rest))]
             /\ t.burst = s.burst
             /\ t.gap = IF Penalties THEN s.gap - (CalcPenalty(w) - 2) ELSE s.gap
             /\ t.out = Append(s.out, w)
             /\ s.dangling = {} /\ lastFreed # "dangles" => t.dangling = {}
  <1> DEFINE t == WriteToServer(s, q, rest, lastFreed, w)
             d == CASE rest = <<>> -> s.dangling \ {q}
                    [] lastFreed = "dangles"  -> s.dangling \cup {q}
                    [] lastFreed = "repaired" -> s.dangling \ {q}
                    [] OTHER -> s.dangling
             g == IF Penalties THEN s.gap - (CalcPenalty(w) - 2) ELSE s.gap
             queue1 == [s.queue EXCEPT ![q] = rest]
             tot1 == [s.tot EXCEPT ![q] = @ - (Len(s.queue[q]) - Len(rest))]
             out1 == Append(s.out, w)
  <1>1. t = [queue |-> queue1, dangling |-> d, tot |-> tot1, burst |-> s.burst, gap |-> g, out |-> out1]
    BY DEF WriteToServer
  <1>2. d \in SUBSET Queues
    BY DEF States
  <1>3. s.dangling = {} /\ lastFreed # "dangles" => d = {}
    OBVIOUS
  <1>4. CalcPenalty(w) \in Int
    BY DEF CalcPenalty, Writes
  <1>5. g \in Int
    BY <1>4 DEF States
  <1>6. queue1 \in [Queues -> Seq(QLines)]
    BY DEF States
  <1>7. tot1 \in [Queues -> Int]
    BY DEF States
  <1>8. out1 \in Seq(Writes)
    BY DEF States
  <1>9. s.burst \in Int
    BY DEF States
  <1> HIDE DEF d, g, queue1, tot1, out1
  <1>10. t \in States
    BY <1>1, <1>2, <1>5, <1>6, <1>7, <1>8, <1>9 DEF States
  <1>11. t.queue = queue1 /\ t.dangling = d /\ t.tot = tot1 /\ t.burst = s.burst /\ t.gap = g /\ t.out = out1
    BY <1>1
  <1> QED  BY <1>10, <1>11, <1>3 DEF queue1, tot1, out1, g

LEMMA WriteFine ==
  ASSUME NEW n, NEW s, Fine(s, n), NEW q \in Queues, NEW rest \in Seq(QLines), NEW lastFreed, NEW w \in Writes,
         Len(rest) <= Len(s.queue[q]), For(rest, n), w.to # <<>>, Meant(w)
  PROVE  Fine(WriteToServer(s, q, rest, lastFreed, w), n)
         /\ WriteToServer(s, q, rest, lastFreed, w).burst = s.burst
  <1> DEFINE t == WriteToServer(s, q, rest, lastFreed, w)
  <1>1. s \in States
    BY DEF Fine
  <1>2. /\ t \in States
        /\ t.queue = [s.queue EXCEPT ![q] = rest]
        /\ t.tot = [s.tot EXCEPT ![q] = @ - (Len(s.queue[q]) - Len(rest))]
        /\ t.burst = s.burst
        /\ t.gap = IF Penalties THEN s.gap - (CalcPenalty(w) - 2) ELSE s.gap
        /\ t.out = Append(s.out, w)
    BY <1>1, WriteIs
  <1> HIDE DEF t
  <1>3. CalcPenalty(w) \in Int /\ CalcPenalty(w) >= 2
    <2>1. Len(w.to) \in Nat /\ Len(w.to) >= 1 /\ Len(w.nicks) \in Nat
      BY DEF Writes
    <2>2. \A a, b \in Nat : a >= 1 => (2 + b) * a \in Int /\ (2 + b) * a >= 2
      <3> SUFFICES ASSUME NEW a \in Nat, NEW b \in Nat, a >= 1 PROVE (2 + b) * a \in Int /\ (2 + b) * a >= 2
        OBVIOUS
      <3>1. (2 + b) * a >= 2 * 1
        OBVIOUS
      <3> QED  BY <3>1
    <2> DEFINE a == Len(w.to)
               b == Len(w.nicks)
               c == (2 + b) * a
    <2>3. a \in Nat /\ a >= 1 /\ b \in Nat
      BY <2>1
    <2>4. c \in Int /\ c >= 2
      <3> HIDE DEF a, b
      <3> QED  BY <2>2, <2>3
    <2>5. CalcPenalty(w) = IF w.cmd = "KICK" THEN c ELSE 1 + a
      BY DEF CalcPenalty
    <2> HIDE DEF a, b, c
    <2> QED  BY <2>3, <2>4, <2>5
  <1>4. t.gap <= MsgRate
    BY <1>1, <1>2, <1>3, QueuesConstants DEF Fine, States
  <1>5. ASSUME NEW p \in Queues PROVE Len(t.queue[p]) <= t.tot[p] /\ t.tot[p] <= MaxQMsg /\ For(t.queue[p], n)
    <2>0. s.queue \in [Queues -> Seq(QLines)] /\ s.tot \in [Queues -> Int]
      BY <1>1 DEF States
    <2>1. CASE p # q
      <3>1. t.queue[p] = s.queue[p] /\ t.tot[p] = s.tot[p]
        BY <1>2, <2>0, <2>1
      <3> QED  BY <3>1 DEF Fine
    <2>2. CASE p = q
      <3>1. t.queue[p] = rest /\ t.tot[p] = s.tot[q] - (Len(s.queue[q]) - Len(rest))
        BY <1>2, <2>0, <2>2
      <3>2. Len(s.queue[q]) \in Nat /\ Len(rest) \in Nat /\ s.tot[q] \in Int
        BY <2>0
      <3>3. Len(s.queue[q]) <= s.tot[q] /\ s.tot[q] <= MaxQMsg
        BY DEF Fine
      <3> QED  BY <3>1, <3>2, <3>3, QueuesConstants
    <2> QED  BY <2>1, <2>2
  <1>6. \A k \in DOMAIN t.out : Meant(t.out[k])
    <2>1. s.out \in Seq(Writes)
      BY <1>1 DEF States
    <2>2. \A k \in DOMAIN t.out : t.out[k] = w \/ (k \in DOMAIN s.out /\ t.out[k] = s.out[k])
      BY <1>2, <2>1
    <2> QED  BY <2>2 DEF Fine
  <1>7. t.burst \in 0..4
    BY <1>2 DEF Fine
  <1>8. Fine(t, n)
    BY <1>2, <1>4, <1>5, <1>6, <1>7 DEF Fine
  <1> QED  BY <1>2, <1>8 DEF t

-----------------------------------------------------------------------------
(* Stacking.                                                                *)

LEMMA FineIs ==
  ASSUME NEW n, NEW s, Fine(s, n), NEW q \in Queues
  PROVE  /\ s \in States /\ s.queue[q] \in Seq(QLines) /\ DOMAIN s.queue[q] = 1..Len(s.queue[q])
         /\ For(s.queue[q], n) /\ Len(s.queue[q]) <= s.tot[q] /\ s.tot[q] <= MaxQMsg
         /\ s.queue[q] # <<>> => /\ 1 \in DOMAIN s.queue[q] /\ s.queue[q][1] \in QLines
                                 /\ s.queue[q][1] = Head(s.queue[q]) /\ Len(s.queue[q]) >= 1
  <1>1. s \in States /\ For(s.queue[q], n) /\ Len(s.queue[q]) <= s.tot[q] /\ s.tot[q] <= MaxQMsg
    BY DEF Fine
  <1>2. s.queue[q] \in Seq(QLines)
    BY <1>1 DEF States
  <1>3. \A ls \in Seq(QLines) : /\ DOMAIN ls = 1..Len(ls)
                                /\ ls # <<>> => 1 \in DOMAIN ls /\ ls[1] \in QLines /\ ls[1] = Head(ls) /\ Len(ls) >= 1
    OBVIOUS
  <1> QED  BY <1>1, <1>2, <1>3

LEMMA ChosenLines ==
  ASSUME NEW ls \in Seq(QLines)
  PROVE  \A S : /\ Chosen(ls, S) \in Seq(QLines)
                /\ \A i \in DOMAIN ls : i \in S => \E k \in DOMAIN Chosen(ls, S) : Chosen(ls, S)[k] = ls[i]
  BY ChosenIs

LEMMA ChosenFor ==
  ASSUME NEW n, NEW ls \in Seq(QLines), For(ls, n), NEW S
  PROVE  For(Chosen(ls, S), n)
  BY ChosenIs DEF For

LEMMA FastDeqFine ==
  ASSUME NEW n, NEW s, Fine(s, n), NEW q \in Queues, s.queue[q] # <<>>,
         OptimizeKicks # 2 \/ s.queue[q][1].cmd # "KICK"
  PROVE  Fine(FastDeq(s, q), n) /\ FastDeq(s, q).burst = s.burst
  <1> DEFINE ls == s.queue[q]
             same == {k \in 2..Len(ls) : Stacks(ls[1], ls[k])}
             picked == {k \in same : StackLimit = 0 \/ Cardinality({j \in same : j < k}) < StackLimit - 1}
             to == Chosen(ls, {1} \cup picked)
             targets == [k \in DOMAIN to |-> to[k].to]
             rest == Chosen(ls, (2..Len(ls)) \ picked)
             freed == IF Len(ls) \in picked THEN "repaired" ELSE "kept"
             w == [cmd |-> ls[1].cmd, to |-> targets, nicks |-> ls[1].nicks, text |-> ls[1].text]
  <1>1. FastDeq(s, q) = WriteToServer(s, q, rest, freed, w)
    BY DEF FastDeq
  <1>2. ls \in Seq(QLines) /\ 1 \in DOMAIN ls /\ ls[1] \in QLines /\ For(ls, n)
    BY FineIs
  <1> HIDE DEF ls, same, picked, freed
  <1>3. to \in Seq(QLines) /\ \E k \in DOMAIN to : to[k] = ls[1]
    <2>1. \A S : /\ Chosen(ls, S) \in Seq(QLines)
                 /\ \A i \in DOMAIN ls : i \in S => \E k \in DOMAIN Chosen(ls, S) : Chosen(ls, S)[k] = ls[i]
      BY <1>2, ChosenLines
    <2>2. 1 \in {1} \cup picked
      OBVIOUS
    <2> QED  BY <2>1, <2>2, <1>2
  <1> HIDE DEF to
  <1>4. targets \in Seq(STRING) /\ targets # <<>>
    <2>1. \A k \in 1..Len(to) : to[k].to \in STRING
      <3>1. \A k \in 1..Len(to) : to[k] \in QLines
        BY <1>3
      <3> QED  BY <3>1 DEF QLines
    <2>2. Len(to) \in Nat /\ DOMAIN to = 1..Len(to) /\ DOMAIN to # {}
      BY <1>3
    <2>3. targets \in [1..Len(to) -> STRING]
      BY <2>1, <2>2
    <2>4. targets \in Seq(STRING)
      BY <2>2, <2>3
    <2>5. DOMAIN targets # {}
      BY <2>2
    <2> QED  BY <2>4, <2>5
  <1>5. rest \in Seq(QLines) /\ Len(rest) <= Len(ls) /\ For(rest, n)
    BY <1>2, ChosenIs, ChosenFor
  <1> HIDE DEF targets, rest
  <1>6. w \in Writes
    BY <1>2, <1>4 DEF QLines, Writes
  <1>7. w.to # <<>>
    BY <1>4
  <1>8. Meant(w)
    BY DEF Meant, ls
  <1> HIDE DEF w
  <1>9. Len(rest) <= Len(s.queue[q])
    BY <1>5 DEF ls
  <1> QED  BY <1>1, <1>5, <1>6, <1>7, <1>8, <1>9, WriteFine

-----------------------------------------------------------------------------
(* Kicks.                                                                   *)

LEMMA MaxOfTwo ==
  ASSUME NEW x \in Int, NEW y \in Int
  PROVE  Max({x, y}) \in {x, y} /\ Max({x, y}) >= x /\ Max({x, y}) >= y
  <1>1. \E m \in {x, y} : \A k \in {x, y} : m >= k
    <2>1. CASE x >= y
      BY <2>1
    <2>2. CASE ~(x >= y)
      BY <2>2
    <2> QED  BY <2>1, <2>2
  <1>2. Max({x, y}) \in {x, y} /\ \A k \in {x, y} : Max({x, y}) >= k
    BY <1>1, Zenon DEF Max
  <1> QED  BY <1>2

LEMMA MinOfTwo ==
  ASSUME NEW x \in Int, NEW y \in Int
  PROVE  Min({x, y}) \in {x, y} /\ Min({x, y}) <= x /\ Min({x, y}) <= y
  <1>1. \E m \in {x, y} : \A k \in {x, y} : m <= k
    <2>1. CASE x <= y
      BY <2>1
    <2>2. CASE ~(x <= y)
      BY <2>2
    <2> QED  BY <2>1, <2>2
  <1>2. Min({x, y}) \in {x, y} /\ \A k \in {x, y} : Min({x, y}) <= k
    BY <1>1, Zenon DEF Min
  <1> QED  BY <1>2

\* Who is left in a kick are victims of it, and on its channel.
LEMMA PresentIs ==
  ASSUME NEW l \in QLines
  PROVE  /\ Present(l) \in QLines
         /\ Present(l).cmd = l.cmd /\ Present(l).to = l.to /\ Present(l).text = l.text /\ Present(l).conn = l.conn
         /\ \A n \in Range(Present(l).nicks) : n \in members[l.to]
  <1> DEFINE on == {k \in DOMAIN l.nicks : l.nicks[k] \in members[l.to]}
             left == Chosen(l.nicks, on)
  <1>1. l.nicks \in Seq(Nicks)
    BY DEF QLines
  <1>2. left \in Seq(Nicks) /\ \A k \in DOMAIN left : left[k] \in members[l.to]
    BY <1>1, ChosenIs
  <1>3. Present(l) = [l EXCEPT !.nicks = left]
    BY DEF Present
  <1> HIDE DEF left
  <1>4. Present(l) \in QLines /\ Present(l).nicks = left
    BY <1>2, <1>3 DEF QLines
  <1>5. Present(l).cmd = l.cmd /\ Present(l).to = l.to /\ Present(l).text = l.text /\ Present(l).conn = l.conn
    BY <1>3 DEF QLines
  <1> QED  BY <1>2, <1>4, <1>5 DEF Range

LEMMA PurgeFine ==
  ASSUME NEW n, NEW s, Fine(s, n), NEW q \in Queues, s.queue[q] # <<>>
  PROVE  LET p == PurgeKicks(s, q)
         IN  /\ Fine(p, n) /\ p.burst = s.burst
             /\ \A k \in DOMAIN p.queue[q] : p.queue[q][k].cmd = "KICK" =>
                  \A m \in Range(p.queue[q][k].nicks) : m \in members[p.queue[q][k].to]
  <1> DEFINE old == s.queue[q]
             ls == [k \in DOMAIN old |-> IF old[k].cmd = "KICK" THEN Present(old[k]) ELSE old[k]]
             idle == {k \in DOMAIN ls : ls[k].cmd = "KICK" /\ ls[k].nicks = <<>>}
             rest == Chosen(ls, DOMAIN ls \ idle)
             d == IF rest = <<>> THEN s.dangling \ {q}
                  ELSE IF Len(ls) \in idle THEN s.dangling \cup {q} ELSE s.dangling
             p == PurgeKicks(s, q)
             OnIt(l) == l.cmd = "KICK" => \A m \in Range(l.nicks) : m \in members[l.to]
  <1>1. p = [s EXCEPT !.queue[q] = rest, !.dangling = d, !.tot[q] = @ - (Len(ls) - Len(rest))]
    BY DEF PurgeKicks
  <1>2. old \in Seq(QLines) /\ DOMAIN old = 1..Len(old) /\ For(old, n) /\ Len(old) \in Nat /\ s \in States
    BY FineIs
  <1>3. ASSUME NEW k \in DOMAIN old PROVE ls[k] \in QLines /\ ls[k].conn = n /\ OnIt(ls[k])
    <2>1. old[k] \in QLines /\ old[k].conn = n
      BY <1>2 DEF For
    <2> HIDE DEF old
    <2>2. CASE old[k].cmd = "KICK"
      <3>1. ls[k] = Present(old[k])
        BY <2>2
      <3> HIDE DEF ls
      <3> QED  BY <2>1, <3>1, PresentIs
    <2>3. CASE old[k].cmd # "KICK"
      BY <2>1, <2>3
    <2> QED  BY <2>2, <2>3
  <1>4. ls \in Seq(QLines) /\ Len(ls) = Len(old) /\ DOMAIN ls = DOMAIN old
    <2>1. DOMAIN ls = 1..Len(old)
      BY <1>2
    <2>2. ls \in [1..Len(old) -> QLines]
      BY <1>2, <1>3
    <2> HIDE DEF ls
    <2> QED  BY <1>2, <2>1, <2>2
  <1>5. \A k \in DOMAIN ls : ls[k].conn = n /\ OnIt(ls[k])
    BY <1>3, <1>4
  <1> HIDE DEF ls, OnIt
  <1>6. rest \in Seq(QLines) /\ Len(rest) <= Len(old) /\ \A k \in DOMAIN rest : rest[k].conn = n /\ OnIt(rest[k])
    BY <1>4, <1>5, ChosenIs
  <1>7. d \in SUBSET Queues
    BY <1>2 DEF States
  <1> HIDE DEF rest, d
  <1>8. s.queue \in [Queues -> Seq(QLines)] /\ s.tot \in [Queues -> Int] /\ s.out \in Seq(Writes) /\ s.burst \in Int /\ s.gap \in Int
    BY <1>2 DEF States
  <1> DEFINE queue1 == [s.queue EXCEPT ![q] = rest]
             tot1 == [s.tot EXCEPT ![q] = @ - (Len(ls) - Len(rest))]
  <1>9. p = [queue |-> queue1, dangling |-> d, tot |-> tot1, burst |-> s.burst, gap |-> s.gap, out |-> s.out]
    BY <1>1, <1>2 DEF States
  <1>10. queue1 \in [Queues -> Seq(QLines)] /\ queue1[q] = rest /\ \A r \in Queues : r # q => queue1[r] = s.queue[r]
    BY <1>6, <1>8
  <1>11. tot1 \in [Queues -> Int] /\ tot1[q] = s.tot[q] - (Len(old) - Len(rest)) /\ \A r \in Queues : r # q => tot1[r] = s.tot[r]
    BY <1>4, <1>6, <1>8, <1>2
  <1> HIDE DEF queue1, tot1, p
  <1>12. p \in States
    BY <1>7, <1>8, <1>9, <1>10, <1>11 DEF States
  <1>13. p.queue = queue1 /\ p.tot = tot1 /\ p.burst = s.burst /\ p.gap = s.gap /\ p.out = s.out
    BY <1>9
  <1>14. ASSUME NEW r \in Queues PROVE Len(p.queue[r]) <= p.tot[r] /\ p.tot[r] <= MaxQMsg /\ For(p.queue[r], n)
    <2>1. CASE r # q
      BY <1>10, <1>11, <1>13, <2>1 DEF Fine
    <2>2. CASE r = q
      <3>1. s.tot[q] \in Int /\ Len(rest) \in Nat /\ Len(old) \in Nat
        BY <1>2, <1>6, <1>8
      <3>2. Len(old) <= s.tot[q] /\ s.tot[q] <= MaxQMsg
        BY FineIs DEF old
      <3>3. Len(rest) <= tot1[q] /\ tot1[q] <= MaxQMsg
        BY <1>6, <1>11, <3>1, <3>2, QueuesConstants
      <3> QED  BY <1>6, <1>10, <1>13, <2>2, <3>3 DEF For
    <2> QED  BY <2>1, <2>2
  <1>15. Fine(p, n)
    BY <1>12, <1>13, <1>14 DEF Fine
  <1>16. \A k \in DOMAIN p.queue[q] : OnIt(p.queue[q][k])
    BY <1>6, <1>10, <1>13
  <1> QED  BY <1>13, <1>15, <1>16 DEF p, OnIt

\* The lines behind a kick, when as many as may be have been merged with it: what is left is of the
\* same connection, and the victims taken are victims of a kick from the same channel.
MergedOf(M, ls, N) ==
  M = [k \in 1..N |-> IF k = 1 THEN [nicks |-> <<>>, left |-> <<>>, tail |-> TRUE] ELSE TakeVictims(ls[1], M[k - 1], ls[k])]

LEMMA MergedExists ==
  ASSUME NEW ls, NEW N \in Nat
  PROVE  \E M : MergedOf(M, ls, N)
  <1> DEFINE D == {n \in Nat : ~\E M : MergedOf(M, ls, n)}
             none == [nicks |-> <<>>, left |-> <<>>, tail |-> TRUE]
  <1> HIDE DEF none
  <1>1. SUFFICES ASSUME D # {} PROVE FALSE
    OBVIOUS
  <1>2. PICK n \in D : \A y \in D : n <= y
    BY <1>1, LeastOfMany
  <1>3. n \in Nat /\ ~\E M : MergedOf(M, ls, n)
    BY <1>2
  <1>4. CASE n = 0
    <2> DEFINE M == [k \in 1..0 |-> none]
    <2>1. 1..0 = {}
      OBVIOUS
    <2>2. MergedOf(M, ls, 0)
      BY <2>1 DEF MergedOf
    <2> QED  BY <1>3, <1>4, <2>2
  <1>5. CASE n # 0
    <2>1. n - 1 \in Nat /\ ~(n <= n - 1)
      BY <1>3, <1>5
    <2>2. PICK M : MergedOf(M, ls, n - 1)
      BY <1>2, <2>1
    <2> DEFINE last == IF n = 1 THEN none ELSE TakeVictims(ls[1], M[n - 1], ls[n])
               G == [k \in 1..n |-> IF k = n THEN last ELSE M[k]]
    <2>3. \A k \in 1..n : G[k] = IF k = 1 THEN none ELSE TakeVictims(ls[1], G[k - 1], ls[k])
      <3> SUFFICES ASSUME NEW k \in 1..n
                   PROVE  G[k] = IF k = 1 THEN none ELSE TakeVictims(ls[1], G[k - 1], ls[k])
        OBVIOUS
      <3>1. k # 1 => k - 1 \in 1..n /\ k - 1 # n
        BY <1>3
      <3>2. k # 1 => G[k - 1] = M[k - 1]
        BY <3>1
      <3>3. CASE k = n
        BY <3>2, <3>3, <1>5
      <3>4. CASE k # n
        <4>1. k \in 1..n - 1
          BY <3>4, <1>3
        <4>2. M[k] = IF k = 1 THEN none ELSE TakeVictims(ls[1], M[k - 1], ls[k])
          BY <2>2, <4>1 DEF MergedOf, none
        <4> QED  BY <3>2, <3>4, <4>2
      <3> QED  BY <3>3, <3>4
    <2> HIDE DEF last
    <2>4. MergedOf(G, ls, n)
      BY <2>3 DEF MergedOf, none
    <2> QED  BY <1>3, <2>4
  <1> QED  BY <1>4, <1>5

Takings == [nicks : Seq(Nicks), left : Seq(QLines), tail : BOOLEAN]

\* One line: it is merged whole, or what is left of it stays.
LEMMA TakeIs ==
  ASSUME NEW h \in QLines, NEW a \in Takings, NEW l \in QLines
  PROVE  LET t == TakeVictims(h, a, l)
         IN  /\ t \in Takings /\ Len(t.left) <= Len(a.left) + 1
             /\ \A i \in DOMAIN t.nicks : \/ i \in DOMAIN a.nicks /\ t.nicks[i] = a.nicks[i]
                                          \/ SameKick(h, l) /\ t.nicks[i] \in Range(l.nicks)
             /\ \A i \in DOMAIN t.left : \/ i \in DOMAIN a.left /\ t.left[i] = a.left[i]
                                         \/ t.left[i].conn = l.conn
  <1> DEFINE room == Max({0, KickMethod - 1 - Len(a.nicks)})
             n == IF SameKick(h, l) THEN Min({room, Len(l.nicks)}) ELSE 0
             cut == [l EXCEPT !.nicks = SubSeq(@, n + 1, Len(@))]
             t == TakeVictims(h, a, l)
  <1>1. a.nicks \in Seq(Nicks) /\ a.left \in Seq(QLines) /\ a.tail \in BOOLEAN /\ l.nicks \in Seq(Nicks)
    BY DEF Takings, QLines
  <1>2. room \in Nat
    <2>1. Len(a.nicks) \in Int /\ KickMethod \in Int
      BY <1>1, QueuesConstants
    <2>2. \A x \in Int : Max({0, x}) \in Nat
      <3> TAKE x \in Int
      <3>1. 0 \in Int /\ x \in Int
        OBVIOUS
      <3>2. Max({0, x}) \in {0, x} /\ Max({0, x}) >= 0
        BY <3>1, MaxOfTwo
      <3> QED  BY <3>2
    <2>3. KickMethod - 1 - Len(a.nicks) \in Int
      BY <2>1
    <2> QED  BY <2>2, <2>3
  <1> HIDE DEF room
  <1>3. n \in Nat /\ n <= Len(l.nicks) /\ (n > 0 => SameKick(h, l))
    <2>1. Len(l.nicks) \in Nat
      BY <1>1
    <2>2. \A x, y \in Nat : Min({x, y}) \in Nat /\ Min({x, y}) <= y
      BY MinOfTwo
    <2> QED  BY <1>2, <2>1, <2>2
  <1>4. t = IF n = Len(l.nicks) /\ n > 0
            THEN [nicks |-> a.nicks \o l.nicks, left |-> a.left, tail |-> FALSE]
            ELSE [nicks |-> a.nicks \o SubSeq(l.nicks, 1, n), left |-> Append(a.left, cut), tail |-> TRUE]
    BY DEF TakeVictims, room
  <1> HIDE DEF n
  <1>5. cut \in QLines /\ cut.conn = l.conn
    <2>1. SubSeq(l.nicks, n + 1, Len(l.nicks)) \in Seq(Nicks)
      BY <1>1, <1>3
    <2> QED  BY <2>1 DEF QLines
  <1> HIDE DEF cut
  <1>6. \A u, v \in Seq(Nicks) : /\ u \o v \in Seq(Nicks)
          /\ \A i \in DOMAIN (u \o v) : (i \in DOMAIN u /\ (u \o v)[i] = u[i]) \/ (u \o v)[i] \in Range(v)
    BY DEF Range
  <1>7. CASE n = Len(l.nicks) /\ n > 0
    <2>1. t = [nicks |-> a.nicks \o l.nicks, left |-> a.left, tail |-> FALSE]
      BY <1>4, <1>7
    <2>2. t.nicks = a.nicks \o l.nicks /\ t.left = a.left /\ t.tail = FALSE
      <3> HIDE DEF t
      <3> QED  BY <2>1
    <2>3. t \in Takings
      BY <1>1, <1>6, <2>1 DEF Takings
    <2>4. Len(t.left) <= Len(a.left) + 1
      BY <1>1, <2>2
    <2> HIDE DEF t
    <2> QED  BY <1>1, <1>3, <1>6, <1>7, <2>2, <2>3, <2>4 DEF t
  <1>8. CASE ~(n = Len(l.nicks) /\ n > 0)
    <2>1. t = [nicks |-> a.nicks \o SubSeq(l.nicks, 1, n), left |-> Append(a.left, cut), tail |-> TRUE]
      BY <1>4, <1>8
    <2> DEFINE part == SubSeq(l.nicks, 1, n)
    <2>2. part \in Seq(Nicks) /\ Len(part) = n /\ \A i \in 1..n : part[i] = l.nicks[i] /\ i \in DOMAIN l.nicks
      BY <1>1, <1>3
    <2>3. t.nicks = a.nicks \o part /\ t.left = Append(a.left, cut) /\ t.tail = TRUE
      <3> HIDE DEF t
      <3> QED  BY <2>1
    <2> HIDE DEF part
    <2>4. Range(part) \subseteq Range(l.nicks) /\ (n = 0 => Range(part) = {})
      BY <2>2 DEF Range
    <2>5. Append(a.left, cut) \in Seq(QLines) /\ Len(Append(a.left, cut)) = Len(a.left) + 1
          /\ \A i \in DOMAIN Append(a.left, cut) : \/ i \in DOMAIN a.left /\ Append(a.left, cut)[i] = a.left[i]
                                                   \/ Append(a.left, cut)[i] = cut
      BY <1>1, <1>5
    <2>6. t \in Takings
      BY <1>1, <1>6, <2>1, <2>2, <2>5 DEF Takings, part
    <2>7. \A i \in DOMAIN t.nicks : \/ i \in DOMAIN a.nicks /\ t.nicks[i] = a.nicks[i]
                                    \/ SameKick(h, l) /\ t.nicks[i] \in Range(l.nicks)
      <3>1. n # 0 => SameKick(h, l)
        BY <1>3
      <3> HIDE DEF t
      <3> QED  BY <1>1, <1>6, <2>2, <2>3, <2>4, <3>1
    <2> HIDE DEF t
    <2>8. Len(t.left) <= Len(a.left) + 1
      BY <1>1, <2>3, <2>5
    <2> QED  BY <1>5, <2>3, <2>5, <2>6, <2>7, <2>8 DEF t
  <1> QED  BY <1>7, <1>8

LEMMA MergedIs ==
  ASSUME NEW n, NEW ls \in Seq(QLines), ls # <<>>, For(ls, n)
  PROVE  LET r == Merged(ls)
         IN  /\ r \in Takings /\ Len(r.left) <= Len(ls) /\ For(r.left, n)
             /\ \A i \in DOMAIN r.nicks : \E k \in DOMAIN ls : SameKick(ls[1], ls[k]) /\ r.nicks[i] \in Range(ls[k].nicks)
  <1> DEFINE N == Len(ls)
             M == CHOOSE f : MergedOf(f, ls, N)
             none == [nicks |-> <<>>, left |-> <<>>, tail |-> TRUE]
             Good(r, k) == /\ r \in Takings /\ Len(r.left) <= k /\ For(r.left, n)
                           /\ \A i \in DOMAIN r.nicks :
                                \E j \in DOMAIN ls : SameKick(ls[1], ls[j]) /\ r.nicks[i] \in Range(ls[j].nicks)
             D == {k \in 1..N : ~Good(M[k], k)}
  <1>1. N \in Nat /\ DOMAIN ls = 1..N /\ N >= 1 /\ \A k \in 1..N : ls[k] \in QLines
    BY ls # <<>>
  <1>2. Merged(ls) = M[N]
    BY Zenon DEF Merged, MergedOf
  <1>3. MergedOf(M, ls, N)
    BY <1>1, MergedExists
  <1> HIDE DEF M, N
  <1>4. \A k \in 1..N : M[k] = IF k = 1 THEN none ELSE TakeVictims(ls[1], M[k - 1], ls[k])
    BY <1>3 DEF MergedOf
  <1>5. Good(none, 1)
    BY DEF Takings, For
  <1> HIDE DEF none, Good
  <1>6. ASSUME NEW k \in 1..N, k # 1, Good(M[k - 1], k - 1)
        PROVE  Good(M[k], k)
    <2> DEFINE a == M[k - 1]
               t == TakeVictims(ls[1], a, ls[k])
    <2>1. M[k] = t
      BY <1>4, <1>6
    <2>2. /\ a \in Takings /\ Len(a.left) <= k - 1 /\ For(a.left, n)
          /\ \A i \in DOMAIN a.nicks : \E j \in DOMAIN ls : SameKick(ls[1], ls[j]) /\ a.nicks[i] \in Range(ls[j].nicks)
      BY <1>6 DEF Good
    <2>3. ls[1] \in QLines /\ ls[k] \in QLines /\ k \in DOMAIN ls
      BY <1>1
    <2> HIDE DEF a
    <2>4. /\ t \in Takings /\ Len(t.left) <= Len(a.left) + 1
          /\ \A i \in DOMAIN t.nicks : \/ i \in DOMAIN a.nicks /\ t.nicks[i] = a.nicks[i]
                                       \/ SameKick(ls[1], ls[k]) /\ t.nicks[i] \in Range(ls[k].nicks)
          /\ \A i \in DOMAIN t.left : \/ i \in DOMAIN a.left /\ t.left[i] = a.left[i]
                                      \/ t.left[i].conn = ls[k].conn
      BY <2>2, <2>3, TakeIs
    <2> HIDE DEF t
    <2>5. Len(t.left) <= k
      <3>1. Len(t.left) \in Nat /\ Len(a.left) \in Nat
        BY <2>2, <2>4 DEF Takings
      <3> QED  BY <3>1, <2>2, <2>4, <1>1
    <2>6. For(t.left, n)
      <3>1. ls[k].conn = n
        BY <2>3 DEF For
      <3> QED  BY <2>2, <2>4, <3>1 DEF For
    <2>7. \A i \in DOMAIN t.nicks : \E j \in DOMAIN ls : SameKick(ls[1], ls[j]) /\ t.nicks[i] \in Range(ls[j].nicks)
      BY <2>2, <2>3, <2>4
    <2> QED  BY <2>1, <2>4, <2>5, <2>6, <2>7 DEF Good
  <1>7. Good(M[N], N)
    <2>1. SUFFICES ASSUME ~Good(M[N], N) PROVE FALSE
      OBVIOUS
    <2>2. N \in D /\ D \subseteq Nat
      BY <2>1, <1>1
    <2>3. PICK k \in D : \A y \in D : k <= y
      BY <2>2, LeastOfMany
    <2>4. k \in 1..N /\ ~Good(M[k], k)
      BY <2>3
    <2>5. CASE k = 1
      <3>1. M[1] = none
        BY <1>4, <2>4, <2>5
      <3> QED  BY <1>5, <2>4, <2>5, <3>1
    <2>6. CASE k # 1
      <3>1. k - 1 \in 1..N /\ ~(k <= k - 1)
        BY <1>1, <2>4, <2>6
      <3>2. Good(M[k - 1], k - 1)
        BY <2>3, <3>1
      <3> QED  BY <1>6, <2>4, <2>6, <3>2
    <2> QED  BY <2>5, <2>6
  <1> QED  BY <1>2, <1>7 DEF Good, N

LEMMA MergeFine ==
  ASSUME NEW n, NEW s, Fine(s, n), NEW q \in Queues, s.queue[q] # <<>>,
         OptimizeKicks = 2 => \A k \in DOMAIN s.queue[q] : s.queue[q][k].cmd = "KICK" =>
                                \A m \in Range(s.queue[q][k].nicks) : m \in members[s.queue[q][k].to],
         s.queue[q][1].cmd = "KICK"
  PROVE  Fine(MergeKicks(s, q), n) /\ MergeKicks(s, q).burst = s.burst
  <1> DEFINE ls == s.queue[q]
             h == ls[1]
             r == Merged(ls)
             w == [cmd |-> "KICK", to |-> <<h.to>>, nicks |-> h.nicks \o r.nicks, text |-> h.text]
             freed == IF r.tail THEN "kept" ELSE "dangles"
  <1>1. MergeKicks(s, q) = WriteToServer(s, q, r.left, freed, w)
    BY DEF MergeKicks
  <1>2. ls \in Seq(QLines) /\ 1 \in DOMAIN ls /\ h \in QLines /\ For(ls, n) /\ ls # <<>>
    BY FineIs
  <1> HIDE DEF freed, r
  <1>3. /\ r \in Takings /\ Len(r.left) <= Len(ls) /\ For(r.left, n)
        /\ \A i \in DOMAIN r.nicks : \E k \in DOMAIN ls : SameKick(ls[1], ls[k]) /\ r.nicks[i] \in Range(ls[k].nicks)
    <2> HIDE DEF ls
    <2> QED  BY <1>2, MergedIs DEF r
  <1>4. h.cmd = "KICK" /\ h.to \in STRING /\ h.nicks \in Seq(Nicks) /\ h.text \in STRING /\ r.nicks \in Seq(Nicks)
        /\ r.left \in Seq(QLines)
    <2>1. h.cmd = "KICK"
      OBVIOUS
    <2> HIDE DEF h
    <2> QED  BY <2>1, <1>2, <1>3 DEF QLines, Takings
  <1> DEFINE all == h.nicks \o r.nicks
  <1>5. all \in Seq(Nicks) /\ \A i \in DOMAIN all : all[i] \in Range(h.nicks) \/ all[i] \in Range(r.nicks)
    <2>1. \A u, v \in Seq(Nicks) : /\ u \o v \in Seq(Nicks)
            /\ \A i \in DOMAIN (u \o v) : (u \o v)[i] \in Range(u) \/ (u \o v)[i] \in Range(v)
      BY DEF Range
    <2> HIDE DEF h
    <2> QED  BY <1>4, <2>1
  <1>6. Meant(w)
    <2> SUFFICES ASSUME OptimizeKicks = 2, NEW i \in DOMAIN all PROVE all[i] \in members[h.to]
      BY DEF Meant, Range
    <2>1. \A k \in DOMAIN ls : ls[k].cmd = "KICK" => \A m \in Range(ls[k].nicks) : m \in members[ls[k].to]
      OBVIOUS
    <2> HIDE DEF ls
    <2>2. \A m \in Range(h.nicks) : m \in members[h.to]
      BY <1>2, <1>4, <2>1
    <2>3. \A m \in Range(r.nicks) : m \in members[h.to]
      <3> SUFFICES ASSUME NEW j \in DOMAIN r.nicks PROVE r.nicks[j] \in members[h.to]
        BY DEF Range
      <3>1. PICK k \in DOMAIN ls : SameKick(h, ls[k]) /\ r.nicks[j] \in Range(ls[k].nicks)
        BY <1>3
      <3>2. ls[k].cmd = "KICK" /\ ls[k].to = h.to
        BY <3>1 DEF SameKick
      <3> QED  BY <2>1, <3>1, <3>2
    <2> HIDE DEF all, h
    <2> QED  BY <1>5, <2>2, <2>3
  <1> HIDE DEF all
  <1>7. w \in Writes
    <2> HIDE DEF h
    <2>1. <<h.to>> \in Seq(STRING)
      BY <1>4
    <2>2. "KICK" \in STRING
      BY <1>2, <1>4 DEF QLines
    <2> QED  BY <1>4, <1>5, <2>1, <2>2 DEF Writes, all
  <1>8. w.to # <<>>
    OBVIOUS
  <1> HIDE DEF w, h
  <1>9. Len(r.left) <= Len(s.queue[q])
    BY <1>3 DEF ls
  <1> QED  BY <1>1, <1>3, <1>4, <1>6, <1>7, <1>8, <1>9, WriteFine

-----------------------------------------------------------------------------
(* A turn of the queues.                                                    *)

LEMMA DeqFine ==
  ASSUME NEW n, NEW s, Fine(s, n), NEW q \in Queues, s.queue[q] # <<>>
  PROVE  Fine(Deq(s, q), n) /\ Deq(s, q).burst = s.burst
  <1>1. CASE OptimizeKicks = 0 \/ s.queue[q][1].cmd # "KICK"
    <2>1. Deq(s, q) = FastDeq(s, q)
      BY <1>1 DEF Deq
    <2> QED  BY <1>1, <2>1, FastDeqFine
  <1>2. CASE ~(OptimizeKicks = 0 \/ s.queue[q][1].cmd # "KICK")
    <2> DEFINE p == IF OptimizeKicks = 2 THEN PurgeKicks(s, q) ELSE s
    <2>1. Deq(s, q) = CASE p.queue[q] = <<>> -> p
                        [] p.queue[q] # <<>> /\ p.queue[q][1].cmd = "KICK" -> MergeKicks(p, q)
                        [] OTHER -> FastDeq(p, q)
      <3>1. Deq(s, q) = CHOOSE d \in {DeqKick(r, q) : r \in {p}} : TRUE
        BY <1>2 DEF Deq
      <3> HIDE DEF p
      <3>2. {DeqKick(r, q) : r \in {p}} = {DeqKick(p, q)}
        OBVIOUS
      <3>3. Deq(s, q) = DeqKick(p, q)
        BY <3>1, <3>2
      <3> QED  BY <3>3 DEF DeqKick
    <2>2. /\ Fine(p, n) /\ p.burst = s.burst
          /\ OptimizeKicks = 2 => \A k \in DOMAIN p.queue[q] : p.queue[q][k].cmd = "KICK" =>
                                    \A m \in Range(p.queue[q][k].nicks) : m \in members[p.queue[q][k].to]
      BY PurgeFine
    <2> HIDE DEF p
    <2>3. CASE p.queue[q] = <<>>
      BY <2>1, <2>2, <2>3
    <2>4. CASE p.queue[q] # <<>> /\ p.queue[q][1].cmd = "KICK"
      BY <2>1, <2>2, <2>4, MergeFine
    <2>5. CASE p.queue[q] # <<>> /\ p.queue[q][1].cmd # "KICK"
      BY <2>1, <2>2, <2>5, FastDeqFine
    <2> QED  BY <2>3, <2>4, <2>5
  <1> QED  BY <1>1, <1>2

LEMMA CountFine ==
  ASSUME NEW n, NEW s, Fine(s, n), s.burst < 4
  PROVE  Fine(Count(s), n) /\ Count(s).burst = s.burst + 1 /\ Count(s).queue = s.queue
  <1>1. s \in States /\ s.burst \in 0..4
    BY DEF Fine
  <1>2. Count(s) = [s EXCEPT !.burst = s.burst + 1]
    BY DEF Count
  <1>3. Count(s) \in States /\ Count(s).burst = s.burst + 1
        /\ Count(s).queue = s.queue /\ Count(s).tot = s.tot /\ Count(s).gap = s.gap /\ Count(s).out = s.out
    BY <1>1, <1>2 DEF States
  <1>4. s.burst + 1 \in 0..4
    BY <1>1
  <1> QED  BY <1>3, <1>4 DEF Fine

LEMMA RefillFine ==
  ASSUME NEW n, NEW s, Fine(s, n)
  PROVE  Fine(Refill(s), n) /\ Refill(s).queue = s.queue /\ Refill(s).out = s.out
  <1>1. s \in States /\ s.burst \in 0..4
    BY DEF Fine
  <1>2. CASE ~Due(s.gap)
    BY <1>2 DEF Refill
  <1>3. CASE Due(s.gap)
    <2> DEFINE b == Max({0, s.burst - 1})
    <2>1. b \in 0..4
      <3>1. 0 \in Int /\ s.burst - 1 \in Int /\ s.burst - 1 <= 4
        BY <1>1
      <3>2. b \in {0, s.burst - 1} /\ b >= 0
        BY <3>1, MaxOfTwo
      <3> HIDE DEF b
      <3> QED  BY <3>1, <3>2
    <2>2. Refill(s) = [s EXCEPT !.gap = 0, !.burst = b]
      BY <1>3 DEF Refill
    <2> HIDE DEF b
    <2>3. Refill(s) = [queue |-> s.queue, dangling |-> s.dangling, tot |-> s.tot, burst |-> b, gap |-> 0, out |-> s.out]
      BY <1>1, <2>2 DEF States
    <2>4. Refill(s) \in States
      BY <1>1, <2>1, <2>3 DEF States
    <2>5. Refill(s).queue = s.queue /\ Refill(s).tot = s.tot /\ Refill(s).burst = b /\ Refill(s).gap = 0 /\ Refill(s).out = s.out
      BY <2>3
    <2>6. 0 <= MsgRate
      BY QueuesConstants
    <2> QED  BY <2>1, <2>4, <2>5, <2>6 DEF Fine
  <1> QED  BY <1>2, <1>3

\* One more of the mode queue, if the rate allows.
OneMode(t) ==
  IF t.queue["mode"] # <<>> /\ t.burst < 4 /\ -t.gap < MaxPenalty THEN Count(Deq(t, "mode")) ELSE t

LEMMA OneModeFine ==
  ASSUME NEW n, NEW s, Fine(s, n)
  PROVE  Fine(OneMode(s), n)
  <1>1. CASE s.queue["mode"] # <<>> /\ s.burst < 4 /\ -s.gap < MaxPenalty
    <2>1. OneMode(s) = Count(Deq(s, "mode"))
      BY <1>1 DEF OneMode
    <2>2. "mode" \in Queues
      BY DEF Queues
    <2>3. Fine(Deq(s, "mode"), n) /\ Deq(s, "mode").burst < 4
      BY <1>1, <2>2, DeqFine
    <2> QED  BY <2>1, <2>3, CountFine
  <1>2. CASE ~(s.queue["mode"] # <<>> /\ s.burst < 4 /\ -s.gap < MaxPenalty)
    BY <1>2 DEF OneMode
  <1> QED  BY <1>1, <1>2

LEMMA DeqModeFine ==
  ASSUME NEW n, NEW s, Fine(s, n)
  PROVE  Fine(DeqMode(s), n)
  <1>1. DeqMode(s) = OneMode(OneMode(OneMode(OneMode(s))))
    BY Zenon DEF DeqMode, OneMode
  <1> QED  BY <1>1, OneModeFine

LEMMA DeqMsgFine ==
  ASSUME NEW n, NEW s, Fine(s, n)
  PROVE  Fine(DeqMsg(s), n)
  <1> DEFINE t == Refill(s)
  <1>1. DeqMsg(s) = IF t.queue["mode"] # <<>> THEN DeqMode(t)
                    ELSE IF t.queue["server"] # <<>> /\ t.burst <= 1 THEN Deq(Count(t), "server")
                    ELSE IF t.queue["server"] = <<>> /\ t.queue["help"] # <<>> /\ t.burst = 0 /\ Due(s.gap)
                    THEN Deq(t, "help")
                    ELSE t
    BY DEF DeqMsg
  <1>2. Fine(t, n) /\ {"mode", "server", "help"} = Queues
    BY RefillFine DEF Queues
  <1> HIDE DEF t
  <1>3. CASE t.queue["mode"] # <<>>
    BY <1>1, <1>2, <1>3, DeqModeFine
  <1>4. CASE ~(t.queue["mode"] # <<>>) /\ t.queue["server"] # <<>> /\ t.burst <= 1
    <2>1. t.burst < 4
      BY <1>2, <1>4 DEF Fine
    <2>2. Fine(Count(t), n) /\ Count(t).queue = t.queue
      BY <1>2, <2>1, CountFine
    <2>3. DeqMsg(s) = Deq(Count(t), "server")
      BY <1>1, <1>4
    <2> QED  BY <1>2, <1>4, <2>2, <2>3, DeqFine
  <1>5. CASE ~(t.queue["mode"] # <<>>) /\ ~(t.queue["server"] # <<>> /\ t.burst <= 1)
    <2>1. DeqMsg(s) = t \/ (t.queue["help"] # <<>> /\ DeqMsg(s) = Deq(t, "help"))
      BY <1>1, <1>5
    <2> QED  BY <1>2, <2>1, DeqFine
  <1> QED  BY <1>3, <1>4, <1>5

-----------------------------------------------------------------------------
(* Queueing.                                                                *)

LEMMA InsertedFine ==
  ASSUME NEW n, NEW s, Fine(s, n), NEW q \in Queues, NEW next, NEW l \in QLines, l.conn = n, HasRoom(s, q)
  PROVE  Fine(Inserted(s, q, next, l), n)
  <1> DEFINE ls == s.queue[q]
             new == IF next THEN <<l>> \o ls ELSE IF q \in s.dangling THEN ls ELSE Append(ls, l)
             queue1 == [s.queue EXCEPT ![q] = new]
             tot1 == [s.tot EXCEPT ![q] = @ + 1]
             t == Inserted(s, q, next, l)
  <1>1. s \in States /\ ls \in Seq(QLines) /\ For(ls, n) /\ Len(ls) <= s.tot[q] /\ Len(ls) \in Nat
    BY FineIs
  <1>2. s.queue \in [Queues -> Seq(QLines)] /\ s.tot \in [Queues -> Int]
    BY <1>1 DEF States
  <1>3. t = [s EXCEPT !.queue = queue1, !.tot = tot1]
    BY <1>1 DEF Inserted, States
  <1> HIDE DEF ls
  <1>4. new \in Seq(QLines) /\ Len(new) <= Len(ls) + 1 /\ For(new, n)
    BY <1>1 DEF For
  <1> HIDE DEF new
  <1>5. queue1 \in [Queues -> Seq(QLines)] /\ queue1[q] = new /\ \A r \in Queues : r # q => queue1[r] = s.queue[r]
    BY <1>2, <1>4
  <1>6. tot1 \in [Queues -> Int] /\ tot1[q] = s.tot[q] + 1 /\ \A r \in Queues : r # q => tot1[r] = s.tot[r]
    BY <1>2
  <1> HIDE DEF queue1, tot1, t
  <1>7. t = [queue |-> queue1, dangling |-> s.dangling, tot |-> tot1, burst |-> s.burst, gap |-> s.gap, out |-> s.out]
    BY <1>1, <1>3 DEF States
  <1>8. t \in States
    BY <1>1, <1>5, <1>6, <1>7 DEF States
  <1>9. t.queue = queue1 /\ t.tot = tot1 /\ t.burst = s.burst /\ t.gap = s.gap /\ t.out = s.out
    BY <1>7
  <1>10. ASSUME NEW r \in Queues PROVE Len(t.queue[r]) <= t.tot[r] /\ t.tot[r] <= MaxQMsg /\ For(t.queue[r], n)
    <2>1. CASE r # q
      BY <1>5, <1>6, <1>9, <2>1 DEF Fine
    <2>2. CASE r = q
      <3>1. Len(new) \in Nat /\ s.tot[q] \in Int /\ s.tot[q] < MaxQMsg
        BY <1>2, <1>4 DEF HasRoom
      <3>2. Len(new) <= tot1[q] /\ tot1[q] <= MaxQMsg
        BY <1>1, <1>4, <1>6, <3>1, QueuesConstants
      <3> QED  BY <1>4, <1>5, <1>9, <2>2, <3>2
    <2> QED  BY <2>1, <2>2
  <1> QED  BY <1>8, <1>9, <1>10 DEF Fine, t

LEMMA QueuedFine ==
  ASSUME NEW n, NEW s, Fine(s, n), NEW q \in Queues, NEW next, NEW l \in QLines, l.conn = n
  PROVE  Fine(Queued(s, q, next, l), n)
  <1> DEFINE deq(t) == IF q = "mode" THEN DeqMsg(t) ELSE t
  <1>1. Queued(s, q, next, l) = CASE ~HasRoom(s, q)                     -> deq(s)
                                  [] HasRoom(s, q) /\ Twice(s, q, l)    -> s
                                  [] HasRoom(s, q) /\ ~Twice(s, q, l)   -> deq(Inserted(s, q, next, l))
    BY DEF Queued
  <1>2. \A t : Fine(t, n) => Fine(deq(t), n)
    BY DeqMsgFine
  <1> HIDE DEF deq
  <1>3. CASE ~HasRoom(s, q)
    BY <1>1, <1>2, <1>3
  <1>4. CASE HasRoom(s, q) /\ Twice(s, q, l)
    BY <1>1, <1>4
  <1>5. CASE HasRoom(s, q) /\ ~Twice(s, q, l)
    BY <1>1, <1>2, <1>5, InsertedFine
  <1> QED  BY <1>3, <1>4, <1>5

\* The login, line by line.
LoginOf(L, N) ==
  L = [k \in 0..N |-> IF k = 0 THEN Now ELSE Queued(L[k - 1], "mode", FALSE, OnConn(Login[k], dialled))]

LEMMA LoginExists ==
  ASSUME NEW N \in Nat
  PROVE  \E L : LoginOf(L, N)
  <1> DEFINE D == {n \in Nat : ~\E L : LoginOf(L, n)}
             Step(x, k) == Queued(x, "mode", FALSE, OnConn(Login[k], dialled))
  <1> HIDE DEF Step
  <1>1. SUFFICES ASSUME D # {} PROVE FALSE
    OBVIOUS
  <1>2. PICK n \in D : \A y \in D : n <= y
    BY <1>1, LeastOfMany
  <1>3. n \in Nat /\ ~\E L : LoginOf(L, n)
    BY <1>2
  <1>4. CASE n = 0
    <2> DEFINE L == [k \in 0..0 |-> Now]
    <2>1. LoginOf(L, 0)
      BY DEF LoginOf
    <2> QED  BY <1>3, <1>4, <2>1
  <1>5. CASE n # 0
    <2>1. n - 1 \in Nat /\ ~(n <= n - 1)
      BY <1>3, <1>5
    <2>2. PICK L : LoginOf(L, n - 1)
      BY <1>2, <2>1
    <2> DEFINE last == Step(L[n - 1], n)
               G == [k \in 0..n |-> IF k = n THEN last ELSE L[k]]
    <2>3. \A k \in 0..n : G[k] = IF k = 0 THEN Now ELSE Step(G[k - 1], k)
      <3> SUFFICES ASSUME NEW k \in 0..n PROVE G[k] = IF k = 0 THEN Now ELSE Step(G[k - 1], k)
        OBVIOUS
      <3>1. k # 0 => k - 1 \in 0..n /\ k - 1 # n
        BY <1>3
      <3>2. k # 0 => G[k - 1] = L[k - 1]
        BY <3>1
      <3>3. CASE k = n
        BY <3>2, <3>3, <1>5
      <3>4. CASE k # n
        <4>1. k \in 0..n - 1
          BY <3>4, <1>3
        <4>2. L[k] = IF k = 0 THEN Now ELSE Step(L[k - 1], k)
          BY <2>2, <4>1 DEF LoginOf, Step
        <4> QED  BY <3>2, <3>4, <4>2
      <3> QED  BY <3>3, <3>4
    <2> HIDE DEF last
    <2>4. LoginOf(G, n)
      BY <2>3 DEF LoginOf, Step
    <2> QED  BY <1>3, <2>4
  <1> QED  BY <1>4, <1>5

\* What queue_server has done after each line of the login.
LEMMA LoggedInSteps ==
  \E L : /\ L[0] = Now /\ LoggedIn = L[Len(Login)]
         /\ \A k \in 1..Len(Login) : L[k] = Queued(L[k - 1], "mode", FALSE, OnConn(Login[k], dialled))
  <1> DEFINE N == Len(Login)
             L == CHOOSE f : LoginOf(f, N)
  <1>1. N \in Nat
    BY QueuesAssumption
  <1>2. LoggedIn = L[N]
    BY Zenon DEF LoggedIn, LoginOf
  <1>3. LoginOf(L, N)
    BY <1>1, LoginExists
  <1> HIDE DEF L, N
  <1>4. \A k \in 0..N : L[k] = IF k = 0 THEN Now ELSE Queued(L[k - 1], "mode", FALSE, OnConn(Login[k], dialled))
    BY <1>3 DEF LoginOf
  <1>5. 0 \in 0..N /\ \A k \in 1..N : k \in 0..N /\ k # 0
    BY <1>1
  <1>6. L[0] = Now /\ \A k \in 1..N : L[k] = Queued(L[k - 1], "mode", FALSE, OnConn(Login[k], dialled))
    BY <1>4, <1>5
  <1> QED  BY <1>2, <1>6 DEF N

LEMMA OnConnIs ==
  ASSUME NEW l \in QueueLine, NEW n \in Nat
  PROVE  OnConn(l, n) \in QLines /\ OnConn(l, n).conn = n
  BY DEF OnConn, QueueLine, QLines

LEMMA LoggedInFine ==
  ASSUME Fine(Now, dialled), dialled \in Nat
  PROVE  Fine(LoggedIn, dialled)
  <1> DEFINE N == Len(Login)
  <1>1. N \in Nat /\ \A k \in 1..N : Login[k] \in QueueLine
    BY QueuesAssumption
  <1>2. PICK L : /\ L[0] = Now /\ LoggedIn = L[N]
                 /\ \A k \in 1..N : L[k] = Queued(L[k - 1], "mode", FALSE, OnConn(Login[k], dialled))
    BY LoggedInSteps
  <1> HIDE DEF N
  <1> DEFINE D == {k \in 0..N : ~Fine(L[k], dialled)}
  <1>3. ASSUME NEW k \in 1..N, Fine(L[k - 1], dialled) PROVE Fine(L[k], dialled)
    <2>1. OnConn(Login[k], dialled) \in QLines /\ OnConn(Login[k], dialled).conn = dialled /\ "mode" \in Queues
      BY <1>1, OnConnIs DEF Queues
    <2>2. Fine(Queued(L[k - 1], "mode", FALSE, OnConn(Login[k], dialled)), dialled)
      BY <1>3, <2>1, QueuedFine
    <2> QED  BY <1>2, <2>2
  <1>4. SUFFICES ASSUME ~Fine(L[N], dialled) PROVE FALSE
    BY <1>2
  <1>5. N \in D /\ D \subseteq Nat
    BY <1>1, <1>4
  <1>6. PICK k \in D : \A y \in D : k <= y
    BY <1>5, LeastOfMany
  <1>7. k \in 0..N /\ ~Fine(L[k], dialled)
    BY <1>6
  <1>8. k # 0
    BY <1>2, <1>7
  <1>9. k \in 1..N /\ k - 1 \in 0..N /\ ~(k <= k - 1)
    BY <1>1, <1>7, <1>8
  <1>10. Fine(L[k - 1], dialled)
    BY <1>6, <1>9
  <1> QED  BY <1>3, <1>7, <1>9, <1>10

-----------------------------------------------------------------------------
(* The inductive invariant, and that every step keeps it.                   *)

QueuesInv ==
  /\ uplink \in {"none", "resolving", "up"} /\ members \in [Channels -> SUBSET Nicks] /\ dialled \in Nat
  /\ queue \in [Queues -> Seq(QLines)] /\ dangling \in SUBSET Queues /\ tot \in [Queues -> Int]
  /\ \A q \in Queues : Len(queue[q]) <= tot[q] /\ tot[q] <= MaxQMsg /\ For(queue[q], dialled)
  /\ burst \in 0..4 /\ gap \in Int /\ gap <= MsgRate
  /\ \A k \in DOMAIN out : Meant(out[k])

LEMMA NowFine ==
  ASSUME QueuesInv
  PROVE  Fine(Now, dialled)
  <1>1. <<>> \in Seq(Writes) /\ DOMAIN <<>> = {} /\ burst \in Int
    BY DEF QueuesInv
  <1>2. Now \in States
    BY <1>1 DEF Now, QueuesInv, States
  <1>3. Now.queue = queue /\ Now.tot = tot /\ Now.burst = burst /\ Now.gap = gap /\ Now.out = <<>> /\ Now.dangling = dangling
    BY DEF Now
  <1> QED  BY <1>1, <1>2, <1>3 DEF QueuesInv, Fine

\* A step of the queues alone.
LEMMA BecomesKeeps ==
  ASSUME QueuesInv, NEW s, Fine(s, dialled), Becomes(s), UNCHANGED <<members, dialled>>,
         uplink' \in {"none", "resolving", "up"}
  PROVE  QueuesInv'
  <1>1. s \in States
    BY DEF Fine
  <1>2. queue' \in [Queues -> Seq(QLines)] /\ dangling' \in SUBSET Queues /\ tot' \in [Queues -> Int] /\ gap' \in Int
    BY <1>1 DEF Becomes, States
  <1>3. \A q \in Queues : Len(queue'[q]) <= tot'[q] /\ tot'[q] <= MaxQMsg /\ For(queue'[q], dialled')
    BY DEF Becomes, Fine
  <1>4. \A k \in DOMAIN out' : Meant(out'[k])
    BY DEF Becomes, Fine
  <1>5. \A k \in DOMAIN out' : Meant(out[k])'
    BY <1>4 DEF Meant
  <1>6. burst' \in 0..4 /\ gap' <= MsgRate
    BY DEF Becomes, Fine
  <1> QED  BY <1>2, <1>3, <1>5, <1>6 DEF QueuesInv, For

LEMMA QueuesInit == InitQueues => QueuesInv
  <1> SUFFICES ASSUME InitQueues PROVE QueuesInv
    OBVIOUS
  <1>1. Joined \in [Channels -> SUBSET Nicks]
    BY QueuesAssumption
  <1>2. <<>> \in Seq(QLines) /\ DOMAIN <<>> = {} /\ Len(<<>>) = 0 /\ 0 \in Int /\ 0 \in 0..4
    OBVIOUS
  <1> QED  BY <1>1, <1>2, QueuesConstants DEF InitQueues, QueuesInv, For

LEMMA QueueServerKeeps ==
  ASSUME QueuesInv, NEW i \in Inputs, QueueServer(i)
  PROVE  QueuesInv'
  <1> DEFINE l == OnConn(i.line, dialled)
             s == Queued(Now, i.queue, i.next, l)
  <1>1. i.line \in QueueLine /\ i.queue \in Queues /\ dialled \in Nat
    BY QueuesAssumption DEF QueuesInv
  <1>2. l \in QLines /\ l.conn = dialled
    BY <1>1, OnConnIs
  <1>3. UNCHANGED <<members, dialled>> /\ uplink' \in {"none", "resolving", "up"} /\ (Becomes(s) \/ Becomes(Now))
    BY DEF QueueServer, QueuesInv
  <1> HIDE DEF l
  <1>4. Fine(Now, dialled) /\ Fine(s, dialled)
    BY <1>1, <1>2, NowFine, QueuedFine
  <1> HIDE DEF s
  <1> QED  BY <1>3, <1>4, BecomesKeeps

LEMMA ClearQueueKeeps ==
  ASSUME QueuesInv, NEW cs \in SUBSET Queues, ClearQueue(cs)
  PROVE  QueuesInv'
  <1>1. /\ queue' = [q \in Queues |-> IF q \in cs THEN <<>> ELSE queue[q]]
        /\ tot' = [q \in Queues |-> IF q \in cs THEN 0 ELSE tot[q]]
        /\ dangling' = dangling \ cs /\ burst' \in {0, burst} /\ gap' = gap /\ out' = <<>>
        /\ UNCHANGED <<uplink, members, dialled>>
    BY DEF ClearQueue, Becomes, Now
  <1>2. <<>> \in Seq(QLines) /\ DOMAIN <<>> = {} /\ Len(<<>>) = 0 /\ 0 \in Int /\ 0 \in 0..4
    OBVIOUS
  <1>3. queue' \in [Queues -> Seq(QLines)] /\ tot' \in [Queues -> Int]
    BY <1>1, <1>2 DEF QueuesInv
  <1>4. \A q \in Queues : Len(queue'[q]) <= tot'[q] /\ tot'[q] <= MaxQMsg /\ For(queue'[q], dialled)
    BY <1>1, <1>2, QueuesConstants DEF QueuesInv, For
  <1>5. burst' \in 0..4 /\ dangling' \in SUBSET Queues
    BY <1>1 DEF QueuesInv
  <1> QED  BY <1>1, <1>2, <1>3, <1>4, <1>5 DEF QueuesInv, For

LEMMA GreatestOfMany ==
  ASSUME NEW N \in Nat, NEW S, S \subseteq 0..N, S # {}
  PROVE  Max(S) \in S
  <1> DEFINE R == {N - k : k \in S}
  <1>1. R \subseteq Nat /\ R # {}
    <2>1. \A k \in 0..N : N - k \in Nat
      OBVIOUS
    <2>2. R \subseteq Nat
      BY <2>1
    <2>3. PICK k \in S : TRUE
      OBVIOUS
    <2>4. N - k \in R
      BY <2>3
    <2> QED  BY <2>2, <2>4
  <1>2. PICK x \in R : \A y \in R : x <= y
    BY <1>1, LeastOfMany
  <1>3. PICK k \in S : x = N - k
    BY <1>2
  <1>4. \A j \in S : k >= j
    <2> SUFFICES ASSUME NEW j \in S PROVE k >= j
      OBVIOUS
    <2>1. N - j \in R
      OBVIOUS
    <2>2. N - k <= N - j
      BY <1>2, <1>3, <2>1
    <2>3. k \in 0..N /\ j \in 0..N
      OBVIOUS
    <2> QED  BY <2>2, <2>3
  <1> QED  BY <1>4, Zenon DEF Max

\* A line in which a nick is followed is a line of the same connection.
LEMMA ParseQIs ==
  ASSUME NEW l \in QLines, NEW old, NEW new \in Nicks
  PROVE  ParseQ(l, old, new) \in QLines /\ ParseQ(l, old, new).conn = l.conn
  <1>1. CASE ~(l.cmd = "KICK" /\ old \in Range(l.nicks))
    BY <1>1 DEF ParseQ
  <1>2. CASE l.cmd = "KICK" /\ old \in Range(l.nicks)
    <2> DEFINE ns == l.nicks
               kept == {1} \cup {k \in DOMAIN ns : ns[k] # old}
               from == Max(kept)
               v == [k \in 1..(Len(ns) - from + 1) |-> IF ns[from + k - 1] = old THEN new ELSE ns[from + k - 1]]
    <2>1. ns \in Seq(Nicks) /\ DOMAIN ns # {}
      BY <1>2 DEF QLines, Range
    <2>2. Len(ns) \in Nat /\ DOMAIN ns = 1..Len(ns) /\ 1 \in 1..Len(ns) /\ \A k \in 1..Len(ns) : ns[k] \in Nicks
      <3> HIDE DEF ns
      <3> QED  BY <2>1
    <2> HIDE DEF ns
    <2>3. kept \subseteq 0..Len(ns) /\ kept \subseteq 1..Len(ns) /\ kept # {}
      BY <2>2
    <2> HIDE DEF kept
    <2>4. from \in 1..Len(ns)
      BY <2>2, <2>3, GreatestOfMany
    <2> HIDE DEF from
    <2>5. Len(ns) - from + 1 \in Nat /\ \A k \in 1..(Len(ns) - from + 1) : from + k - 1 \in 1..Len(ns)
      BY <2>2, <2>4
    <2>6. v \in [1..(Len(ns) - from + 1) -> Nicks]
      BY <2>2, <2>5
    <2> HIDE DEF v
    <2>7. v \in Seq(Nicks)
      <3>1. \A m \in Nat : \A f \in [1..m -> Nicks] : f \in Seq(Nicks)
        OBVIOUS
      <3> QED  BY <2>5, <2>6, <3>1
    <2>8. Victims(l.nicks, old, new) = v
      BY DEF Victims, from, kept, ns, v
    <2>9. ParseQ(l, old, new) = [l EXCEPT !.nicks = v]
      BY <1>2, <2>8 DEF ParseQ
    <2> QED  BY <2>7, <2>9 DEF QLines
  <1> QED  BY <1>1, <1>2

LEMMA CheckQueuesKeeps ==
  ASSUME QueuesInv, NEW old \in Nicks, NEW new \in Nicks, CheckQueues(old, new)
  PROVE  QueuesInv'
  <1>1. UNCHANGED <<uplink, dangling, tot, burst, gap, inputs, dialled>> /\ out' = <<>>
    BY DEF CheckQueues
  <1>2. members' \in [Channels -> SUBSET Nicks]
    BY DEF CheckQueues, QueuesInv
  <1>3. ASSUME NEW q \in Queues
        PROVE  /\ queue'[q] \in Seq(QLines) /\ Len(queue'[q]) = Len(queue[q]) /\ For(queue'[q], dialled)
    <2>1. queue[q] \in Seq(QLines) /\ For(queue[q], dialled)
      BY DEF QueuesInv
    <2>2. CASE OptimizeKicks # 2
      <3>1. queue' = queue
        BY <2>2 DEF CheckQueues
      <3> QED  BY <2>1, <3>1
    <2>3. CASE OptimizeKicks = 2
      <3> DEFINE ls == queue[q]
                 new1 == [k \in DOMAIN ls |-> ParseQ(ls[k], old, new)]
      <3>1. queue'[q] = new1
        BY <2>3 DEF CheckQueues
      <3> HIDE DEF ls
      <3>2. ls \in Seq(QLines) /\ For(ls, dialled) /\ DOMAIN ls = 1..Len(ls) /\ Len(ls) \in Nat
        BY <2>1 DEF ls
      <3>3. \A k \in 1..Len(ls) : ls[k] \in QLines /\ ls[k].conn = dialled
        BY <3>2 DEF For
      <3>4. \A k \in 1..Len(ls) : ParseQ(ls[k], old, new) \in QLines /\ ParseQ(ls[k], old, new).conn = dialled
        BY <3>3, ParseQIs
      <3>5. new1 \in [1..Len(ls) -> QLines] /\ \A k \in 1..Len(ls) : new1[k].conn = dialled
        BY <3>2, <3>4
      <3> HIDE DEF new1
      <3>6. new1 \in Seq(QLines) /\ Len(new1) = Len(ls) /\ DOMAIN new1 = 1..Len(ls)
        BY <3>2, <3>5
      <3> QED  BY <3>1, <3>5, <3>6 DEF For, ls
    <2> QED  BY <2>2, <2>3
  <1>4. queue' \in [Queues -> Seq(QLines)]
    <2>1. CASE OptimizeKicks # 2
      BY <2>1 DEF CheckQueues, QueuesInv
    <2>2. CASE OptimizeKicks = 2
      <3>1. queue' = [q \in Queues |-> queue'[q]]
        BY <2>2 DEF CheckQueues
      <3> QED  BY <1>3, <3>1
    <2> QED  BY <2>1, <2>2
  <1>5. DOMAIN <<>> = {}
    OBVIOUS
  <1>6. \A q \in Queues : Len(queue'[q]) <= tot'[q] /\ tot'[q] <= MaxQMsg /\ For(queue'[q], dialled')
    BY <1>1, <1>3 DEF QueuesInv
  <1> QED  BY <1>1, <1>2, <1>4, <1>5, <1>6 DEF QueuesInv, For

LEMMA LeavesKeeps ==
  ASSUME QueuesInv, NEW c \in Channels, NEW n \in Nicks, Leaves(c, n)
  PROVE  QueuesInv'
  <1>1. UNCHANGED <<uplink, queue, dangling, tot, burst, gap, inputs, dialled>> /\ out' = <<>> /\ DOMAIN <<>> = {}
    BY DEF Leaves
  <1>2. members' \in [Channels -> SUBSET Nicks]
    BY DEF Leaves, QueuesInv
  <1> QED  BY <1>1, <1>2 DEF QueuesInv, For

LEMMA DisconnectKeeps ==
  ASSUME QueuesInv, DisconnectServer
  PROVE  QueuesInv'
  <1>1. UNCHANGED <<queue, dangling, tot, burst, gap, dialled>> /\ out' = <<>> /\ DOMAIN <<>> = {} /\ uplink' = "none"
    BY DEF DisconnectServer
  <1>2. members' \in [Channels -> SUBSET Nicks]
    BY QueuesAssumption DEF DisconnectServer
  <1> QED  BY <1>1, <1>2 DEF QueuesInv, For

LEMMA ResolvedQueuesKeep ==
  ASSUME QueuesInv, ResolvedQueues
  PROVE  QueuesInv'
  <1>1. UNCHANGED <<members, dialled>> /\ uplink' \in {"none", "resolving", "up"} /\ (Becomes(LoggedIn) \/ Becomes(Now))
    BY DEF ResolvedQueues
  <1>2. Fine(Now, dialled) /\ Fine(LoggedIn, dialled)
    BY NowFine, LoggedInFine DEF QueuesInv
  <1> QED  BY <1>1, <1>2, BecomesKeeps

\* The queues that are emptied hold lines of any connection.
LEMMA EmptyIs ==
  ASSUME NEW n, NEW s, Fine(s, n)
  PROVE  /\ EmptyMsgq(s).queue = [q \in Queues |-> <<>>] /\ EmptyMsgq(s).tot = [q \in Queues |-> 0]
         /\ EmptyMsgq(s).dangling = {} /\ EmptyMsgq(s).burst = 0 /\ EmptyMsgq(s).gap = s.gap /\ EmptyMsgq(s).out = s.out
  <1>1. s \in States
    BY DEF Fine
  <1> QED  BY <1>1 DEF EmptyMsgq, States

LEMMA LaterFine ==
  ASSUME NEW n, NEW s, Fine(s, n), NEW g \in Int, g <= MsgRate
  PROVE  Fine([s EXCEPT !.gap = g], n)
  <1> DEFINE t == [s EXCEPT !.gap = g]
  <1>1. s \in States
    BY DEF Fine
  <1>2. t \in States /\ t.queue = s.queue /\ t.tot = s.tot /\ t.burst = s.burst /\ t.gap = g /\ t.out = s.out
    BY <1>1 DEF States
  <1> QED  BY <1>2 DEF Fine

LEMMA SecondlyQueuesKeep ==
  ASSUME QueuesInv, SecondlyQueues
  PROVE  QueuesInv'
  <1> DEFINE g == Min({gap + 1, MsgRate})
             t == [Now EXCEPT !.gap = g]
             s == IF uplink = "up" THEN DeqMsg(t) ELSE Refill(t)
  <1>1. /\ \/ uplink # "none" /\ UNCHANGED <<uplink, dialled>> /\ Becomes(s)
           \/ uplink = "none" /\ Reconnect(s)
        /\ UNCHANGED members
    BY DEF SecondlyQueues, Now
  <1>2. g \in Int /\ g <= MsgRate
    <2>1. gap + 1 \in Int /\ MsgRate \in Int
      BY QueuesConstants DEF QueuesInv
    <2>2. g \in {gap + 1, MsgRate} /\ g <= MsgRate
      BY <2>1, MinOfTwo
    <2> QED  BY <2>1, <2>2
  <1> HIDE DEF g
  <1>3. Fine(t, dialled)
    BY <1>2, NowFine, LaterFine
  <1> HIDE DEF t
  <1>4. Fine(s, dialled)
    BY <1>3, DeqMsgFine, RefillFine
  <1> HIDE DEF s
  <1>5. CASE uplink # "none" /\ UNCHANGED <<uplink, dialled>> /\ Becomes(s)
    <2>1. uplink' \in {"none", "resolving", "up"}
      BY <1>5 DEF QueuesInv
    <2> QED  BY <1>1, <1>4, <1>5, <2>1, BecomesKeeps
  <1>6. CASE uplink = "none" /\ Reconnect(s)
    <2>1. /\ queue' = [q \in Queues |-> <<>>] /\ tot' = [q \in Queues |-> 0] /\ dangling' = {} /\ burst' = 0
          /\ gap' = s.gap /\ out' = s.out
      BY <1>4, <1>6, EmptyIs DEF Reconnect, Becomes
    <2>2. uplink' \in {"none", "resolving", "up"} /\ dialled' \in Nat
      BY <1>6 DEF Reconnect, QueuesInv
    <2>3. <<>> \in Seq(QLines) /\ DOMAIN <<>> = {} /\ Len(<<>>) = 0 /\ 0 \in Int /\ 0 \in 0..4
      OBVIOUS
    <2>4. queue' \in [Queues -> Seq(QLines)] /\ tot' \in [Queues -> Int]
      BY <2>1, <2>3
    <2>5. \A q \in Queues : Len(queue'[q]) <= tot'[q] /\ tot'[q] <= MaxQMsg /\ For(queue'[q], dialled')
      BY <2>1, <2>3, QueuesConstants DEF For
    <2>6. gap' \in Int /\ gap' <= MsgRate
      BY <1>4, <2>1 DEF Fine, States
    <2>7. \A k \in DOMAIN out' : Meant(out[k])'
      BY <1>1, <1>4, <2>1 DEF Fine, Meant
    <2>8. members' \in [Channels -> SUBSET Nicks] /\ burst' \in 0..4 /\ dangling' \in SUBSET Queues
      BY <1>1, <2>1, <2>3 DEF QueuesInv
    <2> QED  BY <2>2, <2>4, <2>5, <2>6, <2>7, <2>8 DEF QueuesInv, For
  <1> QED  BY <1>1, <1>5, <1>6

LEMMA QueuesStep == QueuesInv /\ [NextQueues]_queueVars => QueuesInv'
  <1> SUFFICES ASSUME QueuesInv, [NextQueues]_queueVars PROVE QueuesInv'
    OBVIOUS
  <1>1. CASE UNCHANGED queueVars
    BY <1>1 DEF queueVars, QueuesInv, For, Meant
  <1>2. CASE \E i \in Inputs : QueueServer(i)
    BY <1>2, QueueServerKeeps
  <1>3. CASE \E cs \in SUBSET Queues : ClearQueue(cs)
    BY <1>3, ClearQueueKeeps
  <1>4. CASE \E old, new \in Nicks : CheckQueues(old, new)
    BY <1>4, CheckQueuesKeeps
  <1>5. CASE \E c \in Channels, n \in Nicks : Leaves(c, n)
    BY <1>5, LeavesKeeps
  <1>6. CASE SecondlyQueues
    BY <1>6, SecondlyQueuesKeep
  <1>7. CASE ResolvedQueues
    BY <1>7, ResolvedQueuesKeep
  <1>8. CASE DisconnectServer
    BY <1>8, DisconnectKeeps
  <1> QED  BY <1>1, <1>2, <1>3, <1>4, <1>5, <1>6, <1>7, <1>8 DEF NextQueues

LEMMA QueuesMean == QueuesInv => QueuesKept
  <1> SUFFICES ASSUME QueuesInv PROVE QueuesKept
    OBVIOUS
  <1>1. QueueTypeOK
    <2>1. ASSUME NEW q \in Queues PROVE tot[q] \in 0..MaxQMsg /\ Len(queue[q]) <= MaxQMsg
      <3>1. Len(queue[q]) \in Nat /\ tot[q] \in Int /\ Len(queue[q]) <= tot[q] /\ tot[q] <= MaxQMsg
        BY DEF QueuesInv
      <3> QED  BY <3>1, QueuesConstants
    <2> QED  BY <2>1 DEF QueuesInv, QueueTypeOK
  <1>2. OnlyThisConnection
    BY DEF QueuesInv, OnlyThisConnection, For
  <1>3. NoVainKicks
    BY DEF QueuesInv, NoVainKicks, Meant
  <1> QED  BY <1>1, <1>2, <1>3 DEF QueuesKept

\* What was queued for one connection never goes out on another, nobody is kicked who has left, and the
\* counters stay within their limits: for any lines, settings, channels and nicks, any number of
\* connections, and whatever is stacked, merged or purged on the way.
THEOREM QueuesAreKept == SpecQueues => []QueuesKept
  <1>1. InitQueues => QueuesInv
    BY QueuesInit
  <1>2. QueuesInv /\ [NextQueues]_queueVars => QueuesInv'
    BY QueuesStep
  <1>3. QueuesInv => QueuesKept
    BY QueuesMean
  <1> QED  BY <1>1, <1>2, <1>3, PTL DEF SpecQueues

-----------------------------------------------------------------------------
(* Without kicks that are merged or purged nothing is lost.                 *)

AllAsks(qs) == UNION {AsksOf(qs[q]) : q \in Queues}
Written(ws) == UNION {AsksWritten(ws[k]) : k \in DOMAIN ws}

\* No pointer dangles, every line is counted, what was owed has been written or is in a queue, and
\* the mode queue has no more than b lines.
Whole(s, o, b) ==
  /\ s.dangling = {} /\ \A q \in Queues : s.tot[q] = Len(s.queue[q])
  /\ o \ Written(s.out) \subseteq AllAsks(s.queue)
  /\ Len(s.queue["mode"]) <= b

LEMMA InAll ==
  ASSUME NEW qs, NEW x
  PROVE  x \in AllAsks(qs) <=> \E q \in Queues : \E k \in DOMAIN qs[q] : x \in Asks(qs[q][k])
  BY DEF AllAsks, AsksOf

LEMMA WriteWhole ==
  ASSUME NEW n, NEW s, Fine(s, n), NEW o, NEW b \in Nat, Whole(s, o, b), NEW q \in Queues,
         NEW rest \in Seq(QLines), NEW lastFreed, lastFreed # "dangles", NEW w \in Writes,
         Len(rest) <= Len(s.queue[q]), AsksOf(s.queue[q]) \subseteq AsksWritten(w) \cup AsksOf(rest)
  PROVE  Whole(WriteToServer(s, q, rest, lastFreed, w), o, b)
  <1> DEFINE t == WriteToServer(s, q, rest, lastFreed, w)
  <1>1. s \in States /\ s.dangling = {}
    BY DEF Fine, Whole
  <1>2. /\ t \in States
        /\ t.queue = [s.queue EXCEPT ![q] = rest]
        /\ t.tot = [s.tot EXCEPT ![q] = @ - (Len(s.queue[q]) - Len(rest))]
        /\ t.out = Append(s.out, w)
        /\ t.dangling = {}
    BY <1>1, WriteIs
  <1> HIDE DEF t
  <1>3. s.queue \in [Queues -> Seq(QLines)] /\ s.tot \in [Queues -> Int] /\ s.out \in Seq(Writes)
    BY <1>1 DEF States
  <1>4. t.queue[q] = rest /\ t.tot[q] = s.tot[q] - (Len(s.queue[q]) - Len(rest))
        /\ \A p \in Queues : p # q => t.queue[p] = s.queue[p] /\ t.tot[p] = s.tot[p]
    BY <1>2, <1>3
  <1>5. \A p \in Queues : t.tot[p] = Len(t.queue[p])
    <2>1. s.tot[q] = Len(s.queue[q]) /\ Len(s.queue[q]) \in Nat /\ Len(rest) \in Nat
      BY <1>3 DEF Whole
    <2>2. t.tot[q] = Len(t.queue[q])
      BY <1>4, <2>1
    <2> QED  BY <1>4, <2>2 DEF Whole
  <1>6. Written(t.out) = Written(s.out) \cup AsksWritten(w)
    <2>1. /\ DOMAIN Append(s.out, w) = DOMAIN s.out \cup {Len(s.out) + 1}
          /\ Append(s.out, w)[Len(s.out) + 1] = w
          /\ \A k \in DOMAIN s.out : Append(s.out, w)[k] = s.out[k]
      BY <1>3
    <2> QED  BY <1>2, <2>1 DEF Written
  <1>7. o \ Written(t.out) \subseteq AllAsks(t.queue)
    <2> SUFFICES ASSUME NEW x, x \in o, x \notin Written(t.out) PROVE x \in AllAsks(t.queue)
      OBVIOUS
    <2>1. x \in AllAsks(s.queue) /\ x \notin AsksWritten(w)
      BY <1>6 DEF Whole
    <2>2. PICK p \in Queues : x \in AsksOf(s.queue[p])
      BY <2>1 DEF AllAsks
    <2>3. CASE p = q
      BY <1>4, <2>1, <2>2, <2>3 DEF AllAsks
    <2>4. CASE p # q
      BY <1>4, <2>2, <2>4 DEF AllAsks
    <2> QED  BY <2>3, <2>4
  <1>8. Len(t.queue["mode"]) <= b
    <2>1. "mode" \in Queues
      BY DEF Queues
    <2>2. \A p \in Queues : Len(t.queue[p]) \in Nat /\ Len(s.queue[p]) \in Nat /\ Len(t.queue[p]) <= Len(s.queue[p])
      <3>1. \A p \in Queues : Len(s.queue[p]) \in Nat
        BY <1>3
      <3>2. Len(t.queue[q]) \in Nat /\ Len(t.queue[q]) <= Len(s.queue[q])
        BY <1>4
      <3>3. \A p \in Queues : p # q => Len(t.queue[p]) = Len(s.queue[p])
        BY <1>4
      <3>4. \A i \in Nat : i <= i
        OBVIOUS
      <3> QED  BY <3>1, <3>2, <3>3, <3>4
    <2>3. Len(t.queue["mode"]) \in Nat /\ Len(s.queue["mode"]) \in Nat /\ Len(t.queue["mode"]) <= Len(s.queue["mode"])
      BY <2>1, <2>2
    <2> QED  BY <2>3 DEF Whole
  <1> QED  BY <1>2, <1>5, <1>7, <1>8 DEF Whole, t

\* fast_deq writes what it takes.
LEMMA FastDeqWhole ==
  ASSUME NEW n, NEW s, Fine(s, n), NEW o, NEW b \in Nat, Whole(s, o, b), NEW q \in Queues, s.queue[q] # <<>>
  PROVE  Whole(FastDeq(s, q), o, b)
  <1> DEFINE ls == s.queue[q]
             same == {k \in 2..Len(ls) : Stacks(ls[1], ls[k])}
             picked == {k \in same : StackLimit = 0 \/ Cardinality({j \in same : j < k}) < StackLimit - 1}
             to == Chosen(ls, {1} \cup picked)
             targets == [k \in DOMAIN to |-> to[k].to]
             rest == Chosen(ls, (2..Len(ls)) \ picked)
             freed == IF Len(ls) \in picked THEN "repaired" ELSE "kept"
             w == [cmd |-> ls[1].cmd, to |-> targets, nicks |-> ls[1].nicks, text |-> ls[1].text]
  <1>1. FastDeq(s, q) = WriteToServer(s, q, rest, freed, w)
    BY DEF FastDeq
  <1>2. ls \in Seq(QLines) /\ 1 \in DOMAIN ls /\ ls[1] \in QLines /\ DOMAIN ls = 1..Len(ls) /\ Len(ls) \in Nat
    BY FineIs
  <1>3. picked \subseteq 2..Len(ls) /\ \A k \in picked : Stacks(ls[1], ls[k])
    OBVIOUS
  <1> HIDE DEF ls, picked
  <1>4. /\ to \in Seq(QLines) /\ \A i \in DOMAIN ls : i \in {1} \cup picked => \E k \in DOMAIN to : to[k] = ls[i]
        /\ rest \in Seq(QLines) /\ \A i \in DOMAIN ls : i \in (2..Len(ls)) \ picked => \E k \in DOMAIN rest : rest[k] = ls[i]
    <2>1. \A S : /\ Chosen(ls, S) \in Seq(QLines)
                 /\ \A i \in DOMAIN ls : i \in S => \E k \in DOMAIN Chosen(ls, S) : Chosen(ls, S)[k] = ls[i]
      BY <1>2, ChosenLines
    <2> DEFINE A == {1} \cup picked
               B == (2..Len(ls)) \ picked
    <2> HIDE DEF A, B
    <2>2. /\ Chosen(ls, A) \in Seq(QLines) /\ \A i \in DOMAIN ls : i \in A => \E k \in DOMAIN Chosen(ls, A) : Chosen(ls, A)[k] = ls[i]
          /\ Chosen(ls, B) \in Seq(QLines) /\ \A i \in DOMAIN ls : i \in B => \E k \in DOMAIN Chosen(ls, B) : Chosen(ls, B)[k] = ls[i]
      BY <2>1
    <2> QED  BY <2>2 DEF A, B
  <1>5. Len(rest) <= Len(ls)
    BY <1>2, ChosenIs
  <1> HIDE DEF to, rest
  <1>6. targets \in Seq(STRING)
    <2>1. \A k \in 1..Len(to) : to[k].to \in STRING
      <3>1. \A k \in 1..Len(to) : to[k] \in QLines
        BY <1>4
      <3> QED  BY <3>1 DEF QLines
    <2>2. Len(to) \in Nat /\ DOMAIN to = 1..Len(to)
      BY <1>4
    <2> QED  BY <2>1, <2>2
  <1>7. w \in Writes
    BY <1>2, <1>6 DEF QLines, Writes
  <1>8. w.cmd = ls[1].cmd /\ w.nicks = ls[1].nicks /\ w.text = ls[1].text /\ w.to = targets
    OBVIOUS
  <1> HIDE DEF w
  <1>9. ASSUME NEW k \in DOMAIN ls, k \in {1} \cup picked PROVE Asks(ls[k]) \subseteq AsksWritten(w)
    <2>1. PICK j \in DOMAIN to : to[j] = ls[k]
      BY <1>4, <1>9
    <2>2. ls[k].to \in Range(w.to)
      BY <1>8, <2>1 DEF Range
    <2>3. ls[k].cmd = w.cmd /\ ls[k].nicks = w.nicks /\ ls[k].text = w.text
      BY <1>3, <1>8, <1>9 DEF Stacks
    <2> QED  BY <2>2, <2>3 DEF Asks, AsksWritten
  <1>10. AsksOf(ls) \subseteq AsksWritten(w) \cup AsksOf(rest)
    <2> SUFFICES ASSUME NEW k \in DOMAIN ls PROVE Asks(ls[k]) \subseteq AsksWritten(w) \cup AsksOf(rest)
      BY DEF AsksOf
    <2>1. CASE k \in {1} \cup picked
      BY <1>9, <2>1
    <2>2. CASE k \notin {1} \cup picked
      <3>1. k \in (2..Len(ls)) \ picked
        BY <1>2, <2>2
      <3>2. PICK j \in DOMAIN rest : rest[j] = ls[k]
        BY <1>4, <3>1
      <3> QED  BY <3>2 DEF AsksOf
    <2> QED  BY <2>1, <2>2
  <1>11. freed # "dangles"
    OBVIOUS
  <1> HIDE DEF freed
  <1>12. Len(rest) <= Len(s.queue[q]) /\ AsksOf(s.queue[q]) \subseteq AsksWritten(w) \cup AsksOf(rest)
    BY <1>5, <1>10 DEF ls
  <1> QED  BY <1>1, <1>4, <1>7, <1>11, <1>12, WriteWhole

LEMMA DeqWhole ==
  ASSUME OptimizeKicks = 0,
         NEW n, NEW s, Fine(s, n), NEW o, NEW b \in Nat, Whole(s, o, b), NEW q \in Queues, s.queue[q] # <<>>
  PROVE  Whole(Deq(s, q), o, b)
  <1>1. Deq(s, q) = FastDeq(s, q)
    BY DEF Deq
  <1> QED  BY <1>1, FastDeqWhole

\* The rate and the burst concern no line.
LEMMA SameWhole ==
  ASSUME NEW s, NEW t, NEW o, NEW b, Whole(s, o, b),
         t.queue = s.queue, t.tot = s.tot, t.dangling = s.dangling, t.out = s.out
  PROVE  Whole(t, o, b)
  BY DEF Whole

LEMMA CountWhole ==
  ASSUME NEW n, NEW s, Fine(s, n), NEW o, NEW b, Whole(s, o, b)
  PROVE  Whole(Count(s), o, b)
  <1>1. s \in States
    BY DEF Fine
  <1>2. Count(s).queue = s.queue /\ Count(s).tot = s.tot /\ Count(s).dangling = s.dangling /\ Count(s).out = s.out
    BY <1>1 DEF Count, States
  <1> QED  BY <1>2, SameWhole

LEMMA RefillWhole ==
  ASSUME NEW n, NEW s, Fine(s, n), NEW o, NEW b, Whole(s, o, b)
  PROVE  Whole(Refill(s), o, b)
  <1>1. s \in States
    BY DEF Fine
  <1>2. Refill(s).queue = s.queue /\ Refill(s).tot = s.tot /\ Refill(s).dangling = s.dangling /\ Refill(s).out = s.out
    BY <1>1 DEF Refill, States
  <1> QED  BY <1>2, SameWhole

LEMMA OneModeWhole ==
  ASSUME OptimizeKicks = 0, NEW n, NEW s, Fine(s, n), NEW o, NEW b \in Nat, Whole(s, o, b)
  PROVE  Whole(OneMode(s), o, b)
  <1>1. CASE s.queue["mode"] # <<>> /\ s.burst < 4 /\ -s.gap < MaxPenalty
    <2>1. OneMode(s) = Count(Deq(s, "mode"))
      BY <1>1 DEF OneMode
    <2>2. "mode" \in Queues
      BY DEF Queues
    <2>3. Fine(Deq(s, "mode"), n) /\ Whole(Deq(s, "mode"), o, b)
      BY <1>1, <2>2, DeqFine, DeqWhole
    <2> QED  BY <2>1, <2>3, CountWhole
  <1>2. CASE ~(s.queue["mode"] # <<>> /\ s.burst < 4 /\ -s.gap < MaxPenalty)
    BY <1>2 DEF OneMode
  <1> QED  BY <1>1, <1>2

LEMMA DeqModeWhole ==
  ASSUME OptimizeKicks = 0, NEW n, NEW s, Fine(s, n), NEW o, NEW b \in Nat, Whole(s, o, b)
  PROVE  Whole(DeqMode(s), o, b)
  <1>1. DeqMode(s) = OneMode(OneMode(OneMode(OneMode(s))))
    BY Zenon DEF DeqMode, OneMode
  <1>2. \A t : Fine(t, n) /\ Whole(t, o, b) => Fine(OneMode(t), n) /\ Whole(OneMode(t), o, b)
    BY OneModeFine, OneModeWhole
  <1> QED  BY <1>1, <1>2

LEMMA DeqMsgWhole ==
  ASSUME OptimizeKicks = 0, NEW n, NEW s, Fine(s, n), NEW o, NEW b \in Nat, Whole(s, o, b)
  PROVE  Whole(DeqMsg(s), o, b)
  <1> DEFINE t == Refill(s)
  <1>1. DeqMsg(s) = IF t.queue["mode"] # <<>> THEN DeqMode(t)
                    ELSE IF t.queue["server"] # <<>> /\ t.burst <= 1 THEN Deq(Count(t), "server")
                    ELSE IF t.queue["server"] = <<>> /\ t.queue["help"] # <<>> /\ t.burst = 0 /\ Due(s.gap)
                    THEN Deq(t, "help")
                    ELSE t
    BY DEF DeqMsg
  <1>2. Fine(t, n) /\ Whole(t, o, b) /\ {"mode", "server", "help"} = Queues
    BY RefillFine, RefillWhole DEF Queues
  <1> HIDE DEF t
  <1>3. CASE t.queue["mode"] # <<>>
    BY <1>1, <1>2, <1>3, DeqModeWhole
  <1>4. CASE ~(t.queue["mode"] # <<>>) /\ t.queue["server"] # <<>> /\ t.burst <= 1
    <2>1. t.burst < 4
      BY <1>2, <1>4 DEF Fine
    <2>2. Fine(Count(t), n) /\ Count(t).queue = t.queue /\ Whole(Count(t), o, b)
      BY <1>2, <2>1, CountFine, CountWhole
    <2>3. DeqMsg(s) = Deq(Count(t), "server")
      BY <1>1, <1>4
    <2> QED  BY <1>2, <1>4, <2>2, <2>3, DeqWhole
  <1>5. CASE ~(t.queue["mode"] # <<>>) /\ ~(t.queue["server"] # <<>> /\ t.burst <= 1)
    <2>1. DeqMsg(s) = t \/ (t.queue["help"] # <<>> /\ DeqMsg(s) = Deq(t, "help"))
      BY <1>1, <1>5
    <2> QED  BY <1>2, <2>1, DeqWhole
  <1> QED  BY <1>3, <1>4, <1>5

\* A line that there is room for is in the queue, or was.
LEMMA InsertedWhole ==
  ASSUME NEW n, NEW s, Fine(s, n), NEW o, NEW b \in Nat, Whole(s, o, b), NEW q \in Queues, NEW next, NEW l \in QLines
  PROVE  Whole(Inserted(s, q, next, l), o \cup Asks(l), b + 1)
  <1> DEFINE ls == s.queue[q]
             new == IF next THEN <<l>> \o ls ELSE Append(ls, l)
             queue1 == [s.queue EXCEPT ![q] = new]
             tot1 == [s.tot EXCEPT ![q] = @ + 1]
             t == Inserted(s, q, next, l)
  <1>1. s \in States /\ ls \in Seq(QLines) /\ Len(ls) \in Nat /\ q \notin s.dangling /\ s.tot[q] = Len(ls)
    BY FineIs DEF Whole
  <1>2. s.queue \in [Queues -> Seq(QLines)] /\ s.tot \in [Queues -> Int]
    BY <1>1 DEF States
  <1>3. t = [s EXCEPT !.queue = queue1, !.tot = tot1]
    BY <1>1 DEF Inserted, States
  <1> HIDE DEF ls
  <1>4. Len(new) = Len(ls) + 1 /\ (\E k \in DOMAIN new : new[k] = l) /\ \A i \in DOMAIN ls : \E k \in DOMAIN new : new[k] = ls[i]
    <2>1. CASE next
      <3>1. new = <<l>> \o ls
        BY <2>1
      <3>2. Len(<<l>> \o ls) = Len(ls) + 1 /\ (<<l>> \o ls)[1] = l /\ 1 \in DOMAIN (<<l>> \o ls)
            /\ \A i \in DOMAIN ls : i + 1 \in DOMAIN (<<l>> \o ls) /\ (<<l>> \o ls)[i + 1] = ls[i]
        BY <1>1
      <3> HIDE DEF new
      <3> QED  BY <3>1, <3>2
    <2>2. CASE ~next
      <3>1. new = Append(ls, l)
        BY <2>2
      <3>2. Len(Append(ls, l)) = Len(ls) + 1 /\ Append(ls, l)[Len(ls) + 1] = l /\ Len(ls) + 1 \in DOMAIN Append(ls, l)
            /\ \A i \in DOMAIN ls : i \in DOMAIN Append(ls, l) /\ Append(ls, l)[i] = ls[i]
        BY <1>1
      <3> HIDE DEF new
      <3> QED  BY <3>1, <3>2
    <2> QED  BY <2>1, <2>2
  <1> HIDE DEF new
  <1>5. queue1[q] = new /\ \A r \in Queues : r # q => queue1[r] = s.queue[r]
    BY <1>2
  <1>6. tot1[q] = s.tot[q] + 1 /\ \A r \in Queues : r # q => tot1[r] = s.tot[r]
    BY <1>2
  <1> HIDE DEF queue1, tot1, t
  <1>7. t.queue = queue1 /\ t.tot = tot1 /\ t.dangling = s.dangling /\ t.out = s.out
    BY <1>1, <1>3 DEF States
  <1>8. \A r \in Queues : t.tot[r] = Len(t.queue[r])
    BY <1>1, <1>4, <1>5, <1>6, <1>7 DEF Whole
  <1>9. (o \cup Asks(l)) \ Written(t.out) \subseteq AllAsks(t.queue)
    <2>1. Asks(l) \subseteq AllAsks(t.queue)
      BY <1>4, <1>5, <1>7 DEF AllAsks, AsksOf
    <2>2. AsksOf(ls) \subseteq AsksOf(new)
      BY <1>4 DEF AsksOf
    <2>3. AllAsks(s.queue) \subseteq AllAsks(t.queue)
      <3> SUFFICES ASSUME NEW r \in Queues PROVE AsksOf(s.queue[r]) \subseteq AllAsks(t.queue)
        BY DEF AllAsks
      <3>1. CASE r = q
        BY <1>5, <1>7, <2>2, <3>1 DEF AllAsks, ls
      <3>2. CASE r # q
        BY <1>5, <1>7, <3>2 DEF AllAsks
      <3> QED  BY <3>1, <3>2
    <2> QED  BY <1>7, <2>1, <2>3 DEF Whole
  <1>10. Len(t.queue["mode"]) <= b + 1
    <2>1. "mode" \in Queues
      BY DEF Queues
    <2>2. Len(s.queue["mode"]) \in Nat /\ Len(s.queue["mode"]) <= b
      BY <1>2, <2>1 DEF Whole
    <2>3. CASE q = "mode"
      BY <1>4, <1>5, <1>7, <2>2, <2>3 DEF ls
    <2>4. CASE q # "mode"
      <3>1. t.queue["mode"] = s.queue["mode"]
        BY <1>5, <1>7, <2>1, <2>4
      <3> QED  BY <2>2, <3>1
    <2> QED  BY <2>3, <2>4
  <1>11. t.dangling = {}
    BY <1>7 DEF Whole
  <1> QED  BY <1>8, <1>9, <1>10, <1>11 DEF Whole, t

LEMMA QueuedWhole ==
  ASSUME OptimizeKicks = 0, NEW n, NEW s, Fine(s, n), NEW o, NEW b \in Nat, Whole(s, o, b),
         NEW q \in Queues, NEW next, NEW l \in QLines, l.conn = n
  PROVE  Whole(Queued(s, q, next, l), IF HasRoom(s, q) THEN o \cup Asks(l) ELSE o, b + 1)
  <1> DEFINE deq(t) == IF q = "mode" THEN DeqMsg(t) ELSE t
  <1>1. Queued(s, q, next, l) = CASE ~HasRoom(s, q)                     -> deq(s)
                                  [] HasRoom(s, q) /\ Twice(s, q, l)    -> s
                                  [] HasRoom(s, q) /\ ~Twice(s, q, l)   -> deq(Inserted(s, q, next, l))
    BY DEF Queued
  <1>2. \A t, u : Fine(t, n) /\ Whole(t, u, b + 1) => Whole(deq(t), u, b + 1)
    BY DeqMsgWhole
  <1>3. Whole(s, o, b + 1)
    <2>1. Len(s.queue["mode"]) \in Nat /\ Len(s.queue["mode"]) <= b
      BY FineIs DEF Whole, Queues
    <2> QED  BY <2>1 DEF Whole
  <1> HIDE DEF deq
  <1>4. CASE ~HasRoom(s, q)
    BY <1>1, <1>2, <1>3, <1>4
  <1>5. CASE HasRoom(s, q) /\ Twice(s, q, l)
    <2>1. l \in Range(s.queue[q])
      BY <1>5 DEF Twice, Range
    <2>2. Asks(l) \subseteq AllAsks(s.queue)
      BY <2>1 DEF AllAsks, AsksOf, Range
    <2>3. Whole(s, o \cup Asks(l), b + 1)
      BY <1>3, <2>2 DEF Whole
    <2> QED  BY <1>1, <1>5, <2>3
  <1>6. CASE HasRoom(s, q) /\ ~Twice(s, q, l)
    <2>1. Fine(Inserted(s, q, next, l), n) /\ Whole(Inserted(s, q, next, l), o \cup Asks(l), b + 1)
      BY <1>6, InsertedFine, InsertedWhole
    <2> QED  BY <1>1, <1>2, <1>6, <2>1
  <1> QED  BY <1>4, <1>5, <1>6

\* The whole login is queued, if the queue has room for so many lines.
LEMMA LoggedInWhole ==
  ASSUME OptimizeKicks = 0, Len(Login) <= MaxQMsg, Fine(Now, dialled), dialled \in Nat, Whole(Now, {}, 0)
  PROVE  Whole(LoggedIn, AsksOf(Login), Len(Login))
  <1> DEFINE N == Len(Login)
             Upto(k) == UNION {Asks(Login[j]) : j \in 1..k}
             OK(x, k) == Fine(x, dialled) /\ Whole(x, Upto(k), k)
  <1>1. N \in Nat /\ N <= MaxQMsg /\ DOMAIN Login = 1..N /\ \A k \in 1..N : Login[k] \in QueueLine
    BY QueuesAssumption
  <1>2. PICK L : /\ L[0] = Now /\ LoggedIn = L[N]
                 /\ \A k \in 1..N : L[k] = Queued(L[k - 1], "mode", FALSE, OnConn(Login[k], dialled))
    BY LoggedInSteps
  <1>3. Upto(N) = AsksOf(Login)
    BY <1>1 DEF AsksOf
  <1>4. OK(L[0], 0)
    <2>1. 1..0 = {}
      OBVIOUS
    <2>2. Upto(0) = {}
      BY <2>1
    <2> QED  BY <1>2, <2>2
  <1> HIDE DEF N
  <1>5. ASSUME NEW k \in 1..N, OK(L[k - 1], k - 1) PROVE OK(L[k], k)
    <2> DEFINE l == OnConn(Login[k], dialled)
               s == L[k - 1]
    <2>1. l \in QLines /\ l.conn = dialled /\ "mode" \in Queues
      BY <1>1, OnConnIs DEF Queues
    <2>2. Asks(l) = Asks(Login[k])
      BY DEF OnConn, Asks
    <2>3. L[k] = Queued(s, "mode", FALSE, l)
      BY <1>2
    <2>4. k - 1 \in Nat /\ k - 1 < MaxQMsg /\ k - 1 + 1 = k
      BY <1>1, QueuesConstants
    <2> HIDE DEF Upto
    <2>5. Fine(s, dialled) /\ Whole(s, Upto(k - 1), k - 1)
      BY <1>5
    <2> HIDE DEF l, s
    <2>6. HasRoom(s, "mode")
      <3>1. s.tot["mode"] = Len(s.queue["mode"]) /\ Len(s.queue["mode"]) <= k - 1 /\ Len(s.queue["mode"]) \in Nat
        BY <2>1, <2>5, FineIs DEF Whole
      <3> QED  BY <3>1, <2>4, QueuesConstants DEF HasRoom
    <2>7. Fine(L[k], dialled) /\ Whole(L[k], Upto(k - 1) \cup Asks(l), k - 1 + 1)
      <3>1. Fine(L[k], dialled)
        BY <2>1, <2>3, <2>5, QueuedFine
      <3>2. Whole(Queued(s, "mode", FALSE, l), IF HasRoom(s, "mode") THEN Upto(k - 1) \cup Asks(l) ELSE Upto(k - 1), k - 1 + 1)
        BY <2>1, <2>4, <2>5, QueuedWhole
      <3> QED  BY <3>1, <3>2, <2>3, <2>6
    <2>8. Upto(k) = Upto(k - 1) \cup Asks(l)
      <3>1. 1..k = (1..(k - 1)) \cup {k}
        BY <1>1
      <3> QED  BY <3>1, <2>2 DEF Upto
    <2> QED  BY <2>4, <2>7, <2>8
  <1> HIDE DEF OK
  <1> DEFINE D == {k \in 0..N : ~OK(L[k], k)}
  <1>6. OK(L[N], N)
    <2>1. SUFFICES ASSUME ~OK(L[N], N) PROVE FALSE
      OBVIOUS
    <2>2. N \in D /\ D \subseteq Nat
      BY <1>1, <2>1
    <2>3. PICK k \in D : \A y \in D : k <= y
      BY <2>2, LeastOfMany
    <2>4. k \in 0..N /\ ~OK(L[k], k)
      BY <2>3
    <2>5. k # 0
      BY <1>4, <2>4
    <2>6. k \in 1..N /\ k - 1 \in 0..N /\ ~(k <= k - 1)
      BY <1>1, <2>4, <2>5
    <2>7. OK(L[k - 1], k - 1)
      BY <2>3, <2>6
    <2> QED  BY <1>5, <2>4, <2>6, <2>7
  <1> QED  BY <1>2, <1>3, <1>6 DEF OK, N

-----------------------------------------------------------------------------

\* With QueuesInv inductive when kicks are left as they are.
WholeInv ==
  /\ dangling = {} /\ \A q \in Queues : tot[q] = Len(queue[q])
  /\ owed \subseteq AllAsks(queue)
  /\ uplink # "up" => owed = {}
  /\ uplink = "resolving" => \A q \in Queues : queue[q] = <<>>

LEMMA NowWhole ==
  ASSUME QueuesInv, WholeInv
  PROVE  Whole(Now, owed, MaxQMsg)
  <1>1. Now.queue = queue /\ Now.tot = tot /\ Now.dangling = dangling /\ Now.out = <<>>
    BY DEF Now
  <1>2. Written(<<>>) = {}
    BY DEF Written
  <1>3. "mode" \in Queues
    BY DEF Queues
  <1>4. tot["mode"] = Len(queue["mode"]) /\ tot["mode"] <= MaxQMsg
    BY <1>3 DEF QueuesInv, WholeInv
  <1> QED  BY <1>1, <1>2, <1>4 DEF WholeInv, Whole

LEMMA BecomesWhole ==
  ASSUME NEW s, NEW o, NEW b, Whole(s, o, b), Becomes(s), owed' = Owing(o, s.out), uplink' = "up"
  PROVE  WholeInv'
  <1>1. dangling' = {} /\ (\A q \in Queues : tot'[q] = Len(queue'[q])) /\ owed' \subseteq AllAsks(queue')
    BY DEF Becomes, Whole, Owing, Written
  <1>2. AllAsks(queue)' = AllAsks(queue')
    BY DEF AllAsks, AsksOf, Asks
  <1>3. uplink' # "resolving"
    OBVIOUS
  <1> QED  BY <1>1, <1>2, <1>3 DEF WholeInv

LEMMA QueueServerWhole ==
  ASSUME OptimizeKicks = 0, QueuesInv, WholeInv, NEW i \in Inputs, QueueServer(i)
  PROVE  WholeInv'
  <1> DEFINE l == OnConn(i.line, dialled)
             s == Queued(Now, i.queue, i.next, l)
             o == IF HasRoom(Now, i.queue) THEN owed \cup Asks(l) ELSE owed
  <1>1. i.line \in QueueLine /\ i.queue \in Queues /\ dialled \in Nat
    BY QueuesAssumption DEF QueuesInv
  <1>2. l \in QLines /\ l.conn = dialled
    BY <1>1, OnConnIs
  <1>3. Owed(l) = Asks(l)
    BY DEF Owed
  <1>4. uplink' = "up"
    BY DEF QueueServer
  <1>5. \/ Becomes(s) /\ owed' = Owing(o, s.out)
        \/ Becomes(Now) /\ owed' = owed
    BY <1>3 DEF QueueServer
  <1>6. Fine(Now, dialled) /\ Whole(Now, owed, MaxQMsg) /\ MaxQMsg \in Nat
    BY NowFine, NowWhole, QueuesConstants
  <1> HIDE DEF l
  <1>7. Whole(s, o, MaxQMsg + 1)
    BY <1>1, <1>2, <1>6, QueuedWhole
  <1>8. Owing(owed, Now.out) = owed
    BY DEF Owing, Now
  <1> HIDE DEF s, o
  <1>9. CASE Becomes(s) /\ owed' = Owing(o, s.out)
    BY <1>4, <1>7, <1>9, BecomesWhole
  <1>10. CASE Becomes(Now) /\ owed' = owed
    BY <1>4, <1>6, <1>8, <1>10, BecomesWhole
  <1> QED  BY <1>5, <1>9, <1>10

LEMMA ClearQueueWhole ==
  ASSUME WholeInv, NEW cs \in SUBSET Queues, ClearQueue(cs)
  PROVE  WholeInv'
  <1>1. /\ queue' = [q \in Queues |-> IF q \in cs THEN <<>> ELSE queue[q]]
        /\ tot' = [q \in Queues |-> IF q \in cs THEN 0 ELSE tot[q]]
        /\ dangling' = dangling \ cs /\ UNCHANGED uplink
        /\ owed' = owed \cap UNION {AsksOf(queue[q]) : q \in Queues \ cs}
    BY DEF ClearQueue, Becomes, Now
  <1>2. Len(<<>>) = 0
    OBVIOUS
  <1>3. dangling' = {} /\ \A q \in Queues : tot'[q] = Len(queue'[q])
    BY <1>1, <1>2 DEF WholeInv
  <1>4. owed' \subseteq AllAsks(queue')
    <2> SUFFICES ASSUME NEW x, x \in owed' PROVE x \in AllAsks(queue')
      OBVIOUS
    <2>1. PICK q \in Queues \ cs : x \in AsksOf(queue[q])
      BY <1>1
    <2>2. queue'[q] = queue[q]
      BY <1>1, <2>1
    <2> QED  BY <2>1, <2>2 DEF AllAsks
  <1>5. AllAsks(queue)' = AllAsks(queue')
    BY DEF AllAsks, AsksOf, Asks
  <1>6. owed' \subseteq owed
    BY <1>1
  <1>7. uplink' = "resolving" => \A q \in Queues : queue'[q] = <<>>
    BY <1>1 DEF WholeInv
  <1> QED  BY <1>1, <1>3, <1>4, <1>5, <1>6, <1>7 DEF WholeInv

LEMMA OthersWhole ==
  ASSUME OptimizeKicks = 0, WholeInv,
         \/ \E old, new \in Nicks : CheckQueues(old, new)
         \/ \E c \in Channels, n \in Nicks : Leaves(c, n)
         \/ UNCHANGED queueVars
  PROVE  WholeInv'
  <1>1. UNCHANGED <<uplink, queue, dangling, tot, owed>>
    BY DEF CheckQueues, Leaves, queueVars
  <1>2. AllAsks(queue)' = AllAsks(queue')
    BY DEF AllAsks, AsksOf, Asks
  <1> QED  BY <1>1, <1>2 DEF WholeInv

LEMMA ResolvedWhole ==
  ASSUME OptimizeKicks = 0, Len(Login) <= MaxQMsg, QueuesInv, WholeInv, ResolvedQueues
  PROVE  WholeInv'
  <1>1. CASE uplink' = "up" /\ Becomes(LoggedIn) /\ owed' = Owing(AsksOf(Login), LoggedIn.out)
    <2>1. Fine(Now, dialled) /\ dialled \in Nat
      BY NowFine DEF QueuesInv
    <2>2. Whole(Now, {}, 0)
      <3>1. "mode" \in Queues /\ uplink = "resolving"
        BY DEF Queues, ResolvedQueues
      <3>2. queue["mode"] = <<>> /\ Len(<<>>) <= 0
        BY <3>1 DEF WholeInv
      <3> QED  BY <3>2, NowWhole DEF Whole, Now
    <2>3. Whole(LoggedIn, AsksOf(Login), Len(Login))
      BY <2>1, <2>2, LoggedInWhole
    <2> QED  BY <1>1, <2>3, BecomesWhole
  <1>2. CASE uplink' = "none" /\ Becomes(Now) /\ UNCHANGED owed
    <2>1. queue' = queue /\ tot' = tot /\ dangling' = dangling /\ owed' = owed
      BY <1>2 DEF Becomes, Now
    <2>2. AllAsks(queue)' = AllAsks(queue')
      BY DEF AllAsks, AsksOf, Asks
    <2>3. owed = {}
      BY DEF WholeInv, ResolvedQueues
    <2> QED  BY <1>2, <2>1, <2>2, <2>3 DEF WholeInv
  <1> QED  BY <1>1, <1>2 DEF ResolvedQueues

LEMMA DisconnectWhole ==
  ASSUME WholeInv, DisconnectServer
  PROVE  WholeInv'
  <1>1. UNCHANGED <<queue, dangling, tot>> /\ owed' = {} /\ uplink' = "none"
    BY DEF DisconnectServer
  <1> QED  BY <1>1 DEF WholeInv

LEMMA SecondlyWhole ==
  ASSUME OptimizeKicks = 0, QueuesInv, WholeInv, SecondlyQueues
  PROVE  WholeInv'
  <1> DEFINE g == Min({gap + 1, MsgRate})
             t == [Now EXCEPT !.gap = g]
             s == IF uplink = "up" THEN DeqMsg(t) ELSE Refill(t)
  <1>1. /\ \/ uplink # "none" /\ UNCHANGED <<uplink, dialled>> /\ Becomes(s)
           \/ uplink = "none" /\ Reconnect(s)
        /\ UNCHANGED members /\ owed' = Owing(owed, s.out)
    BY DEF SecondlyQueues, Now
  <1>2. g \in Int /\ g <= MsgRate
    <2>1. gap + 1 \in Int /\ MsgRate \in Int
      BY QueuesConstants DEF QueuesInv
    <2>2. g \in {gap + 1, MsgRate} /\ g <= MsgRate
      BY <2>1, MinOfTwo
    <2> QED  BY <2>1, <2>2
  <1> HIDE DEF g
  <1>3. Fine(t, dialled) /\ Whole(t, owed, MaxQMsg)
    <2>1. Fine(Now, dialled) /\ Whole(Now, owed, MaxQMsg)
      BY NowFine, NowWhole
    <2>2. t.queue = Now.queue /\ t.tot = Now.tot /\ t.dangling = Now.dangling /\ t.out = Now.out
      BY DEF Now
    <2> HIDE DEF t
    <2>3. Whole(t, owed, MaxQMsg)
      BY <2>1, <2>2, SameWhole
    <2>4. Fine(t, dialled)
      BY <1>2, <2>1, LaterFine DEF t
    <2> QED  BY <2>3, <2>4
  <1> HIDE DEF t
  <1>4. Fine(s, dialled) /\ Whole(s, owed, MaxQMsg)
    BY <1>3, DeqMsgFine, RefillFine, DeqMsgWhole, RefillWhole, QueuesConstants
  <1>5. uplink # "up" /\ Becomes(s) => queue' = Refill(t).queue
    BY DEF Becomes
  <1> HIDE DEF s
  <1>6. CASE uplink = "up"
    <2>1. Becomes(s) /\ uplink' = "up"
      BY <1>1, <1>6
    <2> QED  BY <1>1, <1>4, <2>1, BecomesWhole
  <1>7. CASE uplink # "up"
    <2>1. owed = {} /\ owed' = {}
      BY <1>1, <1>7 DEF WholeInv, Owing
    <2>2. CASE uplink = "none" /\ Reconnect(s)
      <3>1. queue' = [q \in Queues |-> <<>>] /\ tot' = [q \in Queues |-> 0] /\ dangling' = {}
        BY <1>4, <2>2, EmptyIs DEF Reconnect, Becomes
      <3>2. Len(<<>>) = 0
        OBVIOUS
      <3> QED  BY <2>1, <3>1, <3>2 DEF WholeInv
    <2>3. CASE uplink # "none" /\ UNCHANGED uplink /\ Becomes(s)
      <3>1. uplink = "resolving" /\ uplink' = "resolving"
        BY <1>7, <2>3 DEF QueuesInv
      <3>2. queue' = t.queue
        BY <1>3, <1>5, <1>7, <2>3, RefillFine
      <3>3. t.queue = queue
        BY DEF t, Now
      <3>4. \A q \in Queues : queue'[q] = <<>>
        BY <3>1, <3>2, <3>3 DEF WholeInv
      <3>5. dangling' = {} /\ \A q \in Queues : tot'[q] = Len(queue'[q])
        BY <1>4, <2>3 DEF Becomes, Whole
      <3> QED  BY <2>1, <3>4, <3>5 DEF WholeInv
    <2> QED  BY <1>1, <2>2, <2>3
  <1> QED  BY <1>6, <1>7

LEMMA WholeStep ==
  ASSUME OptimizeKicks = 0, Len(Login) <= MaxQMsg, QueuesInv, WholeInv, [NextQueues]_queueVars
  PROVE  WholeInv'
  <1>1. CASE \E i \in Inputs : QueueServer(i)
    BY <1>1, QueueServerWhole
  <1>2. CASE \E cs \in SUBSET Queues : ClearQueue(cs)
    BY <1>2, ClearQueueWhole
  <1>3. CASE \/ \E old, new \in Nicks : CheckQueues(old, new)
             \/ \E c \in Channels, n \in Nicks : Leaves(c, n)
             \/ UNCHANGED queueVars
    BY <1>3, OthersWhole
  <1>4. CASE SecondlyQueues
    BY <1>4, SecondlyWhole
  <1>5. CASE ResolvedQueues
    BY <1>5, ResolvedWhole
  <1>6. CASE DisconnectServer
    BY <1>6, DisconnectWhole
  <1> QED  BY <1>1, <1>2, <1>3, <1>4, <1>5, <1>6 DEF NextQueues

LEMMA WholeInit == InitQueues => WholeInv
  <1>1. Len(<<>>) = 0
    OBVIOUS
  <1> QED  BY <1>1 DEF InitQueues, WholeInv

LEMMA WholeMeans == WholeInv => NothingMissing
  <1> SUFFICES ASSUME WholeInv PROVE NothingMissing
    OBVIOUS
  <1>1. NothingLost
    BY DEF WholeInv, NothingLost, AllAsks
  <1>2. CountMatches
    BY DEF WholeInv, CountMatches
  <1> QED  BY <1>1, <1>2 DEF NothingMissing

\* When kicks are left as they are (optimize-kicks 0) and the login fits into its queue, nothing that
\* was accepted for the server is forgotten, whatever is stacked, refused or cleared, and every
\* queue's count is right: for any lines and settings and any number of connections.
THEOREM NothingIsMissing ==
  ASSUME OptimizeKicks = 0, Len(Login) <= MaxQMsg
  PROVE  SpecQueues => []NothingMissing
  <1>1. InitQueues => QueuesInv /\ WholeInv
    BY QueuesInit, WholeInit
  <1>2. QueuesInv /\ WholeInv /\ [NextQueues]_queueVars => (QueuesInv /\ WholeInv)'
    BY QueuesStep, WholeStep
  <1>3. QueuesInv /\ WholeInv => NothingMissing
    BY WholeMeans
  <1> QED  BY <1>1, <1>2, <1>3, PTL DEF SpecQueues

=============================================================================
