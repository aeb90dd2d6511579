----------------------------- MODULE ServerConn -----------------------------
(***************************************************************************)
(* The connection to the IRC server (server.mod/servmsg.c, server.c): the  *)
(* choice of a server, its name being resolved, registration with the      *)
(* nicks the bot may use, and the ways a connection ends.  The code keeps  *)
(* its state in separate variables that the handlers of the socket, of the *)
(* resolver, of operators and of three timers set and test.                *)
(*                                                                         *)
(* The server at the other end is external: it answers in order what it is *)
(* sent, refuses nicks in use, and may fall silent or close.               *)
(***************************************************************************)
EXTENDS Integers, Sequences, SequencesExt

CONSTANTS
  ServerList,  \* the configured servers
  Hosts, NoHost, \* every server, those an operator names included
  Chans,       \* the channels the bot belongs to
  MaxVariant,  \* how many variations of the alternate nick there are
  KeepNick,    \* keep-nick
  CycleWait,   \* server-cycle-wait
  LateSilence, \* whether a server may fall silent between its first line and 001
  TableFull,   \* whether the connection table may be full
  MaxConns, MaxLosses, MaxChanges, MaxSent \* bounds

\* A server is configured, as the code expects of a bot with this module; the rest is what the
\* settings may be.
ConstantsOK ==
  /\ NoHost \notin Hosts
  /\ ServerList \in Seq(Hosts) /\ ServerList # <<>>
  /\ MaxVariant \in Nat /\ CycleWait \in Nat

\* The nicks: the bot's own, its alternate, and the variations gotfake433 makes.
Orig  == 0
Alt   == 1
BotNicks == 0..(MaxVariant + 1)
NoNick == -1

VARIABLES
  serv,       \* serv >= 0
  resolvserv,
  trying,     \* trying_server and the connect timeout are set
  online,     \* server_online
  pinged,     \* lastpingcheck is set
  cycle,      \* cycle_time
  newserver,
  curserv,    \* -1 or an index of the list
  serverlist, \* the list, with what .jump added
  target,     \* the host of the connection's entry
  botname,
  onchan,     \* the channels marked pending or active
  link,       \* "none", "up" or "silent": the connection as it is
  ircnick,    \* what the server calls the bot, NoNick before it registers
  taken,      \* the nicks other users have, the bot's own ghost included
  toServer, toBot, \* lines under way
  conns, losses, changes \* bounds

vars == <<serv, resolvserv, trying, online, pinged, cycle, newserver, curserv, serverlist,
          target, botname, onchan, link, ircnick, taken, toServer, toBot,
          conns, losses, changes>>

flags == <<resolvserv, trying, pinged, cycle, newserver, curserv, serverlist, target>>
peer  == <<link, ircnick, taken>>
bounds == <<conns, losses, changes>>

Init ==
  /\ serv = FALSE /\ resolvserv = FALSE /\ trying = FALSE /\ online = FALSE
  /\ pinged = FALSE /\ cycle = 0
  /\ newserver = NoHost /\ curserv = -1 /\ serverlist = ServerList /\ target = NoHost
  /\ botname = Orig /\ onchan = {}
  /\ link = "none" /\ ircnick = NoNick /\ taken \in SUBSET {Orig, Alt}
  /\ toServer = <<>> /\ toBot = <<>>
  /\ conns = 0 /\ losses = 0 /\ changes = 0

Msg(cmd, n) == [cmd |-> cmd, nick |-> n]

\* A silent server reads nothing any more.
Say(ms) == toServer' = IF link = "silent" THEN <<>> ELSE toServer \o ms

\* Bound: a timer's question is not asked again while it is under way.
NoneUnderWay(question, answer) ==
  ~\E m \in Range(toServer) \cup Range(toBot) : m.cmd \in {question, answer}

-----------------------------------------------------------------------------
(* Losing a connection *)

\* Mutant: the channels outlive the connection.
KeepsChannels(toldIt) ==
  /\ serv' = FALSE /\ online' = FALSE /\ onchan' = onchan
  /\ link' = "none" /\ ircnick' = NoNick
  /\ toServer' = <<>> /\ toBot' = <<>>
  /\ taken' = IF toldIt \/ ircnick = NoNick THEN taken ELSE taken \cup {ircnick}

\* Mutant: server_online is not reset.
StaysOnline(toldIt) ==
  /\ serv' = FALSE /\ online' = online /\ onchan' = {}
  /\ link' = "none" /\ ircnick' = NoNick
  /\ toServer' = <<>> /\ toBot' = <<>>
  /\ taken' = IF toldIt \/ ircnick = NoNick THEN taken ELSE taken \cup {ircnick}

\* disconnect_server and lostdcc, whose kill_server clears the channels.  What was
\* under way is gone; the server holds the nick until it notices, unless it was told.
Disconnect(toldIt) ==
  /\ serv' = FALSE /\ online' = FALSE /\ onchan' = {}
  /\ link' = "none" /\ ircnick' = NoNick
  /\ toServer' = <<>> /\ toBot' = <<>>
  /\ taken' = IF toldIt \/ ircnick = NoNick THEN taken ELSE taken \cup {ircnick}

\* nuke_server: nothing without a connection.
NukeServer ==
  \/ serv /\ Disconnect(TRUE)
  \/ ~serv /\ UNCHANGED <<serv, online, onchan, link, ircnick, taken, toServer, toBot>>

\* eof_server, or a line that makes the bot leave: goterror, got465, got451, gotmode.
EofServer ==
  /\ link = "up" /\ losses < MaxLosses
  /\ losses' = losses + 1
  /\ \E toldIt \in BOOLEAN : Disconnect(toldIt)
  /\ UNCHANGED <<flags, botname, conns, changes>>

\* timeout_server: nothing was heard since the connection was dialled.
TimeoutServer ==
  /\ serv /\ trying /\ link = "silent"
  /\ Disconnect(FALSE)
  /\ UNCHANGED <<flags, botname, bounds>>

\* server_5minutely.  A server that lives answers a PING in less than four minutes.
FiveMinutely ==
  /\ online
  /\ \/ /\ pinged /\ link = "silent"
        /\ Disconnect(FALSE)
        /\ UNCHANGED <<flags, botname, bounds>>
     \/ /\ ~pinged /\ ~trying /\ NoneUnderWay("PING", "PONG")
        /\ pinged' = TRUE
        /\ Say(<<Msg("PING", NoNick)>>)
        /\ UNCHANGED <<serv, resolvserv, trying, online, cycle, newserver, curserv, serverlist,
                       target, botname, onchan, peer, toBot, bounds>>

-----------------------------------------------------------------------------
(* Making one *)

\* Mutant: off by one at the end of the list.
NextOrNone(asked) ==
  /\ curserv' = curserv + 1
  /\ target' = IF asked = NoHost /\ curserv' < Len(serverlist) THEN serverlist[curserv' + 1] ELSE asked
  /\ UNCHANGED serverlist

\* next_server: the server asked for, which is added to the list if it is not there,
\* or the one after curserv.
NextServer(asked) ==
  IF asked # NoHost
  THEN LET known == {i \in DOMAIN serverlist : serverlist[i] = asked}
       IN  /\ target' = asked
           /\ serverlist' = IF known = {} THEN Append(serverlist, asked) ELSE serverlist
           /\ curserv' = IF known = {} THEN Len(serverlist)
                         ELSE (CHOOSE i \in known : \A j \in known : i <= j) - 1
  ELSE /\ curserv' = IF curserv = -1 \/ curserv + 1 >= Len(serverlist) THEN 0 ELSE curserv + 1
       /\ target' = serverlist[curserv' + 1]
       /\ UNCHANGED serverlist

\* connect_server.  The request for a server is taken before it is known whether the
\* bot may connect already and whether there is room for the connection.
ConnectServer(wait) ==
  /\ pinged' = FALSE /\ trying' = TRUE
  /\ newserver' = NoHost
  /\ \/ /\ wait = 0 /\ conns < MaxConns
        /\ NextServer(newserver)
        /\ resolvserv' = TRUE /\ cycle' = CycleWait /\ conns' = conns + 1
     \/ /\ wait > 0 \/ TableFull
        /\ cycle' = wait
        /\ curserv' = -1
        /\ UNCHANGED <<resolvserv, serverlist, target, conns>>

\* server_secondly.
Secondly ==
  LET wait == IF cycle > 0 THEN cycle - 1 ELSE 0
  IN  /\ \/ /\ resolvserv \/ serv
            /\ cycle' = wait
            /\ UNCHANGED <<resolvserv, trying, pinged, newserver, curserv, serverlist, target, conns>>
         \/ /\ ~resolvserv /\ ~serv
            /\ ConnectServer(wait)
      /\ UNCHANGED <<serv, online, botname, onchan, peer, toServer, toBot, losses, changes>>

\* server_resolve_success: the login is queued unless the socket or the TLS handshake
\* fails; lostdcc then runs kill_server, which resets serv.  server_resolve_failure.
Resolved ==
  /\ resolvserv /\ resolvserv' = FALSE
  /\ \/ /\ serv' = TRUE /\ link' = "up"
        /\ botname' = Orig
        /\ toServer' = <<Msg("NICK", Orig)>> /\ toBot' = <<>>
        /\ UNCHANGED <<online, onchan, losses>>
     \/ /\ losses < MaxLosses /\ losses' = losses + 1
        /\ serv' = FALSE
        /\ UNCHANGED <<online, onchan, link, botname, toServer, toBot>>
  /\ UNCHANGED <<trying, pinged, cycle, newserver, curserv, serverlist, target, ircnick, taken,
                 conns, changes>>

\* .jump with a server, and without.
Jump(h) ==
  /\ changes < MaxChanges /\ changes' = changes + 1
  /\ newserver' = IF h = NoHost THEN newserver ELSE h
  /\ cycle' = 0
  /\ NukeServer
  /\ UNCHANGED <<resolvserv, trying, pinged, curserv, serverlist, target, botname, conns, losses>>

-----------------------------------------------------------------------------
(* BotNicks *)

\* gotfake433: the alternate nick, then its variations.
Fallback(n) == IF n <= MaxVariant THEN n + 1 ELSE n

\* Mutant: only changes that the bot asked for are followed.
OnlyOwn(m) ==
  /\ botname' = IF m.nick = botname /\ m.new = Orig THEN m.new ELSE botname
  /\ UNCHANGED toServer

\* gotnick.
GotNick(m) ==
  /\ botname' = IF m.nick = botname THEN m.new ELSE botname
  /\ Say(IF (m.nick # botname \/ m.new \notin {Orig, Alt}) /\ KeepNick
             /\ (m.nick = Orig \/ (m.nick = Alt /\ botname' # Orig))
         THEN <<Msg("NICK", m.nick)>> ELSE <<>>)

\* got303: the nicks that are in use among those asked for.
Got303(m) ==
  Say(IF ~KeepNick \/ botname = Orig \/ botname \notin m.on THEN <<>>
      ELSE IF Orig \notin m.on THEN <<Msg("NICK", Orig)>>
      ELSE IF Alt \notin m.on /\ botname # Alt THEN <<Msg("NICK", Alt)>>
      ELSE <<>>)

\* Mutant: server_online is not set.
RegisteredOffline(m) ==
  /\ online' = online /\ botname' = m.nick
  /\ onchan' = {}
  /\ Say(<<Msg("JOIN", NoNick)>>)

\* got001: the channels are joined anew.
Registered(m) ==
  /\ online' = TRUE /\ botname' = m.nick
  /\ onchan' = {}
  /\ Say(<<Msg("JOIN", NoNick)>>)

\* got433, got437: only while the bot registers does it try another.  (The nicks are valid ones,
\* so that 432 is not met.)
NickRefused ==
  \/ online /\ UNCHANGED <<botname, toServer>>
  \/ /\ ~online /\ botname' = Fallback(botname)
     /\ Say(<<Msg("NICK", botname')>>)

\* server_activity and the handlers of the lines.
Activity ==
  /\ serv /\ toBot # <<>>
  /\ trying' = FALSE /\ pinged' = FALSE
  /\ toBot' = Tail(toBot)
  /\ LET m == Head(toBot)
     IN  \/ m.cmd = "001" /\ Registered(m)
         \/ m.cmd = "433" /\ NickRefused /\ UNCHANGED <<online, onchan>>
         \/ m.cmd = "NICK" /\ GotNick(m) /\ UNCHANGED <<online, onchan>>
         \/ m.cmd = "303" /\ Got303(m) /\ UNCHANGED <<online, onchan, botname>>
         \/ m.cmd = "JOIN" /\ onchan' = Chans /\ UNCHANGED <<online, botname, toServer>>
         \/ m.cmd \in {"PONG", "020"} /\ UNCHANGED <<online, onchan, botname, toServer>>
  /\ UNCHANGED <<serv, resolvserv, cycle, newserver, curserv, serverlist, target, peer, bounds>>

\* minutely_checks.
Minutely ==
  /\ online /\ KeepNick /\ botname # Orig /\ NoneUnderWay("ISON", "303")
  /\ Say(<<Msg("ISON", botname)>>)
  /\ UNCHANGED <<serv, online, flags, botname, onchan, peer, toBot, bounds>>

-----------------------------------------------------------------------------
(* The server, external *)

Reply(ms) == toBot' = toBot \o ms

ServerReads ==
  /\ link = "up" /\ toServer # <<>>
  /\ toServer' = Tail(toServer)
  /\ LET m == Head(toServer)
     IN  \/ /\ m.cmd = "NICK" /\ m.nick \in taken
            /\ Reply(<<Msg("433", m.nick)>>)
            /\ UNCHANGED ircnick
         \/ /\ m.cmd = "NICK" /\ m.nick \notin taken
            /\ ircnick' = m.nick
            /\ Reply(IF ircnick = NoNick THEN <<Msg("020", NoNick), Msg("001", m.nick)>>
                     ELSE IF ircnick = m.nick THEN <<>>
                     ELSE <<[cmd |-> "NICK", nick |-> ircnick, new |-> m.nick]>>)
         \/ /\ m.cmd = "ISON"
            /\ Reply(<<[cmd |-> "303", on |-> ({m.nick, Orig, Alt} \cap (taken \cup {ircnick}))]>>)
            /\ UNCHANGED ircnick
         \/ m.cmd = "PING" /\ Reply(<<Msg("PONG", NoNick)>>) /\ UNCHANGED ircnick
         \/ m.cmd = "JOIN" /\ Reply(<<Msg("JOIN", NoNick)>>) /\ UNCHANGED ircnick
  /\ UNCHANGED <<serv, online, flags, botname, onchan, link, taken, bounds>>

\* The server falls silent without closing: before its first line or after it has
\* let the bot in, and in between with LateSilence.
FallsSilent ==
  /\ link = "up" /\ losses < MaxLosses
  /\ trying \/ online \/ LateSilence
  /\ losses' = losses + 1
  /\ link' = "silent" /\ toBot' = <<>> /\ toServer' = <<>>
  /\ UNCHANGED <<serv, online, flags, botname, onchan, ircnick, taken, conns, changes>>

\* Other users take a nick, leave or drop one; a service renames the bot.
OthersTake(n) ==
  /\ changes < MaxChanges /\ changes' = changes + 1
  /\ n \notin taken /\ n # ircnick
  /\ taken' = taken \cup {n}
  /\ UNCHANGED <<serv, online, flags, botname, onchan, link, ircnick, toServer, toBot, conns, losses>>
OthersLeave(n) ==
  /\ n \in taken /\ taken' = taken \ {n}
  /\ \/ UNCHANGED toBot
     \/ /\ onchan # {} /\ link = "up" /\ Len(toBot) < MaxSent
        /\ Reply(<<[cmd |-> "NICK", nick |-> n, new |-> NoNick]>>)
  /\ UNCHANGED <<serv, online, flags, botname, onchan, link, ircnick, toServer, bounds>>
Renamed(n) ==
  /\ changes < MaxChanges /\ changes' = changes + 1
  /\ link = "up" /\ ircnick # NoNick /\ n # ircnick /\ n \notin taken
  /\ ircnick' = n
  /\ Reply(<<[cmd |-> "NICK", nick |-> ircnick, new |-> n]>>)
  /\ UNCHANGED <<serv, online, flags, botname, onchan, link, taken, toServer, conns, losses>>

-----------------------------------------------------------------------------
Next ==
  \/ EofServer \/ TimeoutServer \/ FiveMinutely \/ Secondly \/ Minutely \/ Resolved
  \/ Activity \/ ServerReads \/ FallsSilent
  \/ \E h \in Hosts \cup {NoHost} : Jump(h)
  \/ \E n \in BotNicks : OthersTake(n) \/ OthersLeave(n) \/ Renamed(n)

Spec == Init /\ [][Next]_vars

\* The timers run, the socket is read, names are resolved one way or the other, the
\* server answers while it lives, and the last variation of a nick does not stay in use.
Fairness ==
  /\ WF_vars(Secondly) /\ WF_vars(Minutely) /\ WF_vars(FiveMinutely)
  /\ WF_vars(TimeoutServer) /\ WF_vars(Activity)
  /\ WF_vars(Resolved) /\ WF_vars(ServerReads)
  /\ WF_vars(OthersLeave(MaxVariant + 1))

FairSpec == Spec /\ Fairness

-----------------------------------------------------------------------------
(* Properties *)

TypeOK ==
  /\ {serv, resolvserv, trying, online, pinged} \subseteq BOOLEAN
  /\ cycle \in 0..CycleWait
  /\ {newserver, target} \subseteq Hosts \cup {NoHost}
  /\ serverlist \in Seq(Hosts) /\ curserv \in -1..(Len(serverlist) - 1)
  /\ botname \in BotNicks /\ ircnick \in BotNicks \cup {NoNick} /\ taken \subseteq BotNicks
  /\ onchan \subseteq Chans /\ link \in {"none", "up", "silent"}

\* The flags of the code describe one connection: it is not resolving a name while it
\* has a connection, is not registered without one, and no socket is left behind.
OneConnection ==
  /\ ~(serv /\ resolvserv)
  /\ online => serv /\ ~trying
  /\ serv <=> link # "none"

\* When nothing is under way the bot knows its own nick.
NickAgrees ==
  online /\ link = "up" /\ toServer = <<>> /\ toBot = <<>> => botname = ircnick

ConnectionKept == TypeOK /\ OneConnection /\ NickAgrees

\* The abstract session: channels belong to it, a server asked for is not forgotten.
Abstract == INSTANCE Session WITH
  stage   <- IF online THEN "registered" ELSE IF serv \/ resolvserv THEN "trying" ELSE "idle",
  session <- conns,
  host    <- target,
  wanted  <- newserver,
  chans   <- onchan
KeepsSessions == Abstract!Spec

\* However often connections fail, the bot gets back on a server, and back to its own
\* nick unless somebody else holds on to it.
Regains == <>[](Orig \in taken) \/ <>[](online /\ botname = Orig)

\* check-stoned: a server that does not respond any more is left.
LeavesStoned == link = "silent" ~> link # "silent"
=============================================================================
