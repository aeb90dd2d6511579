-------------------------------- MODULE Login --------------------------------
(***************************************************************************)
(* How connections to a listening port become people on the party line, new  *)
(* users and linked bots (dcc.c; tcl_listen).  A connection's entry in the   *)
(* dcc table is of one type after another: its address is looked up, then    *)
(* who it belongs to by ident, then a name is asked for, then a password;     *)
(* somebody new chooses both; a bot that is linked already waits for the      *)
(* old link to go.  Each step looks at records, ports and links that others   *)
(* may have changed since the one before.                                   *)
(*                                                                         *)
(* Left out: TLS and its certificates, the telnet protocol, what is printed, *)
(* the console of who has come in (Flags) and the lookup itself (Dns).       *)
(***************************************************************************)
EXTENDS Naturals, FiniteSets

CONSTANTS
  Conns, Host,      \* connections that may be made, [Conns -> host]
  Ports, Types,     \* listening ports; what they may be for: all, bots, users, script
  Accepts,          \* [Ports -> names its mask lets in]
  Hands,            \* handles
  First,            \* [Hands -> [there, flags, pass, hosts] at first]
  Me,               \* this bot's name
  Passes,           \* passwords
  Admitted,         \* hosts that strict-telnet lets in
  AllowNew, NoUserfile, RequireP, ProtectTelnet, IdentTimeout, FloodThr,   \* settings
  MayFailAtOnce,    \* connecting to the ident port may fail at once
  MaxConnects, MaxChanges

\* What is taken of them: a name is not empty, and nobody is called NEW; a password is not empty; a
\* handle without a record has nothing.
NoRec == [there |-> FALSE, flags |-> {}, pass |-> "", hosts |-> {}]
ConstantsOK ==
  /\ {"", "elsewhere"} \cap Conns = {} /\ {"", "NEW"} \cap Hands = {} /\ "" \notin Passes
  /\ Passes \subseteq STRING /\ Host \in [Conns -> STRING]
  /\ First \in [Hands -> [there : BOOLEAN, flags : SUBSET STRING, pass : STRING \cup {""}, hosts : SUBSET STRING]]
  /\ NoUserfile \in BOOLEAN
  /\ \A h \in Hands : First[h].there \/ First[h] = NoRec

VARIABLES
  conns,     \* the entries (for: what the port was for when the name was asked for; typing: its
             \* timeout was begun anew not long ago)
  ports,     \* [Ports -> what for, or "off"]
  people,    \* the records
  make_userfile,
  ignored, flood,   \* hosts ignored; the host that called last and how often
  linked,    \* [Hands -> the connection of this bot, "elsewhere" or ""]
  maker,     \* [Hands -> who made the record]
  founders,  \* how many were made owners
  deserted,  \* records whose makers did not come to choose a password
  connects, changes
vars == <<conns, ports, people, make_userfile, ignored, flood, linked, maker, founders, deserted, connects, changes>>

Everywhere == {Host[c] : c \in Conns}
Off == [kind |-> "off", port |-> "", only |-> "", nick |-> "", user |-> "", ident |-> FALSE, known |-> FALSE,
        mixed |-> FALSE, for |-> "", lets |-> TRUE, typing |-> FALSE]
FlagsOf(h) == IF h \in Hands THEN people[h].flags ELSE {}
InChain(h) == linked[h] # ""
Becomes(c, kind) == conns' = [conns EXCEPT ![c].kind = kind, ![c].typing = FALSE]
Close(c) == conns' = [conns EXCEPT ![c] = Off]
ofRecords == <<people, make_userfile, maker, founders, deserted>>

Init ==
  /\ conns = [c \in Conns |-> Off]
  /\ ports \in [Ports -> Types]
  /\ people = [h \in Hands |-> First[h]]
  /\ make_userfile = NoUserfile
  /\ ignored = {} /\ flood = [host |-> "", n |-> 0]
  /\ linked = [h \in Hands |-> ""]
  /\ maker = [h \in Hands |-> ""] /\ founders = 0 /\ deserted = {}
  /\ connects = 0 /\ changes = 0

-----------------------------------------------------------------------------
(* Address and ident.                                                       *)

\* dcc_telnet: accepted, if the host is one of those let in, and its name is asked for.
DccTelnet(c, p) ==
  /\ conns[c] = Off /\ ports[p] # "off" /\ connects < MaxConnects
  /\ connects' = connects + 1
  /\ conns' = [conns EXCEPT ![c] = IF Host[c] \in Admitted THEN [Off EXCEPT !.kind = "dnswait", !.port = p] ELSE Off]
  /\ UNCHANGED <<ports, ofRecords, ignored, flood, linked, changes>>

\* detect_telnet_flood: the host that called last has called too often in the time.
Calls(c, expired) == IF flood.host # Host[c] \/ expired THEN 0 ELSE flood.n + 1
Floods(c, expired) == FloodThr > 0 /\ Calls(c, expired) >= FloodThr
DetectTelnetFlood(c, expired) ==
  /\ flood' = CASE FloodThr = 0 -> flood
                [] FloodThr > 0 /\ Floods(c, expired) -> [host |-> "", n |-> 0]
                [] OTHER -> [host |-> Host[c], n |-> Calls(c, expired)]
  /\ ignored' = IF Floods(c, expired) THEN ignored \cup {Host[c]} ELSE ignored

\* Who the bot takes a host for (Users tells which, of several).
Recognised(host) ==
  LET his == {h \in Hands : people[h].there /\ host \in people[h].hosts} IN IF his = {} THEN {""} ELSE his
Welcome(c, u) ==
  \/ ~ProtectTelnet \/ make_userfile
  \/ (IF RequireP THEN "p" ELSE "o") \in FlagsOf(u)
  \/ "b" \in FlagsOf(u)
\* dcc_telnet_got_ident: the port may have been closed while the answer was awaited.
GotIdent(c, u) ==
  LET type == ports[conns[c].port]
      only == IF type \in {"bots", "users"} THEN type ELSE ""
      asked == [Off EXCEPT !.kind = "id", !.port = conns[c].port, !.only = only, !.for = only,
                         !.lets = (type # "spoilt")]
  IN conns' = [conns EXCEPT ![c] = IF type = "off" \/ ~Welcome(c, u) \/ Host[c] \in ignored THEN Off
                                   ELSE IF type = "script" THEN [Off EXCEPT !.kind = "socket", !.port = conns[c].port]
                                   ELSE asked]
\* dcc_telnet_hostresolved: an entry is made that asks the other end's ident server.
HostResolved(c, expired) ==
  LET type == ports[conns[c].port]
  IN /\ conns[c].kind = "dnswait"
     /\ IF type = "off" \/ Host[c] \in ignored THEN UNCHANGED <<ignored, flood>> ELSE DetectTelnetFlood(c, expired)
     /\ IF type = "off" \/ Host[c] \in ignored \/ Floods(c, expired) THEN Close(c)
        ELSE IF IdentTimeout = 0 THEN \E u \in Recognised(Host[c]) : GotIdent(c, u)
        ELSE conns' = [conns EXCEPT ![c].kind = "identwait", ![c].ident = TRUE]
     /\ UNCHANGED <<ports, ofRecords, linked, connects, changes>>
\* Where connecting to it fails at once, the entry is removed, and the first entry of the table,
\* that of a port, gets its data: the port goes on listening, for nobody's name, and listen no
\* longer finds it.  Nobody answers the one who waits.
ConnectFails(c, p) ==
  /\ MayFailAtOnce /\ conns[c].kind = "dnswait" /\ IdentTimeout > 0
  /\ "off" \notin {ports[conns[c].port], ports[p]} /\ Host[c] \notin ignored /\ ~Floods(c, TRUE)
  /\ DetectTelnetFlood(c, TRUE)
  /\ Becomes(c, "identwait") /\ ports' = [ports EXCEPT ![p] = "spoilt"]
  /\ UNCHANGED <<ofRecords, linked, connects, changes>>
\* dcc_ident and eof_dcc_ident (which a timeout calls too).
IdentAnswers(c, u) ==
  /\ conns[c].kind = "identwait" /\ conns[c].ident /\ u \in Recognised(Host[c])
  /\ GotIdent(c, u)
  /\ UNCHANGED <<ports, ofRecords, ignored, flood, linked, connects, changes>>

-----------------------------------------------------------------------------
(* Name and password.                                                       *)

\* Who may come in.
MayEnter(h) ==
  \/ FlagsOf(h) \cap {"p", "b"} # {}
  \/ ~RequireP /\ "o" \in FlagsOf(h)
\* dcc_telnet_pass, for an entry as it is then: its record may have gone while it waited; then
\* its data is made that of somebody in the file area, though its type is not.
TelnetPass(e) ==
  IF e.user # "" /\ "b" \notin FlagsOf(e.user) /\ people[e.user].pass = "" THEN Off
  ELSE [e EXCEPT !.kind = "pass", !.mixed = @ \/ ~MayEnter(e.user)]
\* dcc_telnet_id.
\* Mutant: NEW is looked at before what the port is for.
TelnetIdNewFirst(c, name) ==
  LET e == [conns[c] EXCEPT !.user = IF name \in Hands /\ people[name].there THEN name ELSE "", !.only = ""]
      bot == "b" \in FlagsOf(e.user)
  IN CASE name = "NEW" /\ (AllowNew \/ make_userfile) -> [e EXCEPT !.kind = "new"]
       [] name = "NEW" /\ ~(AllowNew \/ make_userfile) -> Off
       [] name # "NEW" /\ (conns[c].only = (IF bot THEN "users" ELSE "bots") \/ ~MayEnter(e.user) \/ (bot /\ name = Me)) -> Off
       [] OTHER -> IF bot /\ InChain(name) THEN [e EXCEPT !.kind = "dupwait", !.nick = name]
                   ELSE TelnetPass([e EXCEPT !.nick = name])
TelnetId(c, name) ==
  LET e == [conns[c] EXCEPT !.user = IF name \in Hands /\ people[name].there THEN name ELSE "", !.only = ""]
      bot == "b" \in FlagsOf(e.user)
  IN CASE name \notin Accepts[e.port] \/ ~e.lets \/ conns[c].only = (IF bot THEN "users" ELSE "bots") -> Off
       [] name \in Accepts[e.port] /\ e.lets /\ name = "NEW" /\ conns[c].only # "bots" /\ (AllowNew \/ make_userfile) ->
            [e EXCEPT !.kind = "new"]
       [] OTHER -> IF ~MayEnter(e.user) \/ (bot /\ name = Me) THEN Off
                   ELSE IF bot /\ InChain(name) THEN [e EXCEPT !.kind = "dupwait", !.nick = name]
                   ELSE TelnetPass([e EXCEPT !.nick = name])
SaysName(c, name) ==
  /\ conns[c].kind = "id"
  /\ conns' = [conns EXCEPT ![c] = TelnetId(c, name)]
  /\ UNCHANGED <<ports, ofRecords, ignored, flood, linked, connects, changes>>

\* dcc_chat_pass.  A bot without a password is given one, and greeted as one that gave the right
\* answer.  (What an entry with another's data does is undefined; such as here it is closed, or
\* read as one returning to the party line.)
ChatPass(c, pass) ==
  LET e == conns[c]  bot == "b" \in FlagsOf(e.user)
      right == e.user # "" /\ people[e.user].pass = pass
      new == bot /\ people[e.user].pass = ""
  IN /\ e.kind = "pass"
     /\ IF e.mixed
        THEN \E kind \in {"off", "chat"} : conns' = [conns EXCEPT ![c] = [Off EXCEPT !.kind = kind, !.mixed = kind # "off"]]
        ELSE conns' = [conns EXCEPT ![c] = CASE ~right /\ ~new -> Off
                                             [] bot /\ (right \/ new) -> [e EXCEPT !.kind = "greeted", !.known = TRUE]
                                             [] OTHER -> [e EXCEPT !.kind = "chat", !.known = TRUE]]
     /\ people' = IF new /\ ~e.mixed THEN [people EXCEPT ![e.user].pass = pass] ELSE people
     /\ UNCHANGED <<ports, make_userfile, maker, founders, deserted, ignored, flood, linked, connects, changes>>
\* bot_version: linked, unless the bot has been linked meanwhile.
\* Mutant: that is not looked at again.
BotVersionTwice(c) == TRUE
BotVersion(c) == ~InChain(conns[c].nick)
Links(c) ==
  /\ conns[c].kind = "greeted"
  /\ IF BotVersion(c) THEN Becomes(c, "bot") /\ linked' = [linked EXCEPT ![conns[c].nick] = c]
     ELSE Close(c) /\ UNCHANGED linked
  /\ UNCHANGED <<ports, ofRecords, ignored, flood, connects, changes>>

\* dcc_telnet_new: the record is made before a password is chosen.  The first user ever is made
\* the owner, with a mask for everywhere.
\* Mutant: that there is an owner is noted when he has a password.
TelnetNewLate(c, name) ==
  /\ people' = [people EXCEPT ![name] = [there |-> TRUE, pass |-> "", hosts |-> IF make_userfile THEN Everywhere ELSE {Host[c]},
                                         flags |-> IF make_userfile THEN {"n", "o", "p"} ELSE {"p"}]]
  /\ make_userfile' = make_userfile
  /\ founders' = founders + (IF make_userfile THEN 1 ELSE 0)
TelnetNew(c, name) ==
  /\ people' = [people EXCEPT ![name] = [there |-> TRUE, pass |-> "", hosts |-> IF make_userfile THEN Everywhere ELSE {Host[c]},
                                         flags |-> IF make_userfile THEN {"n", "o", "p"} ELSE {"p"}]]
  /\ make_userfile' = FALSE
  /\ founders' = founders + (IF make_userfile THEN 1 ELSE 0)
ChoosesName(c, name) ==
  /\ conns[c].kind = "new" /\ name # Me /\ ~people[name].there
  /\ TelnetNew(c, name)
  /\ maker' = [maker EXCEPT ![name] = c] /\ deserted' = deserted \ {name}
  /\ conns' = [conns EXCEPT ![c].kind = "pw", ![c].nick = name, ![c].user = name, ![c].typing = FALSE]
  /\ UNCHANGED <<ports, ignored, flood, linked, connects, changes>>
\* A name that is taken, this bot's or no name at all is refused, and another asked for (which
\* one it was makes no difference); a bot may say *hello! again, and is greeted again.  Either
\* way its time to answer begins anew.
AskedAgain(c) ==
  /\ conns[c].kind \in {"new", "greeted"} /\ ~conns[c].typing
  /\ conns' = [conns EXCEPT ![c].typing = TRUE]
  /\ UNCHANGED <<ports, ofRecords, ignored, flood, linked, connects, changes>>
\* It says nothing for as long.
TimePasses(c) ==
  /\ conns[c].typing
  /\ conns' = [conns EXCEPT ![c].typing = FALSE]
  /\ UNCHANGED <<ports, ofRecords, ignored, flood, linked, connects, changes>>
\* dcc_telnet_pw: he is on the party line, even if his record has gone.
TelnetPw(c, pass) ==
  LET u == conns[c].user
  IN /\ conns[c].kind = "pw" /\ pass # ""
     /\ people' = IF u = "" THEN people ELSE [people EXCEPT ![u].pass = pass]
     /\ conns' = [conns EXCEPT ![c].kind = "chat", ![c].known = (u # "")]
     /\ UNCHANGED <<ports, make_userfile, maker, founders, deserted, ignored, flood, linked, connects, changes>>

-----------------------------------------------------------------------------
(* Ends.                                                                    *)

Waiting == {"dnswait", "identwait", "id", "new", "pw", "pass", "dupwait", "greeted"}
\* deluser, by name.
Deluser(all, h) == [c \in Conns |-> IF all[c].user = h THEN [all[c] EXCEPT !.user = ""] ELSE all[c]]
\* dupwait_notify: the first who waits for this bot to go goes on (any of them: the order of the
\* table changes as entries are removed).
Notified(all, h) ==
  LET waits == {c \in Conns : all[c].kind = "dupwait" /\ all[c].nick = h}
  IN IF waits = {} THEN {all} ELSE {[all EXCEPT ![c] = TelnetPass(all[c])] : c \in waits}

\* eof: one who had not chosen a password is not a user after all; a bot is unlinked.
Eof(c) ==
  LET e == conns[c]
      left == [conns EXCEPT ![c] = Off]
      gone == e.kind = "pw" /\ people[e.nick].there
  IN /\ e.kind # "off"
     /\ people' = IF gone THEN [people EXCEPT ![e.nick] = NoRec] ELSE people
     /\ linked' = IF e.kind = "bot" THEN [linked EXCEPT ![e.nick] = ""] ELSE linked
     /\ conns' \in CASE e.kind = "bot" -> Notified(left, e.nick)
                     [] gone -> {Deluser(left, e.nick)}
                     [] OTHER -> {left}
     /\ deserted' = IF gone THEN deserted \ {e.nick} ELSE deserted
     /\ UNCHANGED <<ports, make_userfile, maker, founders, ignored, flood, connects, changes>>
\* check_expired_dcc: a name or a password is waited for so long; so is an ident server's answer,
\* and a bot's old link.
\* Mutant: a bot whose old link is still there goes on waiting.
DupwaitGoesOn(e) == IF InChain(e.nick) THEN e ELSE TelnetPass(e)
TimeoutDupwait(e) == IF InChain(e.nick) THEN Off ELSE TelnetPass(e)
Timeout(c) ==
  LET e == conns[c]
  IN /\ e.kind \in {"id", "new", "pw", "pass", "dupwait", "greeted"} /\ ~e.typing
     /\ conns' = [conns EXCEPT ![c] = IF e.kind = "dupwait" THEN TimeoutDupwait(e) ELSE Off]
     /\ deserted' = IF e.kind = "pw" THEN deserted \cup {e.nick} ELSE deserted
     /\ UNCHANGED <<ports, people, make_userfile, maker, founders, ignored, flood, linked, connects, changes>>

-----------------------------------------------------------------------------
(* What others do meanwhile.                                                *)

Change == changes < MaxChanges /\ changes' = changes + 1
\* tcl_listen: for something, for something else, or no longer.
Listen(p, type) ==
  /\ Change /\ ports[p] # "spoilt" /\ ports' = [ports EXCEPT ![p] = type]
  /\ UNCHANGED <<conns, ofRecords, ignored, flood, linked, connects>>
\* A master's +user, -user and chpass.
AddUser(h) ==
  /\ Change /\ ~people[h].there
  /\ people' = [people EXCEPT ![h] = [NoRec EXCEPT !.there = TRUE]] /\ maker' = [maker EXCEPT ![h] = ""]
  /\ UNCHANGED <<conns, ports, make_userfile, founders, deserted, ignored, flood, linked, connects>>
DelUser(h) ==
  /\ Change /\ people[h].there
  /\ people' = [people EXCEPT ![h] = NoRec] /\ conns' = Deluser(conns, h)
  /\ deserted' = deserted \ {h}
  /\ UNCHANGED <<ports, make_userfile, maker, founders, ignored, flood, linked, connects>>
ChPass(h, pass) ==
  /\ Change /\ people[h].there /\ people' = [people EXCEPT ![h].pass = pass]
  /\ UNCHANGED <<conns, ports, make_userfile, maker, founders, deserted, ignored, flood, linked, connects>>
\* A bot links to another of the botnet, or is unlinked from it.
LinksElsewhere(h) ==
  /\ Change /\ "b" \in FlagsOf(h) /\ ~InChain(h)
  /\ linked' = [linked EXCEPT ![h] = "elsewhere"]
  /\ UNCHANGED <<conns, ports, ofRecords, ignored, flood, connects>>
Rembot(h) ==
  /\ linked[h] = "elsewhere"
  /\ linked' = [linked EXCEPT ![h] = ""] /\ conns' \in Notified(conns, h)
  /\ UNCHANGED <<ports, ofRecords, ignored, flood, connects, changes>>
Unignored(host) ==
  /\ host \in ignored /\ ignored' = ignored \ {host}
  /\ UNCHANGED <<conns, ports, ofRecords, flood, linked, connects, changes>>

Next ==
  \/ \E c \in Conns :
       \/ \E p \in Ports : DccTelnet(c, p) \/ ConnectFails(c, p)
       \/ \E expired \in BOOLEAN : HostResolved(c, expired)
       \/ \E u \in Hands \cup {""} : IdentAnswers(c, u)
       \/ \E name \in Hands \cup {"NEW"} : SaysName(c, name)
       \/ \E pass \in Passes : ChatPass(c, pass) \/ TelnetPw(c, pass)
       \/ \E name \in Hands : ChoosesName(c, name)
       \/ Links(c) \/ Eof(c) \/ Timeout(c) \/ AskedAgain(c) \/ TimePasses(c)
  \/ \E p \in Ports, type \in Types \cup {"off"} : Listen(p, type)
  \/ \E h \in Hands : AddUser(h) \/ DelUser(h) \/ LinksElsewhere(h) \/ Rembot(h)
  \/ \E h \in Hands, pass \in Passes : ChPass(h, pass)
  \/ \E host \in ignored : Unignored(host)

\* Lookups end (Dns), an ident server answers or is given up, and who says nothing is sent away; a
\* bot that was greeted says who it is, or nothing: what anybody types instead is not fair.
ComesOn(c) ==
  \/ \E expired \in BOOLEAN : HostResolved(c, expired)
  \/ \E u \in Hands \cup {""} : IdentAnswers(c, u)
  \/ TimePasses(c) \/ Timeout(c) \/ Links(c)
Fairness == \A c \in Conns : WF_vars(ComesOn(c))
Spec == Init /\ [][Next]_vars /\ Fairness

-----------------------------------------------------------------------------
(* Properties.                                                              *)

TypeOK ==
  /\ \A c \in Conns : conns[c].kind \in Waiting \cup {"off", "chat", "bot", "socket"} /\ conns[c].user \in Hands \cup {""}
  /\ \A h \in Hands : people[h].there \/ people[h] = NoRec
  /\ \A h \in Hands : linked[h] \in Conns \cup {"", "elsewhere"}

\* Whoever is on the party line, or linked, gave the password of a record, or chose it for the
\* one he made; what a port is for is kept to on every way through it.  (Not so if his record was
\* deleted while he chose, or while a bot waited.)
Known ==
  \A c \in Conns :
    /\ conns[c].kind \in {"chat", "bot", "greeted"} =>
         conns[c].known \/ conns[c].user = ""
    /\ conns[c].kind \in {"chat", "new", "pw"} /\ ~conns[c].mixed => conns[c].for # "bots"
    /\ conns[c].kind \in {"bot", "greeted"} => conns[c].for # "users"
    /\ conns[c].user # "" => conns[c].user = conns[c].nick \/ conns[c].kind = "id"
\* A bot is linked once, wherever it is linked, however many of its connections wait.
LinkedOnce ==
  \A h \in Hands :
    LET here == {c \in Conns : conns[c].kind = "bot" /\ conns[c].nick = h}
    IN IF linked[h] \in {"", "elsewhere"} THEN here = {} ELSE here = {linked[h]}
\* Nobody is made an owner but the first.
OneFounder == founders <= 1
\* A record somebody made for himself has a password, or he is choosing it, or was sent away
\* before he had (and his record was not); or his record was made again.
NoneHalfMade ==
  \A h \in Hands :
    people[h].there /\ people[h].pass = "" /\ maker[h] # "" /\ h \notin deserted =>
      conns[maker[h]].kind = "pw" /\ conns[maker[h]].nick = h
\* Each who waits for an ident server's answer has an entry that will have it, where connecting
\* to it did not fail at once.
IdentAwaited ==
  \A c \in Conns : (conns[c].kind = "identwait" /\ ~MayFailAtOnce => conns[c].ident)
                   /\ (conns[c].ident => conns[c].kind = "identwait")

\* All of it, at once.
LoginsKept == TypeOK /\ Known /\ LinkedOnce /\ OneFounder /\ NoneHalfMade /\ IdentAwaited

\* Nobody waits for ever on the way in, but behind a lookup that failed at once, or if he goes on
\* for ever to type names that are refused (or a bot its greeting).
Decided ==
  \A c \in Conns :
    LET held == conns[c].kind = "identwait" /\ ~conns[c].ident
    IN  conns[c].kind \in Waiting /\ ~held ~> conns[c].kind \notin Waiting \/ held \/ conns[c].typing
=============================================================================
