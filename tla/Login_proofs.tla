---------------------------- MODULE Login_proofs ----------------------------
(***************************************************************************)
(* Proofs about logins: whoever is in is known and came by a port for such *)
(* as he is, a bot is linked once, one user is made the owner, and nobody  *)
(* leaves a record half made unless he is sent away.                       *)
(*                                                                         *)
(* What an entry stands for was looked at when it was asked for a name; by *)
(* the time it answers, the record may have gone.  The invariant says what *)
(* of it still holds at each stage.                                        *)
(***************************************************************************)
EXTENDS Login, TLAPS

Asked == {"", "bots", "users"}
Kinds == Waiting \cup {"off", "chat", "bot", "socket"}
Entries ==
  [kind : Kinds, port : Ports \cup {""}, only : Asked, nick : Hands \cup {""}, user : Hands \cup {""},
   ident : BOOLEAN, known : BOOLEAN, mixed : BOOLEAN, for : Asked, lets : BOOLEAN, typing : BOOLEAN]
Words == STRING \cup {""}
Flags == STRING \cup {"n", "o", "p"}
Records == [there : BOOLEAN, flags : SUBSET Flags, pass : Words, hosts : SUBSET STRING]

\* What is known of an entry, given the records.
Sound(e, recs) ==
  /\ e.kind \in {"pass", "chat", "bot", "greeted", "dupwait", "pw"} \/ e.user = ""
  /\ e.user # "" => e.user = e.nick /\ recs[e.user].there
  /\ e.kind \in {"pw", "pass", "dupwait", "greeted", "bot"} => e.nick \in Hands
  /\ e.kind = "id" => e.only = e.for
  /\ e.mixed => e.kind \in {"pass", "chat"}
  /\ e.ident => e.kind = "identwait"
  /\ e.kind = "identwait" /\ ~MayFailAtOnce => e.ident
  /\ e.kind \in {"chat", "bot", "greeted"} => e.known \/ e.user = ""
  /\ e.kind \in {"chat", "new", "pw"} /\ ~e.mixed => e.for # "bots"
  /\ e.kind \in {"bot", "greeted"} => e.for # "users"
  /\ e.kind \in {"pass", "dupwait"} /\ e.user # "" =>
       e.for # (IF "b" \in recs[e.user].flags THEN "users" ELSE "bots")

Typed ==
  /\ conns \in [Conns -> Entries]
  /\ people \in [Hands -> Records]
  /\ \A h \in Hands : people[h].there \/ people[h] = NoRec
  /\ linked \in [Hands -> Conns \cup {"", "elsewhere"}]
  /\ maker \in [Hands -> Conns \cup {""}]
AllSound == \A c \in Conns : Sound(conns[c], people)
Links1 ==
  /\ \A c \in Conns : conns[c].kind = "bot" => linked[conns[c].nick] = c
  /\ \A h \in Hands : linked[h] \in Conns => conns[linked[h]].kind = "bot" /\ conns[linked[h]].nick = h
Founding ==
  /\ make_userfile \in BOOLEAN
  /\ founders = 0 \/ (founders = 1 /\ ~make_userfile)
\* Whoever chooses a password for the record he made is its user.
Choosing ==
  \A h \in Hands :
    LET c == maker[h]
    IN people[h].there /\ c # "" /\ conns[c].kind = "pw" /\ conns[c].nick = h => conns[c].user = h

\* The inductive invariant.
IInv == Typed /\ AllSound /\ Links1 /\ Founding /\ Choosing /\ NoneHalfMade

-----------------------------------------------------------------------------
LEMMA OffSound == ASSUME NEW recs PROVE Off \in Entries /\ Sound(Off, recs)
  BY DEF Off, Entries, Sound, Kinds, Waiting, Asked

LEMMA NoRecTyped == NoRec \in Records
  BY DEF NoRec, Records, Words, Flags

\* One entry is changed, of somebody who is neither a linked bot nor chooses a password, and does
\* not become so.
LEMMA OneEntry ==
  ASSUME ConstantsOK, IInv, NEW c \in Conns, NEW e \in Entries, Sound(e, people),
         {conns[c].kind, e.kind} \cap {"bot", "pw"} = {},
         conns' = [conns EXCEPT ![c] = e],
         UNCHANGED <<ofRecords, linked>>
  PROVE  IInv'
  <1>1. Typed'
    BY DEF IInv, Typed, ofRecords
  <1>2. AllSound'
    BY DEF IInv, Typed, AllSound, ofRecords
  <1>3. \A x \in Conns : x # c => conns'[x] = conns[x]
    BY DEF IInv, Typed
  <1>a. conns'[c] = e
    BY DEF IInv, Typed
  <1>e. linked' = linked /\ \A h \in Hands : linked[h] \in Conns => conns[linked[h]].kind = "bot"
    BY DEF IInv, Links1
  <1>f. conns[c].kind # "bot" /\ e.kind # "bot"
    OBVIOUS
  <1>g. \A x \in Conns : conns'[x].kind = "bot" => linked'[conns'[x].nick] = x
    BY <1>3, <1>a, <1>e, <1>f DEF IInv, Links1
  <1>h. \A h \in Hands : linked'[h] \in Conns => conns'[linked'[h]].kind = "bot" /\ conns'[linked'[h]].nick = h
    <2>1. SUFFICES ASSUME NEW h \in Hands, linked[h] \in Conns
                   PROVE  conns'[linked[h]].kind = "bot" /\ conns'[linked[h]].nick = h
      BY <1>e
    <2>2. linked[h] # c
      BY <2>1, <1>e, <1>f
    <2>3. conns'[linked[h]] = conns[linked[h]]
      BY <1>3, <2>1, <2>2
    <2> QED  BY <2>1, <2>3 DEF IInv, Links1
  <1>b. Links1'
    BY <1>g, <1>h DEF Links1
  <1>c. Choosing'
    BY <1>3, <1>a DEF IInv, Typed, Choosing, ofRecords, ConstantsOK
  <1>d. NoneHalfMade'
    BY <1>3, <1>a DEF IInv, Typed, NoneHalfMade, ofRecords, ConstantsOK
  <1>4. Founding'
    BY DEF IInv, Founding, ofRecords
  <1> QED  BY <1>1, <1>2, <1>4, <1>b, <1>c, <1>d DEF IInv

\* What concerns neither entries nor records nor links.
LEMMA NoEntry ==
  ASSUME IInv, UNCHANGED <<conns, ofRecords, linked>>
  PROVE  IInv'
  BY DEF IInv, Typed, AllSound, Links1, Founding, Choosing, NoneHalfMade, ofRecords

LEMMA InitIInv == ASSUME ConstantsOK, Init PROVE IInv
  <1>1. \A c \in Conns : conns[c] = Off /\ Off.kind = "off"
    BY DEF Init, Off
  <1>2. Typed
    BY OffSound DEF Init, Typed, ConstantsOK, Records, Words, Flags
  <1>3. AllSound
    BY <1>1, OffSound DEF AllSound
  <1>4. Links1
    BY <1>1 DEF Links1, Init, ConstantsOK
  <1>5. Founding /\ Choosing /\ NoneHalfMade
    BY DEF Init, Founding, Choosing, NoneHalfMade, ConstantsOK
  <1> QED  BY <1>2, <1>3, <1>4, <1>5 DEF IInv

\* An entry that is sent away, and one that goes on to the next question.
LEMMA Closing ==
  ASSUME ConstantsOK, IInv, NEW c \in Conns, conns[c].kind \notin {"bot", "pw"}, Close(c),
         UNCHANGED <<ofRecords, linked>>
  PROVE  IInv'
  <1>1. Off.kind = "off"
    BY DEF Off
  <1> QED  BY <1>1, OneEntry, OffSound DEF Close

LEMMA PassSound ==
  ASSUME NEW e \in Entries, IInv,
         e.kind \in {"id", "dupwait"}, ~e.mixed, ~e.ident, e.user # "" => e.user = e.nick /\ people[e.user].there,
         e.nick \in Hands,
         e.user # "" => e.for # (IF "b" \in people[e.user].flags THEN "users" ELSE "bots")
  PROVE  TelnetPass(e) \in Entries /\ Sound(TelnetPass(e), people) /\ TelnetPass(e).kind \in {"off", "pass"}
  <1>1. [e EXCEPT !.kind = "pass"] \in Entries /\ Sound([e EXCEPT !.kind = "pass"], people)
    BY DEF Entries, Sound, Kinds, Waiting
  <1>2. ASSUME ~MayEnter(e.user)
        PROVE  LET f == [e EXCEPT !.kind = "pass", !.mixed = TRUE] IN f \in Entries /\ Sound(f, people)
    BY DEF Entries, Sound, Kinds, Waiting
  <1>3. Off \in Entries /\ Sound(Off, people) /\ Off.kind = "off"
    BY OffSound DEF Off
  <1>4. TelnetPass(e) = Off \/ TelnetPass(e) = [e EXCEPT !.kind = "pass"]
        \/ (~MayEnter(e.user) /\ TelnetPass(e) = [e EXCEPT !.kind = "pass", !.mixed = TRUE])
    <2>1. CASE MayEnter(e.user)
      BY <2>1 DEF TelnetPass, Entries
    <2>2. CASE ~MayEnter(e.user)
      BY <2>2 DEF TelnetPass, Entries
    <2> QED  BY <2>1, <2>2
  <1>5. [e EXCEPT !.kind = "pass"].kind = "pass" /\ [e EXCEPT !.kind = "pass", !.mixed = TRUE].kind = "pass"
    BY DEF Entries
  <1> QED  BY <1>1, <1>2, <1>3, <1>4, <1>5

LEMMA GotIdentKeeps ==
  ASSUME ConstantsOK, IInv, NEW c \in Conns, NEW u, conns[c].kind \in {"dnswait", "identwait"},
         GotIdent(c, u), UNCHANGED <<ofRecords, linked>>
  PROVE  IInv'
  <1> DEFINE type == ports[conns[c].port]
             only == IF type \in {"bots", "users"} THEN type ELSE ""
             asked == [Off EXCEPT !.kind = "id", !.port = conns[c].port, !.only = only, !.for = only,
                                  !.lets = (type # "spoilt")]
             script == [Off EXCEPT !.kind = "socket", !.port = conns[c].port]
  <1>1. conns[c].port \in Ports \cup {""}
    BY DEF IInv, Typed, Entries
  <1>2. asked \in Entries /\ Sound(asked, people) /\ asked.kind = "id"
    <2>1. only \in Asked
      BY DEF Asked
    <2> QED  BY <2>1, <1>1 DEF Off, Entries, Sound, Kinds, Waiting, Asked
  <1>3. script \in Entries /\ Sound(script, people) /\ script.kind = "socket"
    BY <1>1 DEF Off, Entries, Sound, Kinds, Waiting, Asked
  <1>4. PICK e \in {Off, script, asked} : conns' = [conns EXCEPT ![c] = e]
    <2>1. CASE type = "off" \/ ~Welcome(c, u) \/ Host[c] \in ignored
      BY <2>1 DEF GotIdent
    <2>2. CASE ~(type = "off" \/ ~Welcome(c, u) \/ Host[c] \in ignored) /\ type = "script"
      BY <2>2 DEF GotIdent
    <2>3. CASE ~(type = "off" \/ ~Welcome(c, u) \/ Host[c] \in ignored) /\ type # "script"
      BY <2>3 DEF GotIdent
    <2> QED  BY <2>1, <2>2, <2>3
  <1>5. Off.kind = "off"
    BY DEF Off
  <1> HIDE DEF asked, script
  <1> QED  BY <1>2, <1>3, <1>4, <1>5, OffSound, OneEntry

-----------------------------------------------------------------------------
LEMMA DccTelnetKeeps == ASSUME ConstantsOK, IInv, NEW c \in Conns, NEW p \in Ports, DccTelnet(c, p) PROVE IInv'
  <1> DEFINE e == [Off EXCEPT !.kind = "dnswait", !.port = p]
  <1>1. e \in Entries /\ Sound(e, people) /\ e.kind = "dnswait" /\ Off.kind = "off"
    BY DEF Off, Entries, Sound, Kinds, Waiting, Asked
  <1>2. conns' = [conns EXCEPT ![c] = e] \/ conns' = [conns EXCEPT ![c] = Off]
    BY DEF DccTelnet
  <1>3. conns[c].kind = "off" /\ UNCHANGED <<ofRecords, linked>>
    BY <1>1 DEF DccTelnet
  <1> HIDE DEF e
  <1> QED  BY <1>1, <1>2, <1>3, OffSound, OneEntry

LEMMA HostResolvedKeeps ==
  ASSUME ConstantsOK, IInv, NEW c \in Conns, NEW expired \in BOOLEAN, HostResolved(c, expired) PROVE IInv'
  <1> DEFINE e == [conns[c] EXCEPT !.kind = "identwait", !.ident = TRUE]
  <1>0. conns[c] \in Entries /\ Sound(conns[c], people) /\ conns[c].kind = "dnswait" /\ UNCHANGED <<ofRecords, linked>>
    BY DEF HostResolved, IInv, Typed, AllSound
  <1>1. e \in Entries /\ Sound(e, people) /\ e.kind = "identwait"
    BY <1>0 DEF Entries, Sound, Kinds, Waiting
  <1>2. CASE Close(c)
    BY <1>0, <1>2, Closing
  <1>3. CASE \E u \in Recognised(Host[c]) : GotIdent(c, u)
    BY <1>0, <1>3, GotIdentKeeps
  <1>4. CASE conns' = [conns EXCEPT ![c].kind = "identwait", ![c].ident = TRUE]
    <2>1. conns' = [conns EXCEPT ![c] = e]
      BY <1>4 DEF IInv, Typed
    <2> HIDE DEF e
    <2> QED  BY <1>0, <1>1, <2>1, OneEntry
  <1> QED  BY <1>2, <1>3, <1>4 DEF HostResolved

LEMMA ConnectFailsKeeps ==
  ASSUME ConstantsOK, IInv, NEW c \in Conns, NEW p \in Ports, ConnectFails(c, p) PROVE IInv'
  <1> DEFINE e == [conns[c] EXCEPT !.kind = "identwait", !.typing = FALSE]
  <1>0. conns[c] \in Entries /\ Sound(conns[c], people) /\ conns[c].kind = "dnswait" /\ UNCHANGED <<ofRecords, linked>>
        /\ MayFailAtOnce
    BY DEF ConnectFails, IInv, Typed, AllSound
  <1>1. e \in Entries /\ Sound(e, people) /\ e.kind = "identwait"
    BY <1>0 DEF Entries, Sound, Kinds, Waiting
  <1>2. conns' = [conns EXCEPT ![c] = e]
    BY DEF ConnectFails, Becomes, IInv, Typed
  <1> HIDE DEF e
  <1> QED  BY <1>0, <1>1, <1>2, OneEntry

LEMMA IdentAnswersKeeps ==
  ASSUME ConstantsOK, IInv, NEW c \in Conns, NEW u, IdentAnswers(c, u) PROVE IInv'
  BY GotIdentKeeps DEF IdentAnswers

\* What is asked for a name is let in as somebody new, or as one whom the port is for.
LEMMA SaysNameKeeps ==
  ASSUME ConstantsOK, IInv, NEW c \in Conns, NEW name \in Hands \cup {"NEW"}, SaysName(c, name) PROVE IInv'
  <1> DEFINE user == IF name \in Hands /\ people[name].there THEN name ELSE ""
             e == [conns[c] EXCEPT !.user = user, !.only = ""]
             bot == "b" \in FlagsOf(e.user)
  <1>0. /\ conns[c] \in Entries /\ Sound(conns[c], people) /\ conns[c].kind = "id"
        /\ UNCHANGED <<ofRecords, linked>>
        /\ conns' = [conns EXCEPT ![c] = TelnetId(c, name)]
    BY DEF SaysName, IInv, Typed, AllSound
  <1>1. user \in Hands \cup {""} /\ e \in Entries /\ e.user = user /\ e.kind = "id" /\ e.for = conns[c].only
        /\ ~e.mixed /\ ~e.ident
    BY <1>0 DEF Entries, Sound, Asked
  <1>2. TelnetId(c, name) \in Entries /\ Sound(TelnetId(c, name), people) /\ TelnetId(c, name).kind \notin {"bot", "pw"}
    <2>1. CASE TelnetId(c, name) = Off
      <3>1. Off.kind = "off"
        BY DEF Off
      <3> QED  BY <2>1, <3>1, OffSound
    <2>2. CASE TelnetId(c, name) = [e EXCEPT !.kind = "new"] /\ name = "NEW" /\ conns[c].only # "bots"
      <3>1. user = ""
        BY <2>2 DEF ConstantsOK
      <3> DEFINE h == [e EXCEPT !.kind = "new"]
      <3>2. h \in Entries /\ h.kind = "new" /\ h.user = "" /\ ~h.mixed /\ ~h.ident /\ h.for # "bots"
        BY <1>1, <2>2, <3>1 DEF Entries, Kinds, Waiting
      <3>3. TelnetId(c, name) = h
        BY <2>2
      <3> HIDE DEF h, e, user
      <3>4. Sound(h, people)
        BY <3>2 DEF Sound
      <3> QED  BY <3>2, <3>3, <3>4
    <2>3. CASE /\ MayEnter(e.user) /\ conns[c].only # (IF bot THEN "users" ELSE "bots")
               /\ TelnetId(c, name) = IF bot /\ InChain(name) THEN [e EXCEPT !.kind = "dupwait", !.nick = name]
                                      ELSE TelnetPass([e EXCEPT !.nick = name])
      <3>1. user # "" /\ user = name /\ name \in Hands /\ people[name].there
        BY <1>1, <2>3 DEF MayEnter, FlagsOf, ConstantsOK
      <3>2. bot <=> "b" \in people[name].flags
        BY <1>1, <3>1 DEF FlagsOf
      <3> DEFINE f == [e EXCEPT !.nick = name]
                 g == [e EXCEPT !.kind = "dupwait", !.nick = name]
      <3>3. /\ f \in Entries /\ f.kind = "id" /\ ~f.mixed /\ ~f.ident /\ f.user = name /\ f.nick = name
            /\ f.for = conns[c].only
        BY <1>1, <3>1 DEF Entries
      <3>a. /\ g \in Entries /\ g.kind = "dupwait" /\ ~g.mixed /\ ~g.ident /\ g.user = name /\ g.nick = name
            /\ g.for = conns[c].only
        BY <1>1, <3>1 DEF Entries, Kinds, Waiting
      <3>b. conns[c].only # (IF "b" \in people[name].flags THEN "users" ELSE "bots")
        BY <2>3, <3>2
      <3>6. TelnetId(c, name) = g \/ TelnetId(c, name) = TelnetPass(f)
        BY <2>3
      <3> HIDE DEF f, g, e, user, bot
      <3>4. Sound(g, people)
        BY <3>1, <3>a, <3>b DEF Sound
      <3>5. TelnetPass(f) \in Entries /\ Sound(TelnetPass(f), people) /\ TelnetPass(f).kind \in {"off", "pass"}
        BY <3>1, <3>3, <3>b, PassSound
      <3> QED  BY <3>a, <3>4, <3>5, <3>6
    <2>4. \/ TelnetId(c, name) = Off
          \/ TelnetId(c, name) = [e EXCEPT !.kind = "new"] /\ name = "NEW" /\ conns[c].only # "bots"
          \/ /\ MayEnter(e.user) /\ conns[c].only # (IF bot THEN "users" ELSE "bots")
             /\ TelnetId(c, name) = IF bot /\ InChain(name) THEN [e EXCEPT !.kind = "dupwait", !.nick = name]
                                    ELSE TelnetPass([e EXCEPT !.nick = name])
      <3> DEFINE no == name \notin Accepts[e.port] \/ ~e.lets \/ conns[c].only = (IF bot THEN "users" ELSE "bots")
                 new == name \in Accepts[e.port] /\ e.lets /\ name = "NEW" /\ conns[c].only # "bots"
                        /\ (AllowNew \/ make_userfile)
      <3>1. CASE no /\ ~new
        BY <3>1 DEF TelnetId
      <3>2. CASE new
        <4>1. user = "" /\ ~bot
          BY <3>2, <1>1 DEF ConstantsOK, FlagsOf
        <4>2. ~no
          BY <3>2, <4>1
        <4> QED  BY <3>2, <4>2 DEF TelnetId
      <3>3. CASE ~no /\ ~new
        BY <3>3 DEF TelnetId
      <3> QED  BY <3>1, <3>2, <3>3
    <2> QED  BY <2>1, <2>2, <2>3, <2>4
  <1> HIDE DEF e, user
  <1> QED  BY <1>0, <1>2, OneEntry

-----------------------------------------------------------------------------
(* What changes records, links, or more than one entry.                    *)

\* What is known of an entry rests on who there is and his flags.
LEMMA SoundSame ==
  ASSUME NEW e \in Entries, NEW recs, NEW later, Sound(e, recs),
         e.user # "" => later[e.user].there = recs[e.user].there /\ later[e.user].flags = recs[e.user].flags
  PROVE  Sound(e, later)
  BY DEF Sound

\* A password is set.
LEMMA PassSet ==
  ASSUME ConstantsOK, IInv, NEW h \in Hands, people[h].there, NEW pass \in Passes,
         people' = [people EXCEPT ![h].pass = pass]
  PROVE  /\ people' \in [Hands -> Records]
         /\ \A x \in Hands : people'[x].there \/ people'[x] = NoRec
         /\ \A x \in Hands : people'[x].there = people[x].there /\ people'[x].flags = people[x].flags
         /\ \A x \in Hands : people'[x].pass = "" => x # h /\ people[x].pass = ""
         /\ \A c \in Conns : Sound(conns[c], people')
  <1>1. people \in [Hands -> Records] /\ \A x \in Hands : people[x].there \/ people[x] = NoRec
    BY DEF IInv, Typed
  <1>2. pass \in Words /\ pass # ""
    BY DEF ConstantsOK, Words
  <1>3. people' \in [Hands -> Records] /\ \A x \in Hands : x # h => people'[x] = people[x]
    BY <1>1, <1>2 DEF Records
  <1>4. people'[h].there = people[h].there /\ people'[h].flags = people[h].flags /\ people'[h].pass = pass
    BY <1>1 DEF Records
  <1>5. \A x \in Hands : people'[x].there = people[x].there /\ people'[x].flags = people[x].flags
    BY <1>3, <1>4
  <1>6. \A c \in Conns : Sound(conns[c], people')
    <2>1. TAKE c \in Conns
    <2>2. conns[c] \in Entries /\ Sound(conns[c], people) /\ conns[c].user \in Hands \cup {""}
      BY DEF IInv, Typed, AllSound, Entries
    <2> QED  BY <2>2, <1>5, SoundSame
  <1> QED  BY <1>1, <1>2, <1>3, <1>4, <1>5, <1>6

LEMMA ChPassKeeps == ASSUME ConstantsOK, IInv, NEW h \in Hands, NEW pass \in Passes, ChPass(h, pass) PROVE IInv'
  <1>1. people[h].there /\ people' = [people EXCEPT ![h].pass = pass]
        /\ UNCHANGED <<conns, make_userfile, maker, founders, deserted, linked>>
    BY DEF ChPass
  <1>2. /\ people' \in [Hands -> Records]
        /\ \A x \in Hands : people'[x].there \/ people'[x] = NoRec
        /\ \A x \in Hands : people'[x].there = people[x].there /\ people'[x].flags = people[x].flags
        /\ \A x \in Hands : people'[x].pass = "" => x # h /\ people[x].pass = ""
        /\ \A c \in Conns : Sound(conns[c], people')
    BY <1>1, PassSet
  <1>3. Typed' /\ AllSound'
    BY <1>1, <1>2 DEF IInv, Typed, AllSound
  <1>4. Links1' /\ Founding'
    BY <1>1 DEF IInv, Links1, Founding
  <1>5. Choosing' /\ NoneHalfMade'
    BY <1>1, <1>2 DEF IInv, Choosing, NoneHalfMade
  <1> QED  BY <1>3, <1>4, <1>5 DEF IInv

\* One entry is changed that is of no linked bot, with what is known of its record.
LEMMA EntryAndPass ==
  ASSUME ConstantsOK, IInv, NEW c \in Conns, NEW e \in Entries, Sound(e, people'),
         people' \in [Hands -> Records],
         \A x \in Hands : people'[x].there \/ people'[x] = NoRec,
         \A x \in Hands : people'[x].there = people[x].there,
         \A x \in Hands : people'[x].pass = "" => people[x].pass = "",
         \A x \in Conns : Sound(conns[x], people'),
         conns[c].kind # "bot", e.kind # "bot", e.kind # "pw",
         conns[c].kind = "pw" => \A x \in Hands : x = conns[c].user => people'[x].pass # "",
         conns' = [conns EXCEPT ![c] = e],
         UNCHANGED <<make_userfile, maker, founders, deserted, linked>>
  PROVE  IInv'
  <1>1. Typed'
    BY DEF IInv, Typed
  <1>2. \A x \in Conns : x # c => conns'[x] = conns[x]
    BY DEF IInv, Typed
  <1>3. conns'[c] = e
    BY DEF IInv, Typed
  <1>4. AllSound'
    BY <1>2, <1>3 DEF AllSound
  <1>5. Links1'
    BY <1>2, <1>3 DEF IInv, Typed, Links1, ConstantsOK
  <1>6. Choosing'
    BY <1>2, <1>3 DEF IInv, Typed, Choosing, ConstantsOK
  <1>7. NoneHalfMade'
    <2>1. SUFFICES ASSUME NEW h \in Hands, people'[h].there, people'[h].pass = "", maker[h] # "", h \notin deserted
                   PROVE  conns'[maker[h]].kind = "pw" /\ conns'[maker[h]].nick = h
      BY DEF NoneHalfMade
    <2>2. people[h].there /\ people[h].pass = "" /\ maker[h] \in Conns
      BY <2>1 DEF IInv, Typed
    <2>3. conns[maker[h]].kind = "pw" /\ conns[maker[h]].nick = h
      BY <2>1, <2>2 DEF IInv, NoneHalfMade
    <2>4. conns[maker[h]].user = h
      BY <2>1, <2>2, <2>3 DEF IInv, Choosing
    <2>5. maker[h] # c
      BY <2>1, <2>3, <2>4
    <2> QED  BY <1>2, <2>2, <2>3, <2>5
  <1>8. Founding'
    BY DEF IInv, Founding
  <1> QED  BY <1>1, <1>4, <1>5, <1>6, <1>7, <1>8 DEF IInv

\* A password is taken for that of the record the entry stands for.
LEMMA ChatPassKeeps == ASSUME ConstantsOK, IInv, NEW c \in Conns, NEW pass \in Passes, ChatPass(c, pass) PROVE IInv'
  <1> DEFINE e == conns[c]
             bot == "b" \in FlagsOf(e.user)
             right == e.user # "" /\ people[e.user].pass = pass
             new == bot /\ people[e.user].pass = ""
             greeted == [e EXCEPT !.kind = "greeted", !.known = TRUE]
             chat == [e EXCEPT !.kind = "chat", !.known = TRUE]
  <1>0. /\ e \in Entries /\ Sound(e, people) /\ e.kind = "pass" /\ e.user \in Hands \cup {""}
        /\ UNCHANGED <<make_userfile, maker, founders, deserted, linked>>
    BY DEF ChatPass, IInv, Typed, AllSound, Entries
  <1>1. CASE e.mixed
    <2>1. PICK kind \in {"off", "chat"} : conns' = [conns EXCEPT ![c] = [Off EXCEPT !.kind = kind, !.mixed = kind # "off"]]
      BY <1>1 DEF ChatPass
    <2>2. UNCHANGED people
      BY <1>1 DEF ChatPass
    <2> DEFINE f == [Off EXCEPT !.kind = kind, !.mixed = kind # "off"]
    <2>3. f \in Entries /\ Sound(f, people) /\ f.kind = kind
      BY DEF Off, Entries, Sound, Kinds, Waiting, Asked
    <2>4. conns' = [conns EXCEPT ![c] = f]
      BY <2>1
    <2>5. UNCHANGED <<ofRecords, linked>>
      BY <1>0, <2>2 DEF ofRecords
    <2> HIDE DEF e, f, bot, right, new, greeted, chat
    <2>6. {conns[c].kind, f.kind} \cap {"bot", "pw"} = {}
      BY <1>0, <2>3 DEF e
    <2> QED  BY <2>3, <2>4, <2>5, <2>6, OneEntry
  <1>2. CASE ~e.mixed
    <2>1. /\ greeted \in Entries /\ greeted.kind = "greeted" /\ ~greeted.mixed /\ ~greeted.ident /\ greeted.known
          /\ greeted.user = e.user /\ greeted.nick = e.nick /\ greeted.for = e.for
      BY <1>0, <1>2 DEF Entries, Kinds, Waiting, Sound
    <2>2. /\ chat \in Entries /\ chat.kind = "chat" /\ ~chat.mixed /\ ~chat.ident /\ chat.known
          /\ chat.user = e.user /\ chat.nick = e.nick /\ chat.for = e.for
      BY <1>0, <1>2 DEF Entries, Kinds, Waiting, Sound
    <2>3. bot => e.user # "" /\ e.user \in Hands /\ "b" \in people[e.user].flags
      BY <1>0 DEF FlagsOf, ConstantsOK
    <2>4. ~bot /\ right => e.user # "" /\ e.user \in Hands /\ "b" \notin people[e.user].flags
      BY <1>0 DEF FlagsOf, ConstantsOK
    <2>5. \/ conns' = [conns EXCEPT ![c] = Off] /\ ~new
          \/ conns' = [conns EXCEPT ![c] = greeted] /\ bot
          \/ conns' = [conns EXCEPT ![c] = chat] /\ ~bot /\ right
      BY <1>2 DEF ChatPass
    <2>6. people' = IF new THEN [people EXCEPT ![e.user].pass = pass] ELSE people
      BY <1>2 DEF ChatPass
    <2>7. bot => Sound(greeted, people)
      <3> HIDE DEF greeted, bot
      <3> QED  BY <1>0, <2>1, <2>3 DEF Sound
    <2>8. ~bot /\ right => Sound(chat, people)
      <3> HIDE DEF chat, bot, right
      <3> QED  BY <1>0, <2>2, <2>4 DEF Sound
    <2>9. CASE ~new
      <3>1. UNCHANGED ofRecords /\ UNCHANGED linked
        BY <1>0, <2>6, <2>9 DEF ofRecords
      <3>2. Off.kind = "off"
        BY DEF Off
      <3> HIDE DEF greeted, chat, bot, right, new
      <3> QED  BY <1>0, <2>1, <2>2, <2>5, <2>7, <2>8, <3>1, <3>2, OffSound, OneEntry
    <2>10. CASE new
      <3>1. bot /\ conns' = [conns EXCEPT ![c] = greeted] /\ people' = [people EXCEPT ![e.user].pass = pass]
        BY <2>5, <2>6, <2>10
      <3>2. e.user \in Hands /\ people[e.user].there
        BY <1>0, <2>3, <3>1 DEF Sound
      <3>3. /\ people' \in [Hands -> Records]
            /\ \A x \in Hands : people'[x].there \/ people'[x] = NoRec
            /\ \A x \in Hands : people'[x].there = people[x].there /\ people'[x].flags = people[x].flags
            /\ \A x \in Hands : people'[x].pass = "" => x # e.user /\ people[x].pass = ""
            /\ \A x \in Conns : Sound(conns[x], people')
        BY <3>1, <3>2, PassSet
      <3> HIDE DEF greeted, bot
      <3>4. Sound(greeted, people')
        BY <2>1, <2>7, <3>1, <3>2, <3>3, SoundSame
      <3> QED  BY <1>0, <2>1, <3>1, <3>3, <3>4, EntryAndPass
    <2> QED  BY <2>9, <2>10
  <1> QED  BY <1>1, <1>2

LEMMA TelnetPwKeeps == ASSUME ConstantsOK, IInv, NEW c \in Conns, NEW pass \in Passes, TelnetPw(c, pass) PROVE IInv'
  <1> DEFINE e == conns[c]
             f == [e EXCEPT !.kind = "chat", !.known = (e.user # "")]
  <1>0. /\ e \in Entries /\ Sound(e, people) /\ e.kind = "pw" /\ e.user \in Hands \cup {""}
        /\ UNCHANGED <<make_userfile, maker, founders, deserted, linked>>
    BY DEF TelnetPw, IInv, Typed, AllSound, Entries
  <1>1. /\ f \in Entries /\ f.kind = "chat" /\ ~f.mixed /\ ~f.ident /\ f.known = (f.user # "")
        /\ f.user = e.user /\ f.nick = e.nick /\ f.for = e.for
    BY <1>0 DEF Entries, Kinds, Waiting, Sound
  <1>2. conns' = [conns EXCEPT ![c] = f]
    BY DEF TelnetPw, IInv, Typed
  <1>3. people' = IF e.user = "" THEN people ELSE [people EXCEPT ![e.user].pass = pass]
    BY DEF TelnetPw
  <1> HIDE DEF f
  <1>4. Sound(f, people)
    BY <1>0, <1>1 DEF Sound
  <1>5. /\ people' \in [Hands -> Records]
        /\ \A x \in Hands : people'[x].there \/ people'[x] = NoRec
        /\ \A x \in Hands : people'[x].there = people[x].there /\ people'[x].flags = people[x].flags
        /\ \A x \in Hands : people'[x].pass = "" => x # e.user /\ people[x].pass = ""
        /\ \A x \in Conns : Sound(conns[x], people')
    <2>1. CASE e.user = ""
      BY <1>3, <2>1 DEF IInv, Typed, AllSound, ConstantsOK
    <2>2. CASE e.user # ""
      <3>1. e.user \in Hands /\ people[e.user].there
        BY <1>0, <2>2 DEF Sound
      <3> QED  BY <1>3, <2>2, <3>1, PassSet
    <2> QED  BY <2>1, <2>2
  <1>6. Sound(f, people')
    BY <1>0, <1>1, <1>4, <1>5, SoundSame
  <1> QED  BY <1>0, <1>1, <1>2, <1>5, <1>6, EntryAndPass

\* An entry goes, and with it whoever chose a password: he is sent away, or has no record.
LEMMA GoesAway ==
  ASSUME ConstantsOK, IInv, NEW c \in Conns, conns[c].kind # "bot", Close(c),
         UNCHANGED <<people, make_userfile, maker, founders, linked>>,
         deserted \subseteq deserted',
         conns[c].kind = "pw" => conns[c].nick \in deserted' \/ ~people[conns[c].nick].there
  PROVE  IInv'
  <1>1. Off \in Entries /\ Sound(Off, people) /\ Off.kind = "off"
    BY OffSound DEF Off
  <1>2. conns'[c] = Off /\ \A x \in Conns : x # c => conns'[x] = conns[x]
    BY DEF Close, IInv, Typed
  <1>3. Typed'
    BY <1>1 DEF Close, IInv, Typed
  <1>4. AllSound'
    BY <1>1, <1>2 DEF IInv, AllSound
  <1>a. \A x \in Conns : x # "" /\ x # "elsewhere"
    BY DEF ConstantsOK
  <1>b. \A x \in Conns : conns'[x].kind # "off" => x # c /\ conns'[x] = conns[x]
    BY <1>1, <1>2
  <1>5. Links1'
    <2>1. \A x \in Conns : conns'[x].kind = "bot" => linked'[conns'[x].nick] = x
      BY <1>b DEF IInv, Links1
    <2>2. \A x \in Hands : linked'[x] \in Conns => conns'[linked'[x]].kind = "bot" /\ conns'[linked'[x]].nick = x
      BY <1>2 DEF IInv, Links1
    <2> QED  BY <2>1, <2>2 DEF Links1
  <1>6. Founding'
    BY DEF IInv, Founding
  <1>7. Choosing'
    <2>1. SUFFICES ASSUME NEW h \in Hands, people[h].there, maker[h] # "", conns'[maker[h]].kind = "pw",
                          conns'[maker[h]].nick = h
                   PROVE  conns'[maker[h]].user = h
      BY DEF Choosing
    <2>2. maker[h] \in Conns
      BY <2>1 DEF IInv, Typed
    <2>3. conns'[maker[h]] = conns[maker[h]]
      BY <1>b, <2>1, <2>2
    <2> QED  BY <2>1, <2>3 DEF IInv, Choosing
  <1>8. NoneHalfMade'
    <2>1. SUFFICES ASSUME NEW h \in Hands, people[h].there, people[h].pass = "", maker[h] # "", h \notin deserted'
                   PROVE  conns'[maker[h]].kind = "pw" /\ conns'[maker[h]].nick = h
      BY DEF NoneHalfMade
    <2>2. maker[h] \in Conns /\ conns[maker[h]].kind = "pw" /\ conns[maker[h]].nick = h
      BY <2>1 DEF IInv, Typed, NoneHalfMade
    <2>3. maker[h] # c
      BY <2>1, <2>2
    <2> QED  BY <1>2, <2>2, <2>3
  <1> QED  BY <1>3, <1>4, <1>5, <1>6, <1>7, <1>8 DEF IInv

\* A record is deleted, with all that stood for it, and perhaps one who chose its password.
LEMMA Deleted ==
  ASSUME ConstantsOK, IInv, NEW h \in Hands, NEW all \in [Conns -> Entries],
         \A x \in Conns : all[x] = conns[x] \/ (all[x] = Off /\ conns[x].kind # "bot"),
         \A x \in Conns : conns[x].kind = "pw" => all[x] = conns[x] \/ conns[x].nick = h,
         people' = [people EXCEPT ![h] = NoRec], conns' = Deluser(all, h), deserted' = deserted \ {h},
         UNCHANGED <<make_userfile, maker, founders, linked>>
  PROVE  IInv'
  <1>1. /\ people \in [Hands -> Records] /\ people'[h] = NoRec
        /\ \A x \in Hands : x # h => people'[x] = people[x]
    BY DEF IInv, Typed
  <1>2. Off.kind = "off" /\ ~NoRec.there
    BY DEF Off, NoRec
  <1>3. \A x \in Conns : all[x] \in Entries /\ Sound(all[x], people)
    BY OffSound DEF IInv, AllSound
  <1>4. \A x \in Conns : /\ conns'[x].kind = all[x].kind /\ conns'[x].nick = all[x].nick
                         /\ all[x].user # h => conns'[x].user = all[x].user
    BY <1>3 DEF Deluser, Entries
  <1>5. \A x \in Conns : conns'[x] \in Entries /\ Sound(conns'[x], people')
    <2>1. TAKE x \in Conns
    <2>2. CASE all[x].user = h
      <3> DEFINE e == [all[x] EXCEPT !.user = ""]
      <3>1. conns'[x] = e
        BY <2>2 DEF Deluser
      <3>2. /\ e \in Entries /\ e.user = "" /\ e.kind = all[x].kind /\ e.nick = all[x].nick /\ e.only = all[x].only
            /\ e.for = all[x].for /\ e.mixed = all[x].mixed /\ e.ident = all[x].ident /\ e.known = all[x].known
        BY <1>3 DEF Entries
      <3> HIDE DEF e
      <3>3. Sound(e, people')
        <4>1. Sound(all[x], people)
          BY <1>3
        <4> QED  BY <4>1, <3>2 DEF Sound
      <3> QED  BY <3>1, <3>2, <3>3
    <2>3. CASE all[x].user # h
      <3>1. conns'[x] = all[x]
        BY <2>3 DEF Deluser
      <3>2. all[x].user # "" => people'[all[x].user] = people[all[x].user]
        BY <1>1, <1>3, <2>3 DEF Entries
      <3> QED  BY <1>3, <3>1, <3>2, SoundSame
    <2> QED  BY <2>2, <2>3
  <1>6. Typed'
    <2>1. conns' \in [Conns -> Entries]
      BY <1>5 DEF Deluser
    <2> QED  BY <2>1, NoRecTyped DEF IInv, Typed
  <1>7. AllSound' /\ Founding'
    BY <1>5 DEF IInv, AllSound, Founding
  <1>8. Links1'
    <2>1. \A x \in Conns : conns'[x].kind = "bot" => conns[x].kind = "bot" /\ conns'[x].nick = conns[x].nick
      BY <1>2, <1>4
    <2>2. \A x \in Conns : conns[x].kind = "bot" => conns'[x].kind = "bot" /\ conns'[x].nick = conns[x].nick
      BY <1>2, <1>4
    <2> QED  BY <2>1, <2>2 DEF IInv, Links1
  <1>9. Choosing'
    <2>1. SUFFICES ASSUME NEW x \in Hands, people'[x].there, maker[x] # "", conns'[maker[x]].kind = "pw",
                          conns'[maker[x]].nick = x
                   PROVE  conns'[maker[x]].user = x
      BY DEF Choosing
    <2>2. x # h /\ maker[x] \in Conns /\ people[x].there
      BY <1>1, <1>2, <2>1 DEF IInv, Typed
    <2>3. conns[maker[x]] = all[maker[x]]
      BY <1>2, <1>4, <2>1, <2>2
    <2>4. conns[maker[x]].kind = "pw" /\ conns[maker[x]].nick = x
      BY <1>4, <2>1, <2>2, <2>3
    <2>5. conns[maker[x]].user = x
      BY <2>1, <2>2, <2>4 DEF IInv, Choosing
    <2> QED  BY <1>4, <2>2, <2>3, <2>5
  <1>10. NoneHalfMade'
    <2>1. SUFFICES ASSUME NEW x \in Hands, people'[x].there, people'[x].pass = "", maker[x] # "", x \notin deserted'
                   PROVE  conns'[maker[x]].kind = "pw" /\ conns'[maker[x]].nick = x
      BY DEF NoneHalfMade
    <2>2. x # h /\ maker[x] \in Conns /\ people[x].there /\ people[x].pass = "" /\ x \notin deserted
      BY <1>1, <1>2, <2>1 DEF IInv, Typed
    <2>3. conns[maker[x]].kind = "pw" /\ conns[maker[x]].nick = x
      BY <2>1, <2>2 DEF IInv, NoneHalfMade
    <2>4. conns[maker[x]] = all[maker[x]]
      BY <2>2, <2>3
    <2>5. conns'[maker[x]].kind = all[maker[x]].kind /\ conns'[maker[x]].nick = all[maker[x]].nick
      BY <1>4, <2>2
    <2> QED  BY <2>3, <2>4, <2>5
  <1> QED  BY <1>6, <1>7, <1>8, <1>9, <1>10 DEF IInv

\* A link ends, and one that waited for it goes on.
LEMMA LinkEnds ==
  ASSUME ConstantsOK, IInv, NEW h \in Hands, NEW all \in [Conns -> Entries],
         \A x \in Conns : all[x] = IF x = linked[h] THEN Off ELSE conns[x],
         linked' = [linked EXCEPT ![h] = ""], conns' \in Notified(all, h),
         UNCHANGED ofRecords
  PROVE  IInv'
  <1>1. Off.kind = "off" /\ Off \in Entries /\ Sound(Off, people)
    BY OffSound DEF Off
  <1>2. \A x \in Conns : Sound(all[x], people)
    BY <1>1 DEF IInv, AllSound
  <1>3. \A x \in Conns :
          \/ conns'[x] = all[x]
          \/ conns'[x] = TelnetPass(all[x]) /\ all[x].kind = "dupwait"
    BY DEF Notified
  <1>4. conns' \in [Conns -> Entries] /\ AllSound' /\
        \A x \in Conns : conns'[x] = all[x] \/ (all[x].kind = "dupwait" /\ conns'[x].kind \in {"off", "pass"})
    <2>1. \A x \in Conns : all[x].kind = "dupwait" =>
             /\ TelnetPass(all[x]) \in Entries /\ Sound(TelnetPass(all[x]), people)
             /\ TelnetPass(all[x]).kind \in {"off", "pass"}
      <3>1. TAKE x \in Conns
      <3>2. HAVE all[x].kind = "dupwait"
      <3>3. all[x] \in Entries /\ ~all[x].mixed /\ ~all[x].ident /\ all[x].nick \in Hands
        BY <1>2, <3>2 DEF Sound, Entries
      <3>4. /\ all[x].user # "" => all[x].user = all[x].nick /\ people[all[x].user].there
            /\ all[x].user # "" => all[x].for # (IF "b" \in people[all[x].user].flags THEN "users" ELSE "bots")
        BY <1>2, <3>2 DEF Sound
      <3> QED  BY <3>2, <3>3, <3>4, PassSound
    <2>2. conns' \in [Conns -> Entries]
      BY <2>1 DEF Notified
    <2> QED  BY <1>2, <1>3, <2>1, <2>2 DEF AllSound, ofRecords
  <1>5. \A x \in Conns : conns[x].kind = "bot" => linked[conns[x].nick] = x
    BY DEF IInv, Links1
  <1>6. \A x \in Hands : linked[x] \in Conns => conns[linked[x]].kind = "bot" /\ conns[linked[x]].nick = x
    BY DEF IInv, Links1
  <1>7. linked \in [Hands -> Conns \cup {"", "elsewhere"}] /\ linked'[h] = "" /\ \A x \in Hands : x # h => linked'[x] = linked[x]
    BY DEF IInv, Typed
  <1>8. Typed'
    BY <1>4 DEF IInv, Typed, ofRecords
  <1>9. \A x \in Conns : conns'[x].kind = "bot" => x # linked[h] /\ conns'[x] = conns[x]
    BY <1>1, <1>4
  <1>10. \A x \in Conns : x # linked[h] /\ conns[x].kind \in {"bot", "pw"} => conns'[x] = conns[x]
    BY <1>4
  <1>11. \A x \in Conns : conns'[x].kind = "pw" \/ conns[x].kind = "pw" => conns'[x] = conns[x]
    <2>1. TAKE x \in Conns
    <2>2. conns[x].kind = "pw" => x # linked[h]
      BY <1>6
    <2>3. conns'[x].kind = "pw" => x # linked[h]
      BY <1>1, <1>4
    <2>4. x # linked[h] => all[x] = conns[x]
      OBVIOUS
    <2> QED  BY <1>4, <2>2, <2>3, <2>4
  <1>12. Links1'
    <2>1. \A x \in Conns : conns'[x].kind = "bot" => linked'[conns'[x].nick] = x
      <3>1. TAKE x \in Conns
      <3>2. HAVE conns'[x].kind = "bot"
      <3>3. conns'[x] = conns[x] /\ x # linked[h] /\ conns[x].kind = "bot"
        BY <1>9, <3>2
      <3>4. conns[x].nick \in Hands /\ linked[conns[x].nick] = x
        BY <1>5, <3>3 DEF IInv, AllSound, Sound
      <3> QED  BY <1>7, <3>3, <3>4
    <2>2. \A x \in Hands : linked'[x] \in Conns => conns'[linked'[x]].kind = "bot" /\ conns'[linked'[x]].nick = x
      <3>1. TAKE x \in Hands
      <3>2. HAVE linked'[x] \in Conns
      <3>3. x # h /\ linked'[x] = linked[x]
        BY <1>7, <3>2 DEF ConstantsOK
      <3>a. linked[x] \in Conns
        BY <3>2, <3>3
      <3>4. conns[linked[x]].kind = "bot" /\ conns[linked[x]].nick = x
        BY <1>6, <3>a
      <3>5. linked[x] # linked[h]
        BY <1>6, <3>a, <3>3, <3>4
      <3>6. conns'[linked[x]] = conns[linked[x]]
        BY <1>10, <3>a, <3>4, <3>5
      <3> QED  BY <3>3, <3>4, <3>6
    <2> QED  BY <2>1, <2>2 DEF Links1
  <1>13. Founding'
    BY DEF IInv, Founding, ofRecords
  <1>14. Choosing'
    <2>1. SUFFICES ASSUME NEW x \in Hands, people[x].there, maker[x] # "", conns'[maker[x]].kind = "pw",
                          conns'[maker[x]].nick = x
                   PROVE  conns'[maker[x]].user = x
      BY DEF Choosing, ofRecords
    <2>2. maker[x] \in Conns
      BY <2>1 DEF IInv, Typed
    <2>3. conns'[maker[x]] = conns[maker[x]]
      BY <1>11, <2>1, <2>2
    <2> QED  BY <2>1, <2>3 DEF IInv, Choosing
  <1>15. NoneHalfMade'
    BY <1>11 DEF IInv, Typed, NoneHalfMade, ofRecords
  <1> QED  BY <1>4, <1>8, <1>12, <1>13, <1>14, <1>15 DEF IInv

-----------------------------------------------------------------------------
(* The actions.                                                            *)

LEMMA LinksKeeps == ASSUME ConstantsOK, IInv, NEW c \in Conns, Links(c) PROVE IInv'
  <1> DEFINE e == conns[c]
             f == [e EXCEPT !.kind = "bot", !.typing = FALSE]
  <1>0. e \in Entries /\ Sound(e, people) /\ e.kind = "greeted" /\ UNCHANGED ofRecords
    BY DEF Links, IInv, Typed, AllSound
  <1>1. CASE Close(c) /\ UNCHANGED linked
    BY <1>0, <1>1, Closing
  <1>2. CASE BotVersion(c) /\ Becomes(c, "bot") /\ linked' = [linked EXCEPT ![conns[c].nick] = c]
    <2>1. /\ f \in Entries /\ f.kind = "bot" /\ f.nick = e.nick /\ f.user = e.user /\ f.for = e.for
          /\ f.mixed = e.mixed /\ f.ident = e.ident /\ f.known = e.known /\ f.only = e.only
      BY <1>0 DEF Entries, Kinds
    <2>2. conns' = [conns EXCEPT ![c] = f]
      BY <1>2 DEF Becomes, IInv, Typed
    <2>3. e.nick \in Hands /\ linked[e.nick] = ""
      BY <1>0, <1>2 DEF Sound, BotVersion, InChain
    <2>4. linked'[e.nick] = c /\ \A x \in Hands : x # e.nick => linked'[x] = linked[x]
      BY <1>2, <2>3 DEF IInv, Typed
    <2> HIDE DEF f
    <2>5. conns'[c] = f /\ \A x \in Conns : x # c => conns'[x] = conns[x]
      BY <2>2 DEF IInv, Typed
    <2>6. Sound(f, people)
      BY <1>0, <2>1 DEF Sound
    <2>7. Typed'
      BY <1>0, <1>2, <2>1, <2>2 DEF IInv, Typed, ofRecords
    <2>8. AllSound' /\ Founding'
      BY <1>0, <2>5, <2>6 DEF IInv, AllSound, Founding, ofRecords
    <2>9. Links1'
      <3>1. ASSUME NEW x \in Conns, conns'[x].kind = "bot" PROVE linked'[conns'[x].nick] = x
        <4>1. CASE x = c
          BY <4>1, <2>1, <2>4, <2>5
        <4>2. CASE x # c
          <5>1. conns'[x] = conns[x] /\ conns[x].kind = "bot"
            BY <2>5, <3>1, <4>2
          <5>2. conns[x].nick \in Hands /\ linked[conns[x].nick] = x
            BY <5>1 DEF IInv, Links1, AllSound, Sound
          <5>3. x # ""
            BY DEF ConstantsOK
          <5> QED  BY <2>3, <2>4, <5>1, <5>2, <5>3
        <4> QED  BY <4>1, <4>2
      <3>2. ASSUME NEW x \in Hands, linked'[x] \in Conns
            PROVE  conns'[linked'[x]].kind = "bot" /\ conns'[linked'[x]].nick = x
        <4>1. CASE x = e.nick
          BY <4>1, <2>1, <2>4, <2>5
        <4>2. CASE x # e.nick
          <5>1. linked'[x] = linked[x] /\ linked[x] \in Conns
            BY <2>4, <3>2, <4>2
          <5>2. conns[linked[x]].kind = "bot" /\ conns[linked[x]].nick = x
            BY <5>1 DEF IInv, Links1
          <5>3. linked[x] # c
            BY <1>0, <5>2
          <5> QED  BY <2>5, <5>1, <5>2, <5>3
        <4> QED  BY <4>1, <4>2
      <3> QED  BY <3>1, <3>2 DEF Links1
    <2>10. \A x \in Conns : conns'[x].kind = "pw" \/ conns[x].kind = "pw" => conns'[x] = conns[x]
      BY <1>0, <2>1, <2>5
    <2>11. Choosing'
      <3>1. SUFFICES ASSUME NEW x \in Hands, people[x].there, maker[x] # "", conns'[maker[x]].kind = "pw",
                            conns'[maker[x]].nick = x
                     PROVE  conns'[maker[x]].user = x
        BY <1>0 DEF Choosing, ofRecords
      <3>2. maker[x] \in Conns
        BY <3>1 DEF IInv, Typed
      <3>3. conns'[maker[x]] = conns[maker[x]]
        BY <2>10, <3>1, <3>2
      <3> QED  BY <3>1, <3>3 DEF IInv, Choosing
    <2>12. NoneHalfMade'
      BY <1>0, <2>10 DEF IInv, Typed, NoneHalfMade, ofRecords
    <2> QED  BY <2>7, <2>8, <2>9, <2>11, <2>12 DEF IInv
  <1> QED  BY <1>1, <1>2 DEF Links

\* A record is made by whoever is new, of which no entry knows yet.
LEMMA ChoosesNameKeeps ==
  ASSUME ConstantsOK, IInv, NEW c \in Conns, NEW name \in Hands, ChoosesName(c, name) PROVE IInv'
  <1> DEFINE e == conns[c]
             f == [e EXCEPT !.kind = "pw", !.nick = name, !.user = name, !.typing = FALSE]
             rec == [there |-> TRUE, pass |-> "", hosts |-> IF make_userfile THEN Everywhere ELSE {Host[c]},
                     flags |-> IF make_userfile THEN {"n", "o", "p"} ELSE {"p"}]
  <1>0. /\ e \in Entries /\ Sound(e, people) /\ e.kind = "new" /\ ~people[name].there
        /\ people' = [people EXCEPT ![name] = rec] /\ maker' = [maker EXCEPT ![name] = c]
        /\ deserted' = deserted \ {name} /\ UNCHANGED linked
    BY DEF ChoosesName, TelnetNew, IInv, Typed, AllSound
  <1>1. conns' = [conns EXCEPT ![c] = f]
    BY DEF ChoosesName, IInv, Typed
  <1>2. rec \in Records /\ rec.there
    <2>1. {"n", "o", "p"} \in SUBSET Flags /\ {"p"} \in SUBSET Flags /\ "" \in Words
      BY DEF Words, Flags
    <2>a. \A x \in Conns : Host[x] \in STRING
      BY DEF ConstantsOK
    <2>2. Everywhere \in SUBSET STRING /\ {Host[c]} \in SUBSET STRING
      BY <2>a DEF Everywhere
    <2>3. make_userfile \in BOOLEAN
      BY DEF IInv, Founding
    <2> QED  BY <2>1, <2>2, <2>3 DEF Records
  <1>3. /\ f \in Entries /\ f.kind = "pw" /\ f.nick = name /\ f.user = name /\ f.for = e.for
        /\ f.mixed = e.mixed /\ f.ident = e.ident /\ f.known = e.known /\ f.only = e.only
    BY <1>0 DEF Entries, Kinds, Waiting
  <1> HIDE DEF f, rec
  <1>4. /\ people'[name] = rec /\ \A x \in Hands : x # name => people'[x] = people[x]
        /\ maker'[name] = c /\ \A x \in Hands : x # name => maker'[x] = maker[x]
        /\ conns'[c] = f /\ \A x \in Conns : x # c => conns'[x] = conns[x]
    BY <1>0, <1>1 DEF IInv, Typed
  <1>5. Typed'
    BY <1>0, <1>1, <1>2, <1>3, <1>4 DEF IInv, Typed
  <1>6. AllSound'
    <2>1. ASSUME NEW x \in Conns, x # c PROVE Sound(conns'[x], people')
      <3>1. conns[x] \in Entries /\ Sound(conns[x], people)
        BY DEF IInv, Typed, AllSound
      <3>2. conns[x].user # "" => conns[x].user \in Hands /\ conns[x].user # name
        BY <1>0, <3>1 DEF Sound, Entries
      <3> QED  BY <1>4, <2>1, <3>1, <3>2, SoundSame
    <2>2. Sound(f, people')
      BY <1>0, <1>2, <1>3, <1>4 DEF Sound
    <2> QED  BY <1>4, <2>1, <2>2 DEF AllSound
  <1>7. Founding'
    <2>1. make_userfile' = FALSE /\ founders' = founders + (IF make_userfile THEN 1 ELSE 0)
      BY DEF ChoosesName, TelnetNew
    <2>2. CASE make_userfile
      <3>1. founders = 0
        BY <2>2 DEF IInv, Founding
      <3>2. founders' = founders + 1
        BY <2>1, <2>2
      <3>3. founders' = 1
        BY <3>1, <3>2
      <3> QED  BY <2>1, <3>3 DEF Founding
    <2>3. CASE ~make_userfile
      <3>1. founders = 0 \/ founders = 1
        BY DEF IInv, Founding
      <3>2. founders' = founders + 0
        BY <2>1, <2>3
      <3>3. founders' = 0 \/ founders' = 1
        BY <3>1, <3>2
      <3> QED  BY <2>1, <3>3 DEF Founding
    <2> QED  BY <2>2, <2>3
  <1>8. Links1'
    <2>1. \A x \in Conns : conns'[x].kind = "bot" \/ conns[x].kind = "bot" => conns'[x] = conns[x]
      BY <1>0, <1>3, <1>4
    <2> QED  BY <1>0, <2>1 DEF IInv, Links1
  <1>9. Choosing'
    <2>1. SUFFICES ASSUME NEW x \in Hands, people'[x].there, maker'[x] # "", conns'[maker'[x]].kind = "pw",
                          conns'[maker'[x]].nick = x
                   PROVE  conns'[maker'[x]].user = x
      BY DEF Choosing
    <2>2. CASE x = name
      BY <2>2, <1>3, <1>4
    <2>3. CASE x # name
      <3>1. maker'[x] = maker[x] /\ maker[x] \in Conns /\ people[x].there
        BY <1>4, <2>1, <2>3 DEF IInv, Typed
      <3>2. conns'[maker[x]].kind = "pw" /\ conns'[maker[x]].nick = x
        BY <2>1, <3>1
      <3>3. maker[x] # c
        BY <1>3, <1>4, <2>3, <3>2
      <3>4. conns'[maker[x]] = conns[maker[x]]
        BY <1>4, <3>1, <3>3
      <3> QED  BY <2>1, <3>1, <3>2, <3>4 DEF IInv, Choosing
    <2> QED  BY <2>2, <2>3
  <1>10. NoneHalfMade'
    <2>1. SUFFICES ASSUME NEW x \in Hands, people'[x].there, people'[x].pass = "", maker'[x] # "", x \notin deserted'
                   PROVE  conns'[maker'[x]].kind = "pw" /\ conns'[maker'[x]].nick = x
      BY DEF NoneHalfMade
    <2>2. CASE x = name
      BY <2>2, <1>3, <1>4
    <2>3. CASE x # name
      <3>1. /\ maker'[x] = maker[x] /\ maker[x] \in Conns /\ people[x].there /\ people[x].pass = ""
            /\ x \notin deserted
        BY <1>0, <1>4, <2>1, <2>3 DEF IInv, Typed
      <3>2. conns[maker[x]].kind = "pw" /\ conns[maker[x]].nick = x
        BY <2>1, <3>1 DEF IInv, NoneHalfMade
      <3>3. conns'[maker[x]] = conns[maker[x]]
        BY <1>0, <1>4, <3>1, <3>2
      <3> QED  BY <3>1, <3>2, <3>3
    <2> QED  BY <2>2, <2>3
  <1> QED  BY <1>5, <1>6, <1>7, <1>8, <1>9, <1>10 DEF IInv

LEMMA EofKeeps == ASSUME ConstantsOK, IInv, NEW c \in Conns, Eof(c) PROVE IInv'
  <1> DEFINE e == conns[c]
             left == [conns EXCEPT ![c] = Off]
             gone == e.kind = "pw" /\ people[e.nick].there
  <1>0. /\ e \in Entries /\ Sound(e, people) /\ conns \in [Conns -> Entries]
        /\ UNCHANGED <<make_userfile, maker, founders>>
    BY DEF Eof, IInv, Typed, AllSound
  <1>1. /\ left \in [Conns -> Entries] /\ left[c] = Off
        /\ \A x \in Conns : x # c => left[x] = conns[x]
    BY <1>0, OffSound
  <1>2. CASE e.kind = "bot"
    <2>1. /\ linked' = [linked EXCEPT ![e.nick] = ""] /\ conns' \in Notified(left, e.nick)
          /\ UNCHANGED ofRecords
      BY <1>0, <1>2 DEF Eof, ofRecords
    <2>2. e.nick \in Hands /\ linked[e.nick] = c
      BY <1>0, <1>2 DEF IInv, Links1, Sound
    <2> HIDE DEF left, e, gone
    <2>3. \A x \in Conns : left[x] = IF x = linked[e.nick] THEN Off ELSE conns[x]
      BY <1>1, <2>2
    <2> QED  BY <1>1, <2>1, <2>2, <2>3, LinkEnds
  <1>3. CASE gone
    <2>1. /\ people' = [people EXCEPT ![e.nick] = NoRec] /\ conns' = Deluser(left, e.nick)
          /\ deserted' = deserted \ {e.nick} /\ UNCHANGED <<make_userfile, maker, founders, linked>>
      BY <1>0, <1>3 DEF Eof
    <2>2. e.nick \in Hands /\ e.kind = "pw"
      BY <1>0, <1>3 DEF Sound
    <2>3. \A x \in Conns : left[x] = conns[x] \/ (left[x] = Off /\ conns[x].kind # "bot")
      BY <1>1, <2>2
    <2>4. \A x \in Conns : conns[x].kind = "pw" => left[x] = conns[x] \/ conns[x].nick = e.nick
      BY <1>1
    <2> HIDE DEF left, e, gone
    <2> QED  BY <1>1, <2>1, <2>2, <2>3, <2>4, Deleted
  <1>4. CASE e.kind # "bot" /\ ~gone
    <2>1. Close(c) /\ UNCHANGED <<people, make_userfile, maker, founders, linked, deserted>>
      BY <1>0, <1>4 DEF Eof, Close
    <2> QED  BY <1>4, <2>1, GoesAway
  <1> QED  BY <1>2, <1>3, <1>4

LEMMA TimeoutKeeps == ASSUME ConstantsOK, IInv, NEW c \in Conns, Timeout(c) PROVE IInv'
  <1> DEFINE e == conns[c]
  <1>0. /\ e \in Entries /\ Sound(e, people) /\ e.kind \in {"id", "new", "pw", "pass", "dupwait", "greeted"}
        /\ UNCHANGED <<people, make_userfile, maker, founders, linked>>
        /\ conns' = [conns EXCEPT ![c] = IF e.kind = "dupwait" THEN TimeoutDupwait(e) ELSE Off]
        /\ deserted' = IF e.kind = "pw" THEN deserted \cup {e.nick} ELSE deserted
    BY DEF Timeout, IInv, Typed, AllSound
  <1>1. CASE e.kind = "dupwait"
    <2>1. UNCHANGED <<ofRecords, linked>>
      BY <1>0, <1>1 DEF ofRecords
    <2>2. CASE conns' = [conns EXCEPT ![c] = Off]
      BY <1>1, <2>1, <2>2, Closing DEF Close
    <2>3. CASE conns' = [conns EXCEPT ![c] = TelnetPass(e)]
      <3>1. ~e.mixed /\ ~e.ident /\ e.nick \in Hands
        BY <1>0, <1>1 DEF Sound, Entries
      <3>2. /\ e.user # "" => e.user = e.nick /\ people[e.user].there
            /\ e.user # "" => e.for # (IF "b" \in people[e.user].flags THEN "users" ELSE "bots")
        BY <1>0, <1>1 DEF Sound
      <3>3. TelnetPass(e) \in Entries /\ Sound(TelnetPass(e), people) /\ TelnetPass(e).kind \in {"off", "pass"}
        BY <1>0, <1>1, <3>1, <3>2, PassSound
      <3> QED  BY <1>1, <2>1, <2>3, <3>3, OneEntry
    <2> QED  BY <1>0, <1>1, <2>2, <2>3 DEF TimeoutDupwait
  <1>2. CASE e.kind # "dupwait"
    <2>1. Close(c)
      BY <1>0, <1>2 DEF Close
    <2> QED  BY <1>0, <2>1, GoesAway
  <1> QED  BY <1>1, <1>2

\* What is known of an entry does not depend on when it said something last.
LEMMA OnlyTime ==
  ASSUME ConstantsOK, IInv, NEW c \in Conns, NEW f \in Entries, conns' = [conns EXCEPT ![c] = f],
         f.kind = conns[c].kind, f.nick = conns[c].nick, f.user = conns[c].user, f.for = conns[c].for,
         f.mixed = conns[c].mixed, f.ident = conns[c].ident, f.known = conns[c].known, f.only = conns[c].only,
         UNCHANGED <<ofRecords, linked>>
  PROVE  IInv'
  <1>1. conns[c] \in Entries /\ Sound(conns[c], people)
    BY DEF IInv, Typed, AllSound
  <1>2. Sound(f, people)
    BY <1>1 DEF Sound
  <1>3. conns'[c] = f /\ \A x \in Conns : x # c => conns'[x] = conns[x]
    BY DEF IInv, Typed
  <1>4. \A x \in Conns : /\ conns'[x].kind = conns[x].kind /\ conns'[x].nick = conns[x].nick
                         /\ conns'[x].user = conns[x].user
    BY <1>3
  <1>5. Typed'
    BY DEF IInv, Typed, ofRecords
  <1>6. AllSound' /\ Founding'
    BY <1>2, <1>3 DEF IInv, AllSound, Founding, ofRecords
  <1>7. Links1'
    BY <1>4 DEF IInv, Links1
  <1>8. Choosing'
    <2>1. SUFFICES ASSUME NEW x \in Hands, people[x].there, maker[x] # "", conns'[maker[x]].kind = "pw",
                          conns'[maker[x]].nick = x
                   PROVE  conns'[maker[x]].user = x
      BY DEF Choosing, ofRecords
    <2>2. maker[x] \in Conns
      BY <2>1 DEF IInv, Typed
    <2> QED  BY <1>4, <2>1, <2>2 DEF IInv, Choosing
  <1>9. NoneHalfMade'
    <2>1. SUFFICES ASSUME NEW x \in Hands, people[x].there, people[x].pass = "", maker[x] # "", x \notin deserted
                   PROVE  conns'[maker[x]].kind = "pw" /\ conns'[maker[x]].nick = x
      BY DEF NoneHalfMade, ofRecords
    <2>2. maker[x] \in Conns
      BY <2>1 DEF IInv, Typed
    <2> QED  BY <1>4, <2>1, <2>2 DEF IInv, NoneHalfMade
  <1> QED  BY <1>5, <1>6, <1>7, <1>8, <1>9 DEF IInv

LEMMA SetTyping ==
  ASSUME ConstantsOK, IInv, NEW c \in Conns, NEW t \in BOOLEAN, conns' = [conns EXCEPT ![c].typing = t],
         UNCHANGED <<ofRecords, linked>>
  PROVE  IInv'
  <1> DEFINE f == [conns[c] EXCEPT !.typing = t]
  <1>1. conns[c] \in Entries /\ conns' = [conns EXCEPT ![c] = f]
    BY DEF IInv, Typed
  <1>2. /\ f \in Entries
        /\ f.kind = conns[c].kind /\ f.nick = conns[c].nick /\ f.user = conns[c].user
        /\ f.for = conns[c].for /\ f.mixed = conns[c].mixed /\ f.ident = conns[c].ident
        /\ f.known = conns[c].known /\ f.only = conns[c].only
    BY <1>1 DEF Entries
  <1> HIDE DEF f
  <1> QED  BY <1>1, <1>2, OnlyTime

LEMMA AskedAgainKeeps == ASSUME ConstantsOK, IInv, NEW c \in Conns, AskedAgain(c) PROVE IInv'
  BY SetTyping DEF AskedAgain

LEMMA TimePassesKeeps == ASSUME ConstantsOK, IInv, NEW c \in Conns, TimePasses(c) PROVE IInv'
  BY SetTyping DEF TimePasses

LEMMA AddUserKeeps == ASSUME ConstantsOK, IInv, NEW h \in Hands, AddUser(h) PROVE IInv'
  <1> DEFINE rec == [NoRec EXCEPT !.there = TRUE]
  <1>0. /\ ~people[h].there /\ people' = [people EXCEPT ![h] = rec] /\ maker' = [maker EXCEPT ![h] = ""]
        /\ UNCHANGED <<conns, make_userfile, founders, deserted, linked>>
    BY DEF AddUser
  <1>1. rec \in Records /\ rec.there
    BY DEF NoRec, Records, Words
  <1> HIDE DEF rec
  <1>2. /\ people'[h] = rec /\ \A x \in Hands : x # h => people'[x] = people[x]
        /\ maker'[h] = "" /\ \A x \in Hands : x # h => maker'[x] = maker[x]
    BY <1>0 DEF IInv, Typed
  <1>3. Typed'
    BY <1>0, <1>1, <1>2 DEF IInv, Typed
  <1>4. AllSound'
    <2>1. SUFFICES ASSUME NEW x \in Conns PROVE Sound(conns[x], people')
      BY <1>0 DEF AllSound
    <2>2. conns[x] \in Entries /\ Sound(conns[x], people)
      BY DEF IInv, Typed, AllSound
    <2>3. conns[x].user # "" => conns[x].user \in Hands /\ conns[x].user # h
      BY <1>0, <2>2 DEF Sound, Entries
    <2> QED  BY <1>2, <2>2, <2>3, SoundSame
  <1>5. Links1' /\ Founding'
    BY <1>0 DEF IInv, Links1, Founding
  <1>6. Choosing'
    <2>1. SUFFICES ASSUME NEW x \in Hands, people'[x].there, maker'[x] # "", conns[maker'[x]].kind = "pw",
                          conns[maker'[x]].nick = x
                   PROVE  conns[maker'[x]].user = x
      BY <1>0 DEF Choosing
    <2>2. x # h /\ people[x].there /\ maker'[x] = maker[x]
      BY <1>2, <2>1
    <2> QED  BY <2>1, <2>2 DEF IInv, Choosing
  <1>7. NoneHalfMade'
    <2>1. SUFFICES ASSUME NEW x \in Hands, people'[x].there, people'[x].pass = "", maker'[x] # "", x \notin deserted
                   PROVE  conns[maker'[x]].kind = "pw" /\ conns[maker'[x]].nick = x
      BY <1>0 DEF NoneHalfMade
    <2>2. x # h /\ people[x] = people'[x] /\ maker'[x] = maker[x]
      BY <1>2, <2>1
    <2> QED  BY <2>1, <2>2 DEF IInv, NoneHalfMade
  <1> QED  BY <1>3, <1>4, <1>5, <1>6, <1>7 DEF IInv

LEMMA DelUserKeeps == ASSUME ConstantsOK, IInv, NEW h \in Hands, DelUser(h) PROVE IInv'
  <1>1. conns \in [Conns -> Entries]
    BY DEF IInv, Typed
  <1> QED  BY <1>1, Deleted DEF DelUser

LEMMA LinksElsewhereKeeps == ASSUME ConstantsOK, IInv, NEW h \in Hands, LinksElsewhere(h) PROVE IInv'
  <1>1. linked[h] = "" /\ linked' = [linked EXCEPT ![h] = "elsewhere"] /\ UNCHANGED <<conns, ofRecords>>
    BY DEF LinksElsewhere, InChain
  <1>2. linked'[h] = "elsewhere" /\ \A x \in Hands : x # h => linked'[x] = linked[x]
    BY <1>1 DEF IInv, Typed
  <1>3. \A x \in Conns : x # "" /\ x # "elsewhere"
    BY DEF ConstantsOK
  <1>4. Links1'
    <2>1. ASSUME NEW x \in Conns, conns[x].kind = "bot" PROVE linked'[conns[x].nick] = x
      <3>1. conns[x].nick \in Hands /\ linked[conns[x].nick] = x
        BY <2>1 DEF IInv, Links1, AllSound, Sound
      <3> QED  BY <1>1, <1>2, <1>3, <3>1
    <2>2. ASSUME NEW x \in Hands, linked'[x] \in Conns PROVE conns[linked'[x]].kind = "bot" /\ conns[linked'[x]].nick = x
      <3>1. linked'[x] = linked[x]
        BY <1>2, <1>3, <2>2
      <3> QED  BY <2>2, <3>1 DEF IInv, Links1
    <2> QED  BY <1>1, <2>1, <2>2 DEF Links1
  <1>5. Typed'
    BY <1>1 DEF IInv, Typed, ofRecords
  <1> QED  BY <1>1, <1>4, <1>5 DEF IInv, AllSound, Founding, Choosing, NoneHalfMade, ofRecords

LEMMA RembotKeeps == ASSUME ConstantsOK, IInv, NEW h \in Hands, Rembot(h) PROVE IInv'
  <1>1. conns \in [Conns -> Entries]
    BY DEF IInv, Typed
  <1>2. \A x \in Conns : conns[x] = IF x = linked[h] THEN Off ELSE conns[x]
    BY DEF Rembot, ConstantsOK
  <1> QED  BY <1>1, <1>2, LinkEnds DEF Rembot

LEMMA NextKeeps == ASSUME ConstantsOK, IInv, [Next]_vars PROVE IInv'
  <1>1. CASE UNCHANGED vars
    BY <1>1, NoEntry DEF vars, ofRecords
  <1>2. ASSUME NEW c \in Conns, NEW p \in Ports, DccTelnet(c, p) \/ ConnectFails(c, p) PROVE IInv'
    BY <1>2, DccTelnetKeeps, ConnectFailsKeeps
  <1>3. ASSUME NEW c \in Conns, NEW expired \in BOOLEAN, HostResolved(c, expired) PROVE IInv'
    BY <1>3, HostResolvedKeeps
  <1>4. ASSUME NEW c \in Conns, NEW u \in Hands \cup {""}, IdentAnswers(c, u) PROVE IInv'
    BY <1>4, IdentAnswersKeeps
  <1>5. ASSUME NEW c \in Conns, NEW name \in Hands \cup {"NEW"}, SaysName(c, name) PROVE IInv'
    BY <1>5, SaysNameKeeps
  <1>6. ASSUME NEW c \in Conns, NEW pass \in Passes, ChatPass(c, pass) \/ TelnetPw(c, pass) PROVE IInv'
    BY <1>6, ChatPassKeeps, TelnetPwKeeps
  <1>7. ASSUME NEW c \in Conns, NEW name \in Hands, ChoosesName(c, name) PROVE IInv'
    BY <1>7, ChoosesNameKeeps
  <1>8. ASSUME NEW c \in Conns, Links(c) \/ Eof(c) \/ Timeout(c) \/ AskedAgain(c) \/ TimePasses(c) PROVE IInv'
    BY <1>8, LinksKeeps, EofKeeps, TimeoutKeeps, AskedAgainKeeps, TimePassesKeeps
  <1>9. ASSUME NEW p \in Ports, NEW type \in Types \cup {"off"}, Listen(p, type) PROVE IInv'
    BY <1>9, NoEntry DEF Listen
  <1>10. ASSUME NEW h \in Hands, AddUser(h) \/ DelUser(h) \/ LinksElsewhere(h) \/ Rembot(h) PROVE IInv'
    BY <1>10, AddUserKeeps, DelUserKeeps, LinksElsewhereKeeps, RembotKeeps
  <1>11. ASSUME NEW h \in Hands, NEW pass \in Passes, ChPass(h, pass) PROVE IInv'
    BY <1>11, ChPassKeeps
  <1>12. ASSUME NEW host \in ignored, Unignored(host) PROVE IInv'
    BY <1>12, NoEntry DEF Unignored
  <1> QED  BY <1>1, <1>2, <1>3, <1>4, <1>5, <1>6, <1>7, <1>8, <1>9, <1>10, <1>11, <1>12 DEF Next

LEMMA IInvIsEnough == ASSUME ConstantsOK, IInv PROVE LoginsKept
  <1>1. TypeOK
    BY DEF IInv, Typed, TypeOK, Entries, Kinds
  <1>2. Known
    BY DEF IInv, AllSound, Sound, Known
  <1>3. LinkedOnce
    <2>1. SUFFICES ASSUME NEW h \in Hands
                   PROVE  LET here == {c \in Conns : conns[c].kind = "bot" /\ conns[c].nick = h}
                          IN  IF linked[h] \in {"", "elsewhere"} THEN here = {} ELSE here = {linked[h]}
      BY DEF LinkedOnce
    <2> DEFINE here == {c \in Conns : conns[c].kind = "bot" /\ conns[c].nick = h}
    <2>2. \A c \in here : linked[h] = c
      BY DEF IInv, Links1
    <2>3. linked[h] \in Conns => linked[h] \in here
      BY DEF IInv, Links1
    <2>4. linked[h] \in Conns \cup {"", "elsewhere"} /\ {"", "elsewhere"} \cap Conns = {}
      BY DEF IInv, Typed, ConstantsOK
    <2>5. here \subseteq Conns
      OBVIOUS
    <2> HIDE DEF here
    <2>6. IF linked[h] \in {"", "elsewhere"} THEN here = {} ELSE here = {linked[h]}
      BY <2>2, <2>3, <2>4, <2>5
    <2> QED  BY <2>6 DEF here
  <1>4. OneFounder
    BY DEF IInv, Founding, OneFounder
  <1>5. IdentAwaited
    BY DEF IInv, AllSound, Sound, IdentAwaited
  <1> QED  BY <1>1, <1>2, <1>3, <1>4, <1>5 DEF LoginsKept, IInv

\* Whoever is in is known, and by a port for such as he is; a bot is linked once; one user was
\* made the owner; and no record is left half made: always, for any connections, ports, handles,
\* passwords and settings, and whatever others do between the steps of one who comes in.
THEOREM LoginsAreKept == ASSUME ConstantsOK PROVE Spec => []LoginsKept
  <1>1. Init => IInv
    BY InitIInv
  <1>2. IInv /\ [Next]_vars => IInv'
    BY NextKeeps
  <1>3. IInv => LoginsKept
    BY IInvIsEnough
  <1> QED  BY <1>1, <1>2, <1>3, PTL DEF Spec
=============================================================================
