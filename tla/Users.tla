------------------------------- MODULE Users -------------------------------
(***************************************************************************)
(* The user records (userrec.c, users.c) and the pointers to them that are *)
(* kept elsewhere: lastuser, dcc[].user and the members' user of the        *)
(* channels (chanprog.c).  Commands, scripts, a sharing hub and the user    *)
(* file change the records under them.  Who may give which command is left  *)
(* out: any command may be refused.                                         *)
(***************************************************************************)
EXTENDS Naturals, Sequences, FiniteSets, SequencesExt, FiniteSetsExt, TLC

CONSTANTS
  Handles,    \* handles, ordered by name
  Rank,       \* their order in the user file: bots first, then by name
  Bots,       \* those that are added as bots
  Unshared,   \* those that have the flag +u from the start
  Founder,    \* the permanent owner, who is never deleted
  Masks,
  Hosts,      \* nick!user@host's, as they appear on the channels
  Score,      \* Score[m][h]: how closely mask m matches host h; 0 if not at all
  Wider,      \* Wider[m]: the masks that m makes superfluous
  MaxRecs,    \* records that exist at once, old and new list together
  Members,    \* entries of the channels' member lists
  Conns,      \* entries of the dcc table
  OfNick,     \* OfNick[h]: the handle that is also h's nick, or ""
  HubFiles,   \* the user files that a hub may send
  OneChannel, \* nobody is on two channels
  InStep,     \* the hub renames nobody to a handle that is used here
  MaxChanges  \* bound: changes of the user list in a behaviour

VARIABLES
  recs,       \* the records, by address
  userlist,   \* their order
  lastuser,
  dcc,
  members,
  disk,       \* the user file
  late,       \* history: a mask came from the hub since the members were last cleared
  changes     \* history: how many times the list was changed

vars == <<recs, userlist, lastuser, dcc, members, disk, late, changes>>

World == [recs |-> recs, list |-> userlist, last |-> lastuser, dcc |-> dcc, mem |-> members,
          disk |-> disk, late |-> late]
Becomes(worlds) == \E w \in worlds :
  /\ recs' = w.recs /\ userlist' = w.list /\ lastuser' = w.last /\ dcc' = w.dcc
  /\ members' = w.mem /\ disk' = w.disk /\ late' = w.late

None   == 0
Gone   == [host |-> "", user |-> None, tried |-> FALSE]
Closed == [type |-> "none", nick |-> "", user |-> None, strayed |-> FALSE]
Ids(list) == {list[i] : i \in DOMAIN list}
Names == {recs[u].hand : u \in Ids(userlist)}
FirstIn(list, P(_)) ==
  LET hits == {i \in DOMAIN list : P(list[i])}
  IN  IF hits = {} THEN None ELSE list[Min(hits)]

-----------------------------------------------------------------------------
(* Looking up *)

\* The scan of the list bu.
Scan(w, bu, hand) == FirstIn(bu, LAMBDA u : w.recs[u].hand = hand)

\* check_dcclist_hand: the first connection that shows this nick.
DccHand(w, hand) ==
  LET c == FirstIn([i \in DOMAIN w.dcc |-> i], LAMBDA i : w.dcc[i].nick = hand)
  IN  IF c = None THEN None ELSE w.dcc[c].user

\* check_chanlist_hand
ChanHand(w, hand) ==
  LET m == FirstIn([i \in DOMAIN w.mem |-> i],
                   LAMBDA i : w.mem[i].user # None /\ w.recs[w.mem[i].user].hand = hand)
  IN  IF m = None THEN None ELSE w.mem[m].user

Else(u, v) == IF u # None THEN u ELSE v
\* get_user_by_handle on the user list: the record it returns, and what it remembers.
Found(w, hand) ==
  IF hand = "" THEN None
  ELSE IF w.last # None /\ w.recs[w.last].hand = hand THEN w.last
  ELSE Else(DccHand(w, hand), Else(ChanHand(w, hand), Scan(w, w.list, hand)))
Remembers(w, u) == IF u = None THEN w ELSE [w EXCEPT !.last = u]
Seek(w, hand) ==
  IF DccHand(w, hand) # None \/ ChanHand(w, hand) # None THEN w ELSE Remembers(w, Found(w, hand))

UserScore(w, u, host) == Max({0} \cup {Score[m][host] : m \in w.recs[u].hosts})
BestScore(w, host) == Max({0} \cup {UserScore(w, u, host) : u \in Ids(w.list)})

\* check_chanlist, then the closest match: the first of the list that has it.
CachedFor(w, host) ==
  LET m == FirstIn([i \in DOMAIN w.mem |-> i], LAMBDA i : w.mem[i].host = host)
  IN  IF m = None THEN None ELSE w.mem[m].user
FirstWith(w, host, score) ==
  IF score = 0 THEN None ELSE FirstIn(w.list, LAMBDA u : UserScore(w, u, host) = score)
Closest(w, host) == FirstWith(w, host, BestScore(w, host))
ByHost(w, host)  == Else(CachedFor(w, host), Closest(w, host))
\* set_chanlist, and lastuser
SetChanlist(w, host, u) ==
  IF u = None THEN w
  ELSE [w EXCEPT !.last = u,
                 !.mem = [i \in DOMAIN @ |-> IF @[i].host = host THEN [@[i] EXCEPT !.user = u] ELSE @[i]]]
Recognise(w, host) == IF CachedFor(w, host) # None THEN w ELSE SetChanlist(w, host, Closest(w, host))

-----------------------------------------------------------------------------
(* Changing records *)

ClearChanlist(w) ==
  [w EXCEPT !.mem = [i \in DOMAIN @ |-> [@[i] EXCEPT !.user = None, !.tried = FALSE]], !.late = FALSE]

FreeId(w) == Min(1..(MaxRecs + 1) \ DOMAIN w.recs)
Rec(hand, hosts, bot, unsh) == [hand |-> hand, hosts |-> hosts, bot |-> bot, unsh |-> unsh]

\* adduser to the user list: at its end, found from lastuser.
AddUser(w, hand, hosts, bot) ==
  [ClearChanlist(w) EXCEPT !.recs = (FreeId(w) :> Rec(hand, hosts, bot, hand \in Unshared)) @@ @,
                           !.list = Append(@, FreeId(w)),
                           !.last = IF w.list = <<>> THEN @ ELSE FreeId(w)]

\* Mutant: whoever is logged in keeps the record.
DelUserOnly(w, hand) ==
  LET u == Scan(w, w.list, hand)
  IN  IF u = None \/ hand = Founder THEN w
      ELSE [ClearChanlist(w) EXCEPT !.recs = [x \in DOMAIN @ \ {u} |-> @[x]], !.last = None,
                                    !.list = SelectSeq(@, LAMBDA x : x # u)]

\* deluser
DelUser(w, hand) ==
  LET u == Scan(w, w.list, hand)
  IN  IF u = None \/ hand = Founder THEN w
      ELSE [ClearChanlist(w) EXCEPT
              !.recs = [x \in DOMAIN @ \ {u} |-> @[x]], !.last = None,
              !.list = SelectSeq(@, LAMBDA x : x # u),
              !.dcc  = [i \in DOMAIN @ |-> IF @[i].user = u THEN [@[i] EXCEPT !.user = None] ELSE @[i]]]

\* Mutant: only the record gets the new handle.
ChangeRecord(w, u, newh) == [w EXCEPT !.recs[u].hand = newh]

\* change_handle: sessions on the party line, or at their password, get the new nick; file areas,
\* transfers and links keep the old one.
ChangeHandle(w, u, newh) ==
  LET old == w.recs[u].hand
      now(c) == IF c.nick = old /\ c.type = "chat" THEN [c EXCEPT !.nick = newh]
                ELSE [c EXCEPT !.strayed = @ \/ c.user = u \/ c.nick = old]
  IN  [w EXCEPT !.recs[u].hand = newh, !.dcc = [i \in DOMAIN @ |-> now(@[i])]]

\* hosts_set: the masks that the new one covers go.
SetHost(w, u, mask) == [w EXCEPT !.recs[u].hosts = (@ \ Wider[mask]) \cup {mask}]

\* addhost_by_handle, delhost_by_handle
AddHost(w, hand, mask) == ClearChanlist(SetHost(Seek(w, hand), Found(w, hand), mask))
DelHost(w, hand, mask) == ClearChanlist([Seek(w, hand) EXCEPT !.recs[Found(w, hand)].hosts = @ \ {mask}])

-----------------------------------------------------------------------------
(* The user file *)

\* write_userfile: the list itself is sorted before it is written.
SaveTo(w) ==
  LET sorted == SortSeq(w.list, LAMBDA a, b : Rank[w.recs[a].hand] < Rank[w.recs[b].hand])
  IN  IF w.list = <<>> THEN w
      ELSE [w EXCEPT !.list = sorted, !.disk = [i \in DOMAIN sorted |-> w.recs[sorted[i]]]]

\* clear_userlist of the list in use
ClearUserlist(w) ==
  [ClearChanlist(w) EXCEPT !.recs = [u \in DOMAIN @ \ Ids(w.list) |-> @[u]], !.last = None, !.list = <<>>,
                           !.dcc = [i \in DOMAIN @ |-> [@[i] EXCEPT !.user = None]]]

\* readuserfile adds to bu what is not there yet; sessions find their record by nick.
ReadUserfile(w, bu, file) ==
  FoldLeft(LAMBDA r, e :
             IF Scan(r.w, r.bu, e.hand) # None THEN r
             ELSE LET u == FreeId(r.w)
                  IN  [w  |-> [r.w EXCEPT !.recs = (u :> e) @@ @,
                                 !.dcc = [i \in DOMAIN @ |->
                                            IF @[i].nick = e.hand THEN [@[i] EXCEPT !.user = u] ELSE @[i]]],
                       bu |-> Append(r.bu, u)],
           [w |-> w, bu |-> bu], file)

\* reload, and rehash, which saves first: what the file does not have is lost.
Reloaded(w) ==
  LET r == ReadUserfile(ClearUserlist(w), <<>>, w.disk)
  IN  Seek([r.w EXCEPT !.list = r.bu], Founder)

\* Mutant: only bots are kept when a hub's list replaces one's own.
DupBots(w, list) == SelectSeq(list, LAMBDA u : w.recs[u].bot)
\* dup_userlist(1): what a hub's list does not replace.
DupUserlist(w, list) == SelectSeq(list, LAMBDA u : w.recs[u].bot \/ w.recs[u].unsh)

\* Copies of list: <<the world with them, their addresses>>.
Copy(w, list) ==
  FoldLeft(LAMBDA r, u : [w  |-> [r.w EXCEPT !.recs = (FreeId(r.w) :> w.recs[u]) @@ @],
                          bu |-> Append(r.bu, FreeId(r.w))],
           [w |-> w, bu |-> <<>>], list)
Reattach(w, bu) ==
  [w EXCEPT !.dcc = [i \in DOMAIN @ |-> [@[i] EXCEPT !.user = Scan(w, bu, w.dcc[i].nick)]]]
Freed(w, list) == [w EXCEPT !.recs = [u \in DOMAIN @ \ Ids(list) |-> @[u]]]

\* finish_share: the old list is put aside, and freed when the new one has been read.
FinishShare(w, file, override, readable) ==
  LET kept == Copy(w, IF override THEN <<>> ELSE DupUserlist(w, w.list))
      r    == ReadUserfile(Reattach(kept.w, kept.bu), kept.bu, file)
  IN  IF readable
      THEN [ClearChanlist(Freed(r.w, w.list)) EXCEPT !.list = r.bu, !.last = None]
      ELSE [Reattach(ClearChanlist(Freed(kept.w, kept.bu)), w.list) EXCEPT !.last = None]

-----------------------------------------------------------------------------
(* Commands, scripts and the hub *)

Changing == changes < MaxChanges /\ changes' = changes + 1
Room     == Cardinality(DOMAIN recs) < MaxRecs \div 2

\* check_this_user: who is on the channels is looked up.
CheckMembers(w) ==
  FoldLeft(LAMBDA v, i : IF v.mem[i].host = "" \/ v.mem[i].user # None THEN v ELSE Recognise(v, v.mem[i].host),
           w, [i \in 1..Members |-> i])

Known(hand) == Found(World, hand) # None
Of(hand)    == recs[Found(World, hand)]
New(hand, hosts, bot) ==
  Changing /\ Room /\ ~Known(hand) /\ Becomes({AddUser(World, hand, hosts, bot)})

\* cmd_pls_user, tcl_adduser
PlsUser(hand, hosts) == hand \notin Bots /\ New(hand, hosts, FALSE)
\* cmd_pls_bot: the host mask is added to the new record.
PlsBot(hand, hosts) == hand \in Bots /\ New(hand, hosts, TRUE)
\* msg_hello: a new record by the nick, with a mask of his own.
MsgHello(i, mask) ==
  /\ members[i].host # "" /\ ByHost(World, members[i].host) = None
  /\ OfNick[members[i].host] \in Handles \ Bots /\ Score[mask][members[i].host] > 0
  /\ New(OfNick[members[i].host], {mask}, FALSE)
\* dcc_telnet_new: somebody calls himself NEW, and is logged in by it.
TelnetNew(c, hand) ==
  /\ Changing /\ Room /\ ~Known(hand) /\ hand \notin Bots /\ dcc[c].type = "none"
  /\ \E w \in {AddUser(World, hand, {}, FALSE)} :
       Becomes({[w EXCEPT !.dcc[c] = [type |-> "chat", nick |-> hand, user |-> Found(w, hand),
                                      strayed |-> FALSE]]})

\* cmd_mns_user: neither a linked bot nor the owner; the channels are looked at first.
MnsUser(hand) ==
  /\ Changing /\ Known(hand) /\ hand # Founder
  /\ Of(hand).bot => \A i \in 1..Conns : dcc[i].nick # hand
  /\ Becomes({DelUser(CheckMembers(Seek(World, hand)), hand)})
TclDelUser(hand) == Changing /\ hand \in Names /\ Becomes({DelUser(World, hand)})

\* cmd_pls_host: then who is on the channels is looked up; tcl_setuser does not.
PlsHost(hand, mask) ==
  /\ Changing /\ Known(hand) /\ mask \notin Of(hand).hosts
  /\ Becomes({CheckMembers(AddHost(World, hand, mask))})
TclSetUser(hand, mask) == Changing /\ Known(hand) /\ Becomes({AddHost(World, hand, mask)})
\* msg_addhost: somebody who is not recognised says who he is.
MsgAddHost(i, hand, mask) ==
  /\ members[i].host # "" /\ ByHost(World, members[i].host) = None
  /\ Known(hand) /\ ~Of(hand).bot /\ Score[mask][members[i].host] > 0
  /\ PlsHost(hand, mask)
\* cmd_mns_host, and tcl_delhost
MnsHost(hand, mask) ==
  /\ Changing /\ Known(hand) /\ mask \in Of(hand).hosts
  /\ Becomes({CheckMembers(DelHost(World, hand, mask))})
TclDelHost(hand, mask) == Changing /\ Known(hand) /\ Becomes({DelHost(World, hand, mask)})

\* cmd_chhandle and tcl_chhandle; cmd_handle, of the session's own user
ChHandle(hand, newh) ==
  /\ Changing /\ Known(hand) /\ ~Known(newh)
  /\ Becomes({ChangeHandle(Seek(World, hand), Found(World, hand), newh)})
Handle(c, newh) ==
  /\ Changing /\ dcc[c].type = "chat" /\ dcc[c].user # None /\ ~Known(newh)
  /\ Becomes({ChangeHandle(World, dcc[c].user, newh)})

\* A hub's changes do not touch unshared records.
Shared(hand) == Known(hand) /\ ~Of(hand).unsh
ShareNewUser(hand, hosts) == hand \notin Bots /\ New(hand, hosts, FALSE)
\* share_change: a bot that is not known has an address now.
ShareChange(hand) == hand \in Bots /\ New(hand, {}, TRUE)
ShareKillUser(hand) ==
  Changing /\ Shared(hand) /\ ~Of(hand).bot /\ Becomes({DelUser(Seek(World, hand), hand)})
\* share_pls_host, and share_pls_bothost: the members are not cleared.
SharePlsHost(hand, mask) ==
  /\ Changing /\ Shared(hand)
  /\ Becomes({[SetHost(Seek(World, hand), Found(World, hand), mask) EXCEPT !.late = TRUE]})
SharePlsBotHost(hand, mask) ==
  \/ hand \in Bots /\ New(hand, {mask}, TRUE)
  \/ Known(hand) /\ Of(hand).bot /\ SharePlsHost(hand, mask)
ShareMnsHost(hand, mask) == Changing /\ Shared(hand) /\ Becomes({DelHost(World, hand, mask)})
\* share_chhand does not look whether the new handle is used.
ShareChHand(hand, newh) ==
  /\ Changing /\ Shared(hand)
  /\ InStep => (hand \in Names /\ newh \notin Names)
  /\ Becomes({ChangeHandle(Seek(World, hand), Found(World, hand), newh)})

Save == Changing /\ userlist # <<>> /\ Becomes({SaveTo(World)})
Reload == Changing /\ disk # <<>> /\ Becomes({Reloaded(World)})
\* cmd_rehash saves, and at the end of that round of the main loop everything is read again.
Rehash == Changing /\ userlist # <<>> /\ Becomes({Reloaded(SaveTo(World))})

\* The hub's user file is in.
ShareFile(file, override, readable) ==
  /\ Changing
  /\ Becomes({FinishShare(World, file, override, readable)})

-----------------------------------------------------------------------------
(* Channels *)

Here(i) == members[i].host # ""

\* gotjoin: he is looked up before he is entered; a WHO reply does the same.
GotJoin(i, host) ==
  /\ ~Here(i)
  /\ OneChannel => \A k \in 1..Members : members[k].host # host
  /\ \E w \in {Recognise(World, host)} :
       Becomes({[w EXCEPT !.mem[i] = [host |-> host, user |-> ByHost(w, host), tried |-> FALSE]]})
GotPart(i) ==
  Here(i) /\ Becomes({[Recognise(World, members[i].host) EXCEPT !.mem[i] = Gone]})

\* He speaks, or gives a command: check_chanlist or a search.
GotMsg(i) == Here(i) /\ Becomes({Recognise(World, members[i].host)})

ClearMember(w, host) ==
  [w EXCEPT !.mem = [i \in DOMAIN @ |-> IF @[i].host = host THEN [@[i] EXCEPT !.user = None, !.tried = FALSE]
                                        ELSE @[i]]]

\* gotnick: channel by channel; after each, the old name is looked up for the flood check and
\* the scripts, and cached wherever it still stands.
Renamed(w, host, newh) ==
  LET known(v, i) == IF v.mem[i].user = None THEN Recognise(v, newh) ELSE v
      one(v, i) == IF v.mem[i].host # host THEN v
                   ELSE Recognise(known(Recognise([v EXCEPT !.mem[i].host = newh], host), i), host)
  IN  FoldLeft(one, ClearMember(w, host), [i \in 1..Members |-> i])
GotNick(host, newh) ==
  /\ \E i \in 1..Members : members[i].host = host
  /\ \A i \in 1..Members : members[i].host # newh
  /\ Becomes({Renamed(World, host, newh)})

\* recheck_channel, tcl_hand2nick: those who have not been tried
Recheck ==
  LET tried(r, i) == [r EXCEPT !.mem[i].tried = TRUE, !.mem[i].user = ByHost(r, r.mem[i].host)]
      one(v, i) == IF v.mem[i].host = "" \/ v.mem[i].user # None \/ v.mem[i].tried THEN v
                   ELSE tried(Recognise(v, v.mem[i].host), i)
  IN  Becomes({FoldLeft(one, World, [i \in 1..Members |-> i])})

\* punish_badguy: whoever is not known gets a record with his own mask.
Punish(i, hand, mask) ==
  /\ Changing /\ Room /\ Here(i) /\ ByHost(World, members[i].host) = None
  /\ Found(World, hand) = None /\ Score[mask][members[i].host] > 0
  /\ \E w \in {AddUser(World, hand, {mask}, FALSE)} : Becomes({[w EXCEPT !.mem[i].user = Found(w, hand)]})

-----------------------------------------------------------------------------
(* Sessions *)

Free(c) == dcc[c].type = "none"

\* dcc_telnet_id, or a chat that a recognised user asked for
Login(c, hand) ==
  /\ Free(c)
  /\ \E u \in {Found(World, hand)} \ {None} :
       Becomes({[Seek(World, hand) EXCEPT
         !.dcc[c] = [type |-> IF recs[u].bot THEN "bot" ELSE "chat", nick |-> recs[u].hand, user |-> u,
                     strayed |-> FALSE]]})
Logout(c) == ~Free(c) /\ Becomes({[World EXCEPT !.dcc[c] = Closed]})

\* To the file area and back.
FileArea(c) ==
  \/ dcc[c].type = "chat" /\ dcc[c].user # None /\ Becomes({[World EXCEPT !.dcc[c].type = "files"]})
  \/ dcc[c].type = "files" /\ Becomes({[World EXCEPT !.dcc[c].type = "chat"]})

\* filesys_dcc_send: the entry shows his nick, and holds his record.
DccSend(c, host) ==
  /\ Free(c)
  /\ \E u \in {ByHost(World, host)} \ {None} :
       Becomes({[Recognise(World, host) EXCEPT
         !.dcc[c] = [type |-> "send", nick |-> OfNick[host], user |-> u, strayed |-> FALSE]]})

-----------------------------------------------------------------------------
Init ==
  /\ recs = (1 :> Rec(Founder, {}, FALSE, Founder \in Unshared))
  /\ userlist = <<1>> /\ lastuser = None
  /\ dcc = [c \in 1..Conns |-> Closed] /\ members = [i \in 1..Members |-> Gone]
  /\ disk = <<recs[1]>> /\ late = FALSE /\ changes = 0

Commands ==
  \E hand \in Handles :
    \/ \E m \in Masks :
         \/ PlsHost(hand, m) \/ MnsHost(hand, m) \/ TclSetUser(hand, m) \/ TclDelHost(hand, m)
         \/ PlsUser(hand, {m}) \/ PlsBot(hand, {m})
         \/ \E i \in 1..Members : MsgAddHost(i, hand, m) \/ MsgHello(i, m) \/ Punish(i, hand, m)
    \/ PlsUser(hand, {}) \/ PlsBot(hand, {}) \/ MnsUser(hand) \/ TclDelUser(hand)
    \/ \E newh \in Handles : ChHandle(hand, newh)
    \/ \E c \in 1..Conns : TelnetNew(c, hand) \/ Handle(c, hand)
Hub ==
  \/ \E hand \in Handles :
       \/ ShareKillUser(hand) \/ ShareChange(hand) \/ ShareNewUser(hand, {})
       \/ \E m \in Masks :
            \/ SharePlsHost(hand, m) \/ SharePlsBotHost(hand, m) \/ ShareMnsHost(hand, m)
            \/ ShareNewUser(hand, {m})
       \/ \E newh \in Handles : ShareChHand(hand, newh)
  \/ \E file \in HubFiles, override, readable \in BOOLEAN : ShareFile(file, override, readable)
Irc ==
  /\ UNCHANGED changes
  /\ \/ \E i \in 1..Members : GotPart(i) \/ GotMsg(i) \/ \E h \in Hosts : GotJoin(i, h)
     \/ \E h, newh \in Hosts : GotNick(h, newh)
     \/ Recheck
Sessions ==
  /\ UNCHANGED changes
  /\ \E c \in 1..Conns :
       \/ Logout(c) \/ FileArea(c) \/ \E hand \in Handles : Login(c, hand)
       \/ \E i \in 1..Members : Here(i) /\ DccSend(c, members[i].host)

Next == Commands \/ Hub \/ Irc \/ Sessions \/ Save \/ Reload \/ Rehash

Spec == Init /\ [][Next]_vars

-----------------------------------------------------------------------------
(* Properties *)

TypeOK ==
  /\ Ids(userlist) = DOMAIN recs /\ Len(userlist) = Cardinality(DOMAIN recs)
  /\ DOMAIN recs \subseteq 1..MaxRecs
  /\ \A u \in DOMAIN recs : recs[u].hand \in Handles /\ recs[u].hosts \subseteq Masks

\* No pointer outlives its record: lastuser, the sessions' user and the members' user
\* (deluser, clear_userlist, finish_share).
NoDangling ==
  LET live == DOMAIN recs \cup {None}
  IN  /\ lastuser \in live
      /\ \A c \in 1..Conns : dcc[c].user \in live
      /\ \A i \in 1..Members : members[i].user \in live

\* A handle names one record, whichever way records come: commands, the hub, the file.
HandlesUnique == Cardinality(Names) = Len(userlist)

\* Whom a member is taken for is who matches him best, and who is nobody matches none; comment
\* at chanprog.c:175, "Necessary when a hostmask is added/removed, a user is added".
CacheHonest ==
  ~late => \A i \in 1..Members :
    /\ members[i].user # None =>
         UserScore(World, members[i].user, members[i].host) = BestScore(World, members[i].host)
    /\ (members[i].tried /\ members[i].user = None) => BestScore(World, members[i].host) = 0

\* get_user_by_handle returns the record of that handle, but for a session that shows a name
\* which is not its user's handle: one that was renamed in the file area, or a nick's transfer.
LookupHonest ==
  \A hand \in Handles :
    LET u == Found(World, hand)
    IN  (u # None /\ recs[u].hand # hand) =>
          \E c \in 1..Conns : /\ dcc[c].nick = hand /\ dcc[c].user = u
                             /\ (dcc[c].strayed \/ dcc[c].type = "send")

\* A hub's file replaces neither bots nor unshared users, and nothing if it cannot be read; the
\* sessions have their records back (finish_share's comments, share.c:1802 and 1840).
KeptBy(readable) ==
  /\ \A u \in DOMAIN recs : (recs[u].bot \/ recs[u].unsh \/ ~readable) =>
       \E v \in DOMAIN recs' : recs'[v] = recs[u]
  /\ \A c \in 1..Conns : dcc[c].nick \in {recs'[v].hand : v \in DOMAIN recs'} => dcc'[c].user # None
=============================================================================
