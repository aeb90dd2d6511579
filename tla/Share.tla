-------------------------------- MODULE Share --------------------------------
(***************************************************************************)
(* User file sharing (share.mod, with the part of transfer.mod that carries*)
(* the file).  A hub has the leaf flagged +s and the leaf has the hub      *)
(* flagged +p; the hub offers its user file whenever their link comes up,  *)
(* sends it over a connection of its own, and from then on both send every *)
(* change over the link.  Changes made at the hub during the transfer wait *)
(* in a buffer ("tbuf"); with allow-resync the same buffer collects what   *)
(* changes while the link is down.                                         *)
(*                                                                         *)
(* A bot handles one line, file event or timeout at a time: each is an     *)
(* atomic action.  The link's two directions are FIFO queues; the file     *)
(* travels on another connection, so it is not ordered with them.          *)
(***************************************************************************)
EXTENDS Naturals, Sequences, FiniteSets, SequencesExt, FiniteSetsExt

CONSTANTS
  Bots,
  Pairs,         \* <<h, l>>: hub h shares its user file with leaf l
  Users, Masks, BotRecs, \* the user records, the bans, the bots' own records
  Writers,       \* Writers[r]: the bots whose operators change record r
  AllowResync,   \* the bots with "set allow-resync 1"
  Reloaders,     \* the bots whose operator may .reload the user file
  Unloaders,     \* the bots whose operator may unload and load the module
  Keen,          \* the hubs that repeat an offer not yet answered
  Breakable,     \* the hubs whose links may be lost
  Lossy,         \* whether they may be lost with lines under way
  MayFail,       \* whether files may stall or find no connection
  InOrder,       \* whether what a leaf's file connection meets (its end, a refusal)
                 \* is noticed before the lines that were sent after it
  SlowFiles,     \* whether a transfer may take longer than resync-time
  QLimit,        \* the limit in q_addmsg (1000 in the code)
  MaxEdits, MaxLinks, MaxWire  \* bounds

Recs == Users \cup Masks \cup BotRecs

ASSUME ShareAssumption ==
  /\ Pairs \subseteq Bots \X Bots
  /\ IsFiniteSet(BotRecs)
  /\ \A p \in Pairs : p[1] # p[2] /\ <<p[2], p[1]>> \notin Pairs
  /\ Users \cap Masks = {} /\ (Users \cup Masks) \cap BotRecs = {}
  /\ Writers \in [Recs -> SUBSET Bots]
  /\ {AllowResync, Reloaders, Unloaders, Keen, Breakable} \subseteq SUBSET Bots
  /\ {Lossy, MayFail, InOrder, SlowFiles} \subseteq BOOLEAN
  /\ {QLimit, MaxEdits, MaxLinks, MaxWire} \subseteq Nat

VARIABLES
  list,    \* list[b][r]: what b's user list has for r, 0 if nothing
  loaded,  \* the bots that have the share module loaded
  link,    \* link[b][p]: b's end of its link to p
  wire,    \* wire[b][p]: the lines from p that b has still to read
  file,    \* file[p]: the transfers from hub p[1] to leaf p[2], oldest first
  edits, links  \* how many changes were made and links established

vars == <<list, loaded, link, wire, file, edits, links>>

Peers(b) == {p \in Bots : <<b, p>> \in Pairs \/ <<p, b>> \in Pairs}

\* A link's end: whether it is up, its status flags, and the buffers of changes
\* kept for that bot, newest first, which outlive the link.
Flags   == {"share", "offered", "getting", "sending", "aggressive"}
DownEnd == [up |-> FALSE, status |-> {}, tbuf |-> <<>>]

\* A transfer: the list that was written to the file, the hub's end, the leaf's
\* end, and whether the leaf has all of it.
Transfer(l, leaf) == [list |-> l, hub |-> "pending", leaf |-> leaf, whole |-> FALSE]
Over(f)     == f.hub = "closed" /\ f.leaf = "closed"

Line(c)      == [cmd |-> c]
Chg(c, r, v) == [cmd |-> c, rec |-> r, val |-> v]
Offers   == {"u?", "r?", "r!", "rn", "uy", "un", "us", "!", "e", "bye", "eof"}
Commands == {"n", "a", "k", "+b", "-b", "+bh"}
Lines    == [cmd : Offers] \cup [cmd : Commands, rec : Recs, val : 0..MaxEdits]

-----------------------------------------------------------------------------
(* Buffers of changes *)

\* flush_tbuf, del_tbuf: the first buffer found is dropped.
FlushTbuf(e) == IF e.tbuf = <<>> THEN e ELSE [e EXCEPT !.tbuf = Tail(@)]
NewTbuf(e)   == [e EXCEPT !.tbuf = <<<<>>>> \o @]
CanResync(e) == e.tbuf # <<>>

\* q_addmsg: a queue that is full silently stays as it is.
QAddmsg(q, ms) ==
  SubSeq(q \o ms, 1, IF Len(q \o ms) > QLimit + 2 THEN QLimit + 2 ELSE Len(q \o ms))

\* q_tbuf adds lines to the newest buffer, q_resync one to each of them.
QTbuf(e, ms)  == [e EXCEPT !.tbuf[1] = QAddmsg(@, ms)]
QResync(e, m) == [e EXCEPT !.tbuf = [k \in DOMAIN @ |-> QAddmsg(@[k], <<m>>)]]

\* shareout: to every bot we share with, except while a file is under way in
\* either direction, and into every buffer.
Receives(e) == e.up /\ "share" \in e.status
                 /\ {"getting", "sending"} \cap e.status = {}

-----------------------------------------------------------------------------
(* One handler of bot b: its new list, its new link ends, what it left      *)
(* unread, what it sent and the transfers afterwards.                       *)

Silence    == [p \in Bots |-> <<>>]
Inbox(b)   == wire[b]
Read(b, p) == [wire[b] EXCEPT ![p] = Tail(@)]
To(p, ms)  == [Silence EXCEPT ![p] = ms]

Commit(b, l, ends, unread, sent, files) ==
  /\ list' = [list EXCEPT ![b] = l]
  /\ link' = [link EXCEPT ![b] = ends]
  /\ wire' = [x \in Bots |-> [y \in Bots |->
       CASE x = b -> IF ends[y].up THEN unread[y] ELSE <<>>
         [] x # b /\ y = b /\ link[x][b].up ->
              wire[x][b] \o sent[x]
                \o IF link[b][x].up /\ ~ends[x].up THEN <<Line("eof")>> ELSE <<>>
         [] OTHER -> wire[x][y]]]
  /\ file' = [p \in Pairs |-> SelectSeq(files[p], LAMBDA f : ~Over(f))]

\* b forwards m to everybody but x: new ends, and what is sent.
Kept(ends, m)          == [p \in Bots |-> QResync(ends[p], m)]
Shareout(b, ends, x, m) ==
  [p \in Bots |-> IF p # x /\ Receives(ends[p]) THEN <<m>> ELSE <<>>]

\* killsock in cancel_user_xfer: b's end of the file it is getting from p, or
\* sending to p, is closed; of several only one, which we take to be the newest.
CloseLast(fs, end, open) ==
  LET k == Max({i \in DOMAIN fs : fs[i][end] \in open})
  IN  IF \E i \in DOMAIN fs : fs[i][end] \in open
      THEN [fs EXCEPT ![k][end] = "closed"] ELSE fs

CloseGetting(files, b, p) ==
  IF <<p, b>> \in Pairs
  THEN [files EXCEPT ![<<p, b>>] = CloseLast(@, "leaf", {"connecting", "open"})]
  ELSE files
CloseSending(files, b, p) ==
  IF <<b, p>> \in Pairs
  THEN [files EXCEPT ![<<b, p>>] = CloseLast(@, "hub", {"pending", "open"})]
  ELSE files

\* cancel_user_xfer: the buffer is flushed, a file under way either way is
\* dropped, and with allow-resync a new buffer is begun for a bot whose list was
\* in step with ours.
Cancel(b, e) ==
  LET flushed == FlushTbuf(e)
  IN  IF b \in AllowResync /\ Receives(e) THEN NewTbuf(flushed) ELSE flushed

\* Mutant: the file that is being sent is left alone.
CancelIncoming(files, b, p, e) ==
  IF {"share", "getting"} \subseteq e.status THEN CloseGetting(files, b, p) ELSE files

CancelFiles(files, b, p, e) ==
  LET f1 == IF {"share", "getting"} \subseteq e.status
            THEN CloseGetting(files, b, p) ELSE files
  IN  IF {"share", "sending"} \subseteq e.status
      THEN CloseSending(f1, b, p) ELSE f1

\* Mutant: the flags survive the link.
LostFlagsStay(b, e) ==
  [(IF b \in loaded THEN Cancel(b, e) ELSE e) EXCEPT !.up = FALSE]

\* The end of b's link to p is gone: the share module's DCC_BOT.kill.
LostEnd(b, e) ==
  [(IF b \in loaded THEN Cancel(b, e) ELSE e) EXCEPT !.up = FALSE, !.status = {}]

\* A file whose "us" b will not read any more.
Forgotten(files, b, p) ==
  IF <<p, b>> \in Pairs
  THEN [files EXCEPT ![<<p, b>>] =
          [k \in DOMAIN @ |-> IF @[k].leaf = "none"
                              THEN [@[k] EXCEPT !.leaf = "closed"] ELSE @[k]]]
  ELSE files

Drop(b, p, ends, bye, files) ==
  Commit(b, list[b], [ends EXCEPT ![p] = LostEnd(b, @)], Inbox(b), To(p, bye),
         Forgotten(IF b \in loaded THEN CancelFiles(files, b, p, ends[p])
                   ELSE files, b, p))

-----------------------------------------------------------------------------
(* Links and local changes *)

\* share_version, which bot_version calls at both ends of a new link: only the
\* hub has something to offer.
Version(h, e) ==
  [e EXCEPT !.up = TRUE, !.status = IF h \in loaded THEN {"offered"} ELSE {}]

LinkUp(h, l) ==
  /\ <<h, l>> \in Pairs
  /\ links < MaxLinks
  /\ ~link[h][l].up /\ ~link[l][h].up
  /\ links' = links + 1
  /\ link' = [link EXCEPT ![h][l] = Version(h, @), ![l][h].up = TRUE]
  /\ wire' = IF h \notin loaded THEN wire
             ELSE [wire EXCEPT ![l][h] =
                     <<Line(IF CanResync(link[h][l]) THEN "r?" ELSE "u?")>>]
  /\ UNCHANGED <<list, loaded, file, edits>>

\* The link breaks and b is the first to notice, or it reads the peer's bye, or
\* finds the connection closed: then lines under way may be lost.
LinkLost(b, p) ==
  /\ link[b][p].up
  /\ Drop(b, p, link[b], <<>>, file)
  /\ UNCHANGED <<loaded, edits, links>>

Breaks(b, p)  ==
  /\ Lossy
  /\ links < MaxLinks
  /\ (IF <<b, p>> \in Pairs THEN b ELSE p) \in Breakable
  /\ LinkLost(b, p)
\* A silent link times out at both ends.
Parts(h, l) ==
  /\ links < MaxLinks
  /\ h \in Breakable
  /\ link[h][l].up /\ link[l][h].up
  /\ wire[h][l] = <<>> /\ wire[l][h] = <<>>
  /\ link' = [link EXCEPT ![h][l] = LostEnd(h, @), ![l][h] = LostEnd(l, @)]
  /\ file' = LET f1 == IF h \in loaded THEN CancelFiles(file, h, l, link[h][l]) ELSE file
                 f2 == IF l \in loaded THEN CancelFiles(f1, l, h, link[l][h]) ELSE f1
             IN  [p \in Pairs |-> SelectSeq(f2[p], LAMBDA f : ~Over(f))]
  /\ UNCHANGED <<list, loaded, wire, edits, links>>

Closing(b, p) ==
  /\ wire[b][p] # <<>>
  /\ \/ wire[b][p][1] = Line("bye")
     \/ wire[b][p][Len(wire[b][p])] = Line("eof")
  /\ LinkLost(b, p)

\* An operator of b changes record r: the line the change is shared with.
ChangeLine(b, r, v) ==
  CASE r \in Masks -> Chg(IF v = 0 THEN "-b" ELSE "+b", r, v)
    [] r \notin Masks /\ v = 0 -> Chg("k", r, v)
    [] r \notin Masks /\ v # 0 ->
         Chg(IF list[b][r] = 0 THEN "n" ELSE "a", r, v)

Edit(b, r, v) ==
  LET m == ChangeLine(b, r, v)
  IN  /\ b \in Writers[r]
      /\ edits < MaxEdits
      /\ v \in {0, edits + 1}
      /\ v = 0 => list[b][r] # 0
      /\ edits' = edits + 1
      /\ IF b \in loaded
         THEN Commit(b, [list[b] EXCEPT ![r] = v], Kept(link[b], m), Inbox(b),
                     Shareout(b, link[b], b, m), file)
         ELSE Commit(b, [list[b] EXCEPT ![r] = v], link[b], Inbox(b), Silence, file)
      /\ UNCHANGED <<loaded, links>>

\* Mutants: nobody is offered the list again; our hub is as well.
NotReoffered(e) == FALSE
ReofferedToAll(e) == e.up /\ "share" \in e.status

\* hook_read_userfile: every bot we share with as a hub (as far as the flags
\* tell) is offered the list again, and a file on its way to it is cancelled.
Reoffered(e) == e.up /\ "share" \in e.status /\ "aggressive" \notin e.status

HookEnds(b, ends) ==
  [p \in Bots |->
     LET e == ends[p]
         c == IF "sending" \in e.status THEN Cancel(b, e) ELSE e
     IN  IF Reoffered(e) THEN [c EXCEPT !.status = @ \cup {"offered"}] ELSE e]
HookSent(ends) ==
  [p \in Bots |-> IF Reoffered(ends[p]) THEN <<Line("u?")>> ELSE <<>>]
HookFiles(b, ends) ==
  [p \in Pairs |->
     IF p[1] = b /\ Reoffered(ends[p[2]]) /\ "sending" \in ends[p[2]].status
     THEN CloseSending(file, b, p[2])[p] ELSE file[p]]

\* reload: the list is read back from disk, where r, a record that b's operators
\* change, differs.
Reload(b, r) ==
  /\ b \in Reloaders \cap Writers[r]
  /\ edits < MaxEdits
  /\ edits' = edits + 1
  /\ LET l == [list[b] EXCEPT ![r] = edits + 1]
     IN  IF b \in loaded
         THEN Commit(b, l, HookEnds(b, link[b]), Inbox(b), HookSent(link[b]),
                     HookFiles(b, link[b]))
         ELSE Commit(b, l, link[b], Inbox(b), Silence, file)
  /\ UNCHANGED <<loaded, links>>

\* check_expired_tbufs, once a minute: buffers older than resync-time go (keep
\* says how many of the newest stay), offers that got no answer for two minutes
\* are repeated, and leaves that share with nobody are asked again.
Minutely(b) ==
  \E peers \in {Peers(b)} :
  \E late \in SUBSET {p \in peers : "offered" \in link[b][p].status} :
  \E keep \in [peers -> 0..2] :
    LET asked == {p \in peers :
                    /\ link[b][p].up
                    /\ <<b, p>> \in Pairs
                    /\ {"offered", "share"} \cap link[b][p].status = {}}
    IN  /\ b \in loaded
        /\ \A p \in peers :
             /\ keep[p] <= Len(link[b][p].tbuf)
             /\ "sending" \in link[b][p].status /\ ~SlowFiles
                  => keep[p] = Len(link[b][p].tbuf)
        /\ late # {} => b \in Keen
        /\ \A p \in late \cup asked :
             <<b, p>> \in Pairs /\ Len(wire[p][b]) + Len(wire[b][p]) < MaxWire
        /\ Commit(b, list[b],
             [p \in Bots |->
                IF p \in peers
                THEN [link[b][p] EXCEPT
                        !.tbuf = SubSeq(@, 1, keep[p]),
                        !.status = IF p \in asked THEN @ \cup {"offered"} ELSE @]
                ELSE link[b][p]],
             Inbox(b),
             [p \in Bots |-> IF p \in late \cup asked THEN <<Line("u?")>> ELSE <<>>],
             file)
        /\ UNCHANGED <<loaded, edits, links>>

-----------------------------------------------------------------------------
(* Lines *)

\* b's next line from p is a c line.  In order: b has noticed that p has closed the
\* connection of a file.
Reads(b, p, c) ==
  /\ link[b][p].up
  /\ wire[b][p] # <<>>
  /\ wire[b][p][1].cmd = c
  /\ InOrder /\ <<p, b>> \in Pairs =>
       \A k \in DOMAIN file[<<p, b>>] :
         ~(file[<<p, b>>][k].leaf \in {"connecting", "open"}
             /\ file[<<p, b>>][k].hub = "closed")

\* A line that changes b's flags for p, its buffer for p and nothing else of b.
Answer(b, p, e, ms) ==
  Commit(b, list[b], [link[b] EXCEPT ![p] = e], Read(b, p), To(p, ms), file)

Status(e, add, del) == [e EXCEPT !.status = (@ \ del) \cup add]

\* Mutant: an offer is accepted while another hub's is.
NoOther(b, p) == FALSE

\* Mutant: the bot that offers counts as another.
AnySource(b, p) ==
  \E q \in Bots : link[b][q].up /\ {"share", "aggressive"} \subseteq link[b][q].status

\* We already get our list from another bot.
OtherSource(b, p) ==
  \E q \in Bots \ {p} :
    link[b][q].up /\ {"share", "aggressive"} \subseteq link[b][q].status

\* share_userfileq: refused unless p is our hub and the only one.
Userfileq(b, p) ==
  LET e == FlushTbuf(link[b][p])
  IN  /\ Reads(b, p, "u?")
      /\ IF <<p, b>> \notin Pairs \/ OtherSource(b, p)
         THEN Answer(b, p, e, <<Line("un")>>)
         ELSE Answer(b, p, Status(e, {"share", "getting", "aggressive"}, {}),
                     <<Line("uy")>>)

Ufno(b, p) ==
  LET e == link[b][p]
  IN  /\ Reads(b, p, "un")
      /\ Answer(b, p,
           Status(e, {}, {"offered"} \cup
                    IF "getting" \in e.status THEN {} ELSE {"share", "aggressive"}),
           <<>>)

\* start_sending_users: the users, bans and so on are written to a file, a port
\* is opened for it, and changes are collected from now on; the first lines
\* collected are the bots' records and the "!" that ends the transfer.
JumpStart(l) ==
  LET bots == {r \in BotRecs : l[r] # 0}
  IN  [k \in 1..2 * Cardinality(bots) |->
         LET r == SetToSeq(bots)[(k + 1) \div 2]
         IN  IF k % 2 = 1 THEN Chg("+bh", r, 1) ELSE Chg("a", r, l[r])]

\* Mutant: the "!" is forgotten.
NoEndMark(l) == JumpStart(l)

Collected(l) == Append(JumpStart(l), Line("!"))

Ufyes(b, p) ==
  /\ Reads(b, p, "uy")
  /\ LET e == link[b][p]
         s == Status(e, {"share", "sending"}, {"offered"})
     IN  \/ /\ "offered" \notin e.status
            /\ Answer(b, p, e, <<>>)
         \/ /\ "offered" \in e.status /\ <<b, p>> \in Pairs
            /\ Commit(b, list[b],
                 [link[b] EXCEPT ![p] =
                    QTbuf(NewTbuf(s), Collected(list[b]))],
                 Read(b, p), To(p, <<Line("us")>>),
                 [file EXCEPT ![<<b, p>>] = Append(@, Transfer(list[b],
                    IF link[p][b].up THEN "none" ELSE "closed"))])
         \/ /\ "offered" \in e.status /\ <<b, p>> \in Pairs /\ MayFail
            /\ Answer(b, p, Status(s, {}, {"share", "sending", "aggressive"}),
                      <<Line("e")>>)

\* The transfer that b's next "us" from p is about.
Announced(p, b) ==
  Min({k \in DOMAIN file[<<p, b>>] : file[<<p, b>>][k].leaf = "none"})

\* share_ufsend: the leaf connects to the port; a file we did not ask for, or have
\* no room for, costs the link.
Ufsend(b, p) ==
  LET k == Announced(p, b)
      asked == "share" \in link[b][p].status
  IN  /\ Reads(b, p, "us")
      /\ \/ /\ asked
            /\ Commit(b, list[b],
                      [link[b] EXCEPT ![p] = Status(@, {"getting"}, {})],
                      Read(b, p), Silence,
                      [file EXCEPT ![<<p, b>>][k].leaf = "connecting"])
         \/ /\ ~asked \/ MayFail
            /\ Drop(b, p, link[b], <<Line("e"), Line("bye")>>,
                    [file EXCEPT ![<<p, b>>][k].leaf = "closed"])

\* share_resyncq, share_resync: each side sends the other what it has collected.
Resync(b, p, first) ==
  LET e == link[b][p]
  IN  Answer(b, p, Status(FlushTbuf(e), {"share"}, {"offered"}), first \o e.tbuf[1])

Resyncq(b, p) ==
  /\ Reads(b, p, "r?")
  /\ IF b \in AllowResync /\ CanResync(link[b][p])
     THEN Resync(b, p, <<Line("r!")>>)
     ELSE Answer(b, p, link[b][p], <<Line("rn")>>)

ResyncYes(b, p) ==
  /\ Reads(b, p, "r!")
  /\ IF "offered" \in link[b][p].status /\ CanResync(link[b][p])
     THEN Resync(b, p, <<>>)
     ELSE Answer(b, p, link[b][p], <<>>)

ResyncNo(b, p) ==
  /\ Reads(b, p, "rn")
  /\ Answer(b, p, FlushTbuf(link[b][p]), <<Line("u?")>>)

\* share_endstartup: the transfer is over; our own leaves are offered the list.
Endstartup(b, p) ==
  LET ends == [link[b] EXCEPT ![p] = Status(@, {}, {"getting"})]
  IN  /\ Reads(b, p, "!")
      /\ Commit(b, list[b], HookEnds(b, ends), Read(b, p), HookSent(ends),
                HookFiles(b, ends))

\* Mutant: the other's end of sharing is not taken note of.
EndIgnored(b, p) == Reads(b, p, "e") /\ Answer(b, p, link[b][p], <<>>)

\* share_end
ShareEnd(b, p) ==
  /\ Reads(b, p, "e")
  /\ Commit(b, list[b],
            [link[b] EXCEPT ![p] = Status(Cancel(b, @), {}, Flags)],
            Read(b, p), Silence, CancelFiles(file, b, p, link[b][p]))

\* Mutant: what is removed elsewhere stays.
AddsOnly(l, m) == IF m.val = 0 THEN l ELSE [l EXCEPT ![m.rec] = m.val]

\* The list l after line m, and whether the line is passed on: changes of a user
\* who is not there are dropped; while a file is coming in, flags and bots are
\* applied but not passed on.
Applied(l, m) ==
  CASE m.cmd = "n" /\ l[m.rec] # 0          -> l
    [] m.cmd \in {"a", "k"} /\ l[m.rec] = 0 -> l
    [] m.cmd = "+bh" /\ l[m.rec] # 0        -> l
    [] OTHER                                -> [l EXCEPT ![m.rec] = m.val]

PassedOn(l, m, e) ==
  /\ m.cmd \in {"a", "k"} => l[m.rec] # 0
  /\ m.cmd \in {"a", "+bh"} => "getting" \notin e.status

Change(b, p) ==
  LET m == wire[b][p][1]
      e == link[b][p]
  IN  /\ \E c \in Commands : Reads(b, p, c)
      /\ IF "share" \notin e.status THEN Answer(b, p, e, <<>>)
         ELSE IF PassedOn(list[b], m, e)
         THEN Commit(b, Applied(list[b], m), Kept(link[b], m), Read(b, p),
                     Shareout(b, link[b], p, m), file)
         ELSE Commit(b, Applied(list[b], m), link[b], Read(b, p), Silence, file)

\* null_share: what a bot without the module makes of a line.
NullShare(b, p) ==
  LET e == link[b][p]
  IN  \/ Reads(b, p, "e") /\ Answer(b, p, e, <<>>)
      \/ /\ Reads(b, p, "un")
         /\ Answer(b, p, Status(e, {}, {"offered"} \cup
              IF "getting" \in e.status THEN {} ELSE {"share"}), <<>>)
      \/ /\ \E c \in (Offers \cup Commands) \ {"e", "un", "bye", "eof"} :
              Reads(b, p, c)
         /\ Commit(b, list[b], link[b], Read(b, p), To(p, <<Line("un")>>),
                   IF wire[b][p][1].cmd = "us"
                   THEN [file EXCEPT ![<<p, b>>][Announced(p, b)].leaf = "closed"]
                   ELSE file)

ShareIn(b, p) ==
  /\ UNCHANGED <<loaded, edits, links>>
  /\ \/ /\ b \in loaded
        /\ \/ Userfileq(b, p) \/ Ufno(b, p) \/ Ufyes(b, p) \/ Ufsend(b, p)
           \/ Resyncq(b, p) \/ ResyncYes(b, p) \/ ResyncNo(b, p)
           \/ Endstartup(b, p) \/ ShareEnd(b, p) \/ Change(b, p)
     \/ b \notin loaded /\ NullShare(b, p)

-----------------------------------------------------------------------------
(* The file *)

\* The leaf's connection to the port is accepted; the file and the leaf's
\* acknowledgements travel.
Connect(p, k) ==
  /\ file[p][k].hub = "pending" /\ file[p][k].leaf = "connecting"
  /\ file' = [file EXCEPT ![p][k].hub = "open", ![p][k].leaf = "open"]
  /\ UNCHANGED <<list, loaded, link, wire, edits, links>>

Arrives(p, k) ==
  /\ file[p][k].hub = "open" /\ file[p][k].leaf = "open" /\ ~file[p][k].whole
  /\ file' = [file EXCEPT ![p][k].whole = TRUE]
  /\ UNCHANGED <<list, loaded, link, wire, edits, links>>

\* dcc_get: the leaf has acknowledged everything.  The hub closes its end and
\* sends what was collected meanwhile (dump_resync).
Acked(p, k) ==
  LET h == p[1]
      l == p[2]
      e == link[h][l]
      s == Status(e, {}, {"sending"})
  IN  /\ file[p][k].hub = "open" /\ file[p][k].whole
      /\ Commit(h, list[h],
           [link[h] EXCEPT ![l] = IF e.up THEN FlushTbuf(s) ELSE e],
           Inbox(h), To(l, IF e.up /\ CanResync(e) THEN e.tbuf[1] ELSE <<>>),
           [file EXCEPT ![p][k].hub = "closed"])
      /\ UNCHANGED <<loaded, edits, links>>

\* finish_share: the list is replaced by the file's, except the bots' records.
FinishShare(l, f) ==
  [r \in Recs |-> IF r \in BotRecs THEN l[r] ELSE f.list[r]]

\* eof_dcc_send: the hub has closed.  A whole file is taken over; a short one
\* costs the link.
FileEof(p, k) ==
  LET f == file[p][k]
      l == p[2]
      files == [file EXCEPT ![p][k].leaf = "closed"]
  IN  /\ f.leaf = "open" /\ f.hub = "closed"
      /\ UNCHANGED <<loaded, edits, links>>
      /\ IF f.whole \/ ~link[l][p[1]].up
         THEN Commit(l, IF link[l][p[1]].up /\ l \in loaded
                        THEN FinishShare(list[l], f) ELSE list[l],
                     link[l], Inbox(l), Silence, files)
         ELSE Drop(l, p[1], link[l], <<Line("bye")>>, files)

\* eof_dcc_fork_send, tout_dcc_send: the leaf cannot connect, or nothing more
\* comes.  It stops sharing and says nothing.
FileFails(p, k) ==
  LET f == file[p][k]
      l == p[2]
      e == link[l][p[1]]
  IN  /\ \/ f.leaf = "connecting" /\ (f.hub = "closed" \/ MayFail)
         \/ f.leaf = "open" /\ ~f.whole /\ f.hub = "open" /\ MayFail
      /\ Commit(l, list[l],
           [link[l] EXCEPT ![p[1]] =
              IF e.up THEN Status(e, {}, {"getting", "share"}) ELSE e],
           Inbox(l), Silence, [file EXCEPT ![p][k].leaf = "closed"])
      /\ UNCHANGED <<loaded, edits, links>>

\* eof_dcc_get: the leaf closed its end; transfer_get_timeout: no connection or
\* no acknowledgement.  Both cost the link.
SendFails(p, k) ==
  LET f == file[p][k]
      h == p[1]
      e == link[h][p[2]]
      stalled == \/ f.hub = "pending" /\ (f.leaf = "closed" \/ MayFail)
                 \/ f.hub = "open" /\ ~f.whole /\ MayFail
      s == IF stalled THEN Status(e, {}, {"sending", "share"}) ELSE e
      files == [file EXCEPT ![p][k].hub = "closed"]
  IN  /\ stalled \/ (f.hub = "open" /\ f.leaf = "closed")
      /\ UNCHANGED <<loaded, edits, links>>
      /\ IF e.up
         THEN Drop(h, p[2], [link[h] EXCEPT ![p[2]] = s], <<Line("bye")>>, files)
         ELSE Commit(h, list[h], link[h], Inbox(h), Silence, files)

Files(p, k) ==
  \/ Connect(p, k) \/ Arrives(p, k) \/ Acked(p, k)
  \/ FileEof(p, k) \/ FileFails(p, k) \/ SendFails(p, k)

-----------------------------------------------------------------------------
(* The module itself *)

\* share_close: sharing is ended with everybody and every buffer dropped.
Unload(b) ==
  LET sharing == {p \in Peers(b) : link[b][p].up /\ "share" \in link[b][p].status}
  IN  /\ b \in Unloaders \cap loaded
      /\ Commit(b, list[b],
           [p \in Bots |->
              [link[b][p] EXCEPT !.tbuf = <<>>,
                                 !.status = IF p \in sharing THEN {} ELSE @]],
           Inbox(b),
           [p \in Bots |-> IF p \in sharing THEN <<Line("e")>> ELSE <<>>],
           [q \in Pairs |->
              LET p == IF q[1] = b THEN q[2] ELSE q[1]
              IN  IF b \in {q[1], q[2]} /\ p \in sharing
                  THEN CancelFiles(file, b, p, link[b][p])[q] ELSE file[q]])
      /\ loaded' = loaded \ {b}
      /\ UNCHANGED <<edits, links>>

\* share_start: the links that are up are not asked again before the next minute.
Load(b) ==
  /\ b \in Bots \ loaded
  /\ edits < MaxEdits
  /\ edits' = edits + 1
  /\ loaded' = loaded \cup {b}
  /\ UNCHANGED <<list, link, wire, file, links>>

-----------------------------------------------------------------------------
Init ==
  /\ list \in [Bots -> [Recs -> {0}]]
  /\ loaded = Bots
  /\ link = [b \in Bots |-> [p \in Bots |-> DownEnd]]
  /\ wire = [b \in Bots |-> [p \in Bots |-> <<>>]]
  /\ file = [p \in Pairs |-> <<>>]
  /\ edits = 0
  /\ links = 0

Next ==
  \/ \E p \in Pairs : LinkUp(p[1], p[2]) \/ Parts(p[1], p[2]) \/ \E k \in DOMAIN file[p] : Files(p, k)
  \/ \E b \in Bots :
       \/ \E p \in Peers(b) : Breaks(b, p) \/ Closing(b, p) \/ ShareIn(b, p)
       \/ \E r \in Recs : Reload(b, r) \/ \E v \in 0..MaxEdits : Edit(b, r, v)
       \/ Minutely(b) \/ Unload(b) \/ Load(b)

Spec == Init /\ [][Next]_vars

\* A bot reads what it is sent and serves its files; once a minute it looks for
\* leaves it does not share with, and links that are down are dialled again.
Fairness ==
  /\ \A p \in Pairs :
       /\ WF_vars(LinkUp(p[1], p[2]))
       /\ WF_vars(\E k \in DOMAIN file[p] : Files(p, k))
  /\ \A b \in Bots :
       /\ WF_vars(Minutely(b))
       /\ \A p \in Bots : WF_vars(Closing(b, p)) /\ WF_vars(ShareIn(b, p))

FairSpec == Spec /\ Fairness

-----------------------------------------------------------------------------
(* Properties *)

TypeOK ==
  /\ list \in [Bots -> [Recs -> 0..MaxEdits]]
  /\ loaded \subseteq Bots
  /\ \A b, p \in Bots :
       /\ link[b][p].up \in BOOLEAN
       /\ link[b][p].status \subseteq Flags
       /\ ~link[b][p].up => link[b][p].status = {} /\ wire[b][p] = <<>>
       /\ wire[b][p] \in Seq(Lines)
       /\ link[b][p].tbuf \in Seq(Seq(Lines))
  /\ edits \in 0..MaxEdits /\ links \in 0..MaxLinks

\* Between h and l nothing is under way: no line, no file, no offer.
Still(p) ==
  /\ link[p[1]][p[2]].up /\ link[p[2]][p[1]].up
  /\ wire[p[1]][p[2]] = <<>> /\ wire[p[2]][p[1]] = <<>>
  /\ file[p] = <<>>
  /\ "offered" \notin link[p[1]][p[2]].status

Shares(b, p) == link[b][p].up /\ "share" \in link[b][p].status

Same(p) == \A r \in Users \cup Masks :
             p[2] \notin Writers[r] => list[p[1]][r] = list[p[2]][r]

\* A hub and a leaf that share, with nothing under way, have the same users and
\* bans (of those that the leaf's operators leave alone): no change made before,
\* during or after the transfer is missing at the leaf.
InSync ==
  \A p \in Pairs :
    /\ Still(p) /\ Shares(p[1], p[2]) /\ Shares(p[2], p[1])
    /\ \A q \in Bots : "getting" \notin link[p[1]][q].status
    => Same(p)

\* A hub that thinks it shares with a leaf, with nothing under way, really does:
\* the leaf takes its changes and neither waits for the end of a transfer.  (A hub
\* that shares with nobody asks again within a minute; one that is wrong about it
\* never does.)
EndsAgree ==
  \A p \in Pairs :
    Still(p) /\ Shares(p[1], p[2]) =>
      /\ Shares(p[2], p[1])
      /\ "getting" \notin link[p[2]][p[1]].status
      /\ "sending" \notin link[p[1]][p[2]].status

\* Only the hub of two bots ever offers its list.
OnlyHubsOffer ==
  \A p \in Pairs : \A k \in DOMAIN wire[p[1]][p[2]] : wire[p[1]][p[2]][k] # Line("u?")

\* A file never outlives the link of its two bots: what ends it later (eof_dcc_get,
\* transfer_get_timeout, eof_dcc_send) looks that link up to close it, and takes the
\* first connection of the bot for it when there is none.
FilesHaveLinks ==
  \A p \in Pairs : \A k \in DOMAIN file[p] :
    /\ file[p][k].hub # "closed" => link[p[1]][p[2]].up
    /\ file[p][k].leaf = "open" /\ ~file[p][k].whole => link[p[2]][p[1]].up

\* No bot takes its list from two hubs.
OneSource ==
  \A p, q \in Pairs :
    p[2] = q[2] /\ Shares(p[2], p[1]) /\ Shares(q[2], q[1]) => p = q

\* Lists go from hubs to leaves only, and each leaf takes one: the handlers see
\* to both by the flags of the links, without asking who is whose hub.
Directed == OneSource /\ OnlyHubsOffer

=============================================================================
