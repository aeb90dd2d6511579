-------------------------------- MODULE Notes --------------------------------
(***************************************************************************)
(* Notes (src/mod/notes.mod, add_note in botmsg.c, bot_priv in botcmd.c):    *)
(* short messages between users of a botnet.  A note is given to a session   *)
(* of its addressee, or stored in the bot's note file, or forwarded to the   *)
(* address the addressee has left; between bots it is a line that is passed  *)
(* on along the tree, and the bot it was for tells its sender what became of *)
(* it.  A user reads and erases notes by their numbers in the file.          *)
(*                                                                         *)
(* The tree of bots is given and only loses links here; allow-fwd is set.    *)
(***************************************************************************)
EXTENDS Naturals, Sequences, SequencesExt, FiniteSets

CONSTANTS
  Bots, Hop,        \* Hop[b][c]: the neighbour of b on the way to c
  Hands, BotHands,  \* handles; those of bot records
  Known,            \* the handles each bot has a record of at first
  Addresses,        \* what notes are sent to: records [hand, at, sock]
  Forwards,         \* [Bots -> [Hands -> the address left for forwarding, or None]]
  Bound,            \* <<bot, hand>>: a script's note bind takes what is for hand
  Erasures,         \* the lists of numbers that are erased: sequences of [lo, hi]
  Online,           \* the sessions there are at first
  Changes,          \* what else an instance changes: "handles", "ignores", "links", "files"
  MaxNotes, MaxSends, MaxOps

VARIABLES
  users,    \* [Bots -> SUBSET Hands]
  fwd,      \* [Bots -> [Hands -> address or None]]
  ignores,  \* [Bots -> [Hands -> SUBSET Hands]]: whose notes they do not want
  dcc,      \* [Bots -> Seq of sessions]
  notefile, \* [Bots -> Seq of notes]
  tandbot,  \* [Bots -> the bots each knows]
  wire,     \* [<<from, to>> -> Seq of lines]
  ends,     \* [note -> how it ended]: one word, or more if it was doubled
  told,     \* [note -> what its sender has been told of it]
  sent, ops
vars == <<users, fwd, ignores, dcc, notefile, tandbot, wire, ends, told, sent, ops>>

None == [hand |-> "", at |-> "", sock |-> 0]
Local(h) == [hand |-> h, at |-> "", sock |-> 0]
Links == {<<b, c>> \in Bots \X Bots : b # c /\ Hop[b][c] = c}
Ids == 1..MaxSends
Note(id) == [id |-> id, word |-> "note", tags |-> <<>>]
About(id, word) == [id |-> id, word |-> word, tags |-> <<>>]

Init ==
  /\ users = Known
  /\ fwd = Forwards
  /\ ignores = [b \in Bots |-> [h \in Hands |-> {}]]
  /\ dcc = Online /\ notefile = [b \in Bots |-> <<>>]
  /\ tandbot = [b \in Bots |-> Bots \ {b}] /\ wire = [l \in Links |-> <<>>]
  /\ ends = [i \in Ids |-> <<>>] /\ told = [i \in Ids |-> {}]
  /\ sent = 0 /\ ops = 0

Op == ops < MaxOps /\ ops' = ops + 1

-----------------------------------------------------------------------------
(* Sending.  What becomes of a note is a record: the status that is returned, *)
(* one deed, and what is said to the session it was sent from.               *)

Tell(status, deed, say) == [status |-> status, deed |-> deed, say |-> say]
Ended(how) == [kind |-> "end", how |-> how]
\* Leading tags of a stored note: whom it was forwarded by, and whom from at first.
Vias(msg) == SelectSeq(msg.tags, LAMBDA t : t.kind = "via")
Origin(from, msg) ==
  LET fors == SelectSeq(msg.tags, LAMBDA t : t.kind = "for")
  IN IF from.hand = "" /\ fors # <<>> THEN Last(fors).who ELSE from
NumNotes(b, h) == Len(SelectSeq(notefile[b], LAMBDA n : n.to = h))

\* tcl_storenote's look at a forwarding address of to's: not to oneself, not to one who forwards
\* back, not for a note that says it has been forwarded but comes from no bot, not through
\* where it has been, and only to a bot that is there.
\* (Local addresses are not looked for where a note has been: three users of one bot that forward
\* to each other in turn, reached by a note that a bot forwarded, pass it on until Tcl gives up.)
\* Mutant: where the note has been is not looked at.
MayForwardAgain(b, from, to, msg) ==
  LET f == fwd[b][to]
  IN /\ f # None /\ (f.at = b => f.hand # to /\ f.hand \in users[b] /\ fwd[b][f.hand].hand # to)
     /\ (f.at # b => f.at \in tandbot[b]) /\ (from.hand = "" \/ msg.tags = <<>>)
MayForward(b, from, to, msg) ==
  LET f == fwd[b][to]
  IN /\ f # None
     /\ f.at = b => /\ f.hand # to /\ f.hand \in users[b]
                    /\ fwd[b][f.hand].hand # to
     /\ from.hand = "" \/ msg.tags = <<>>
     /\ f.at # b => /\ f.at \in tandbot[b]
                    /\ ~\E i \in DOMAIN msg.tags :
                          msg.tags[i] = [kind |-> "via", who |-> [f EXCEPT !.sock = 0]]

\* The sessions of b that a note to `to' may go to, in order; those that count as away.
Open(b, to) ==
  SelectSeq([i \in DOMAIN dcc[b] |-> i],
            LAMBDA i : dcc[b][i].hand = to.hand /\ to.sock \in {0, dcc[b][i].sock})
MatchNoteIgnore(b, h, from) == from.hand \in ignores[b][h]
IsAway(b, i, idx) == dcc[b][i].away /\ idx # -2

RECURSIVE AddNote(_, _, _, _, _)
StoreNote(b, from, to, msg, idx) ==
  IF MayForward(b, from, to, msg)
  THEN LET f == fwd[b][to]
           via == <<[kind |-> "via", who |-> [hand |-> to, at |-> b, sock |-> 0]]>>
           far == f.at # b /\ from.at # ""
           r == AddNote(b, f, IF far THEN [hand |-> "", at |-> b, sock |-> 0] ELSE from,
                        [msg EXCEPT !.tags = IF far THEN via \o <<[kind |-> "for", who |-> from]>> \o @
                                                     ELSE via \o @], idx)
       IN Tell("forwarded", r.deed, r.say \cup IF r.status = "given" THEN {"forwarded"} ELSE {})
  ELSE IF NumNotes(b, to) >= MaxNotes THEN Tell("stored", Ended("full"), {"full"})
  ELSE Tell("stored",
            [kind |-> "store",
             note |-> [to |-> to, from |-> Origin(from, msg), id |-> msg.id, via |-> Vias(msg)]],
            {"stored"})

\* add_note.  idx is -2 for a line from a bot itself, -1 for nobody who is here to be told,
\* else the session that sends.
AddNote(b, to, from, msg, idx) ==
  IF to.at \notin {"", b}
  THEN IF to.at \notin tandbot[b] THEN Tell("nouser", Ended("nobot"), {"nobot"})
       ELSE Tell("given",
                 [kind |-> "send", to |-> to, msg |-> msg,
                  from |-> [from EXCEPT !.at = IF @ = "" /\ from.hand # b THEN b ELSE @,
                                        !.sock = IF idx > 0 THEN dcc[b][idx].sock ELSE @]],
                 {})
  ELSE LET who == [from EXCEPT !.sock = 0]
           open == Open(b, to)
           ready == SelectSeq(open, LAMBDA i : ~IsAway(b, i, idx))
           before == IF ready = <<>> THEN open
                     ELSE SelectSeq(open, LAMBDA i : i < ready[1])
           away == IF before # <<>> THEN {"away"} ELSE {}
       IN IF idx # -2 /\ <<b, to.hand>> \in Bound THEN Tell("script", Ended("script"), {})
          ELSE IF to.hand \notin users[b] \/ to.hand \in BotHands
               THEN Tell("nouser", Ended("nouser"), {"nouser"})
          ELSE IF MatchNoteIgnore(b, to.hand, from) THEN Tell("refused", Ended("refused"), {"refused"})
          ELSE IF ready # <<>>
               THEN Tell("given", [kind |-> "give", session |-> ready[1], msg |-> msg], away)
          ELSE IF idx = -2 THEN Tell("given", Ended("dropped"), {})
          ELSE LET r == StoreNote(b, who, to.hand, msg, idx)
               IN Tell(IF r.status = "forwarded" THEN "forwarded"
                       ELSE IF away # {} THEN "away" ELSE "stored",
                       r.deed, r.say \cup away)

-----------------------------------------------------------------------------
(* What a deed does to the bot's sessions, its file and its wires.  A line   *)
(* that tells of a note is shown to its sender.                              *)

Send(b, from, to, msg) == wire' = [wire EXCEPT ![<<b, Hop[b][to.at]>>] = Append(@, [from |-> from, to |-> to, msg |-> msg])]
Say(id, say) == told' = [told EXCEPT ![id] = @ \cup say]
End(id, how) == ends' = [ends EXCEPT ![id] = Append(@, how)]

Do(b, deed, id) ==
  CASE deed.kind = "end" -> End(id, deed.how) /\ UNCHANGED <<notefile, wire>>
    [] deed.kind = "give" -> End(id, "given") /\ UNCHANGED <<notefile, wire>>
    [] deed.kind = "store" -> notefile' = [notefile EXCEPT ![b] = Append(@, deed.note)] /\ UNCHANGED <<ends, wire>>
    [] deed.kind = "send" -> Send(b, deed.from, deed.to, deed.msg) /\ UNCHANGED <<ends, notefile>>
kept == <<users, fwd, ignores, dcc, tandbot>>

\* .note from a session.
CmdNote(b, i, to) ==
  /\ sent < MaxSends /\ sent' = sent + 1
  /\ \E r \in {AddNote(b, to, Local(dcc[b][i].hand), Note(sent'), i)} :
       Do(b, r.deed, sent') /\ Say(sent', r.say)
  /\ UNCHANGED <<kept, ops>>

\* The script command sendnote: whom from is its choice.
SendNote(b, h, to) ==
  /\ sent < MaxSends /\ sent' = sent + 1
  /\ \E r \in {AddNote(b, to, Local(h), Note(sent'), -1)} :
       Do(b, r.deed, sent') /\ Say(sent', {IF r.deed.kind = "send" THEN "sent" ELSE r.status} \ {"script"})
  /\ UNCHANGED <<kept, ops>>

\* /msg bot NOTES <pass> TO: neither forwarded nor refused, and stored without a limit.
MsgTo(b, h, to) ==
  /\ sent < MaxSends /\ sent' = sent + 1
  /\ h \in users[b] \ BotHands
  /\ IF to \notin users[b] \/ to \in BotHands
     THEN End(sent', "nouser") /\ Say(sent', {"nouser"}) /\ UNCHANGED notefile
     ELSE /\ Say(sent', {"accepted"})
          /\ IF \E i \in DOMAIN dcc[b] : dcc[b][i].hand = to /\ ~dcc[b][i].away
             THEN End(sent', "given") /\ UNCHANGED notefile
             ELSE /\ notefile' = [notefile EXCEPT ![b] =
                                   Append(@, [to |-> to, from |-> Local(h), id |-> sent', via |-> <<>>])]
                  /\ UNCHANGED ends
  /\ UNCHANGED <<kept, wire, ops>>

-----------------------------------------------------------------------------
(* Lines between bots.                                                       *)

\* bot_priv, first half: what b does with a line of another bot that is for it.
\* A bot's own line is never stored; a user's note is answered, unless a bot forwarded it.
Received(b, c, line) ==
  LET who == [line.from EXCEPT !.sock = 0]
      id == line.msg.id
  IN IF line.from.at = ""
     THEN \E a \in {AddNote(b, [line.to EXCEPT !.at = ""], who, line.msg, -2)} :
            /\ Say(id, IF a.deed.kind = "give" THEN {line.msg.word} ELSE {}) /\ UNCHANGED <<ends, notefile>>
            /\ wire' = [wire EXCEPT ![<<c, b>>] = Tail(@)]
     ELSE \E r \in {AddNote(b, Local(line.to.hand), who, line.msg, -1)} :
          LET answer == line.from.hand # "" /\ r.status # "script"
              ack == [from |-> Local(b), to |-> who, msg |-> About(id, r.status)]
              on(rest) == IF r.deed.kind = "send"
                          THEN [rest EXCEPT ![<<b, Hop[b][r.deed.to.at]>>] =
                                  Append(@, [from |-> r.deed.from, to |-> r.deed.to, msg |-> r.deed.msg])]
                          ELSE rest
              answered(w) == IF answer THEN [w EXCEPT ![<<b, c>>] = Append(@, ack)] ELSE w
          IN /\ wire' = answered(on([wire EXCEPT ![<<c, b>>] = Tail(@)]))
             /\ notefile' = IF r.deed.kind = "store" THEN [notefile EXCEPT ![b] = Append(@, r.deed.note)] ELSE notefile
             /\ ends' = CASE r.deed.kind = "end" -> [ends EXCEPT ![id] = Append(@, r.deed.how)]
                          [] r.deed.kind = "give" -> [ends EXCEPT ![id] = Append(@, "given")]
                          [] OTHER -> ends
             /\ UNCHANGED told

\* The bot a line comes from, and the neighbour b knows on the way to it.
From(line) == IF line.from.at # "" THEN line.from.at ELSE line.from.hand
Dropped(c, b, line, how) ==
  /\ wire' = [wire EXCEPT ![<<c, b>>] = Tail(@)]
  /\ ends' = IF line.msg.word = "note" THEN [ends EXCEPT ![line.msg.id] = Append(@, how)] ELSE ends
  /\ UNCHANGED <<notefile, told>>

BotPriv(c, b) ==
  /\ wire[<<c, b>>] # <<>> /\ "msg" \in DOMAIN wire[<<c, b>>][1]
  /\ LET line == wire[<<c, b>>][1]
         next == IF line.to.at \in tandbot[b] THEN Hop[b][line.to.at] ELSE ""
     IN CASE From(line) \notin tandbot[b] \/ Hop[b][From(line)] # c -> Dropped(c, b, line, "fake")
          [] line.to.at = b -> Received(b, c, line)
          [] next = "" -> Dropped(c, b, line, "nobot")
          [] OTHER -> /\ wire' = [wire EXCEPT ![<<c, b>>] = Tail(@), ![<<b, next>>] = Append(@, line)]
                      /\ UNCHANGED <<notefile, ends, told>>
  /\ UNCHANGED <<kept, sent, ops>>

\* A link breaks: what is on it is lost, and both sides forget what was behind it and say so.
Behind(b, c) == {d \in Bots \ {b} : Hop[b][d] = c}
Forget(b, c, lost, w) ==
  [l \in Links |-> IF l[1] = b /\ l[2] # c /\ lost # {} THEN Append(w[l], [gone |-> lost]) ELSE w[l]]
LostNotes(l) == {wire[l][i].msg.id : i \in {j \in DOMAIN wire[l] : "msg" \in DOMAIN wire[l][j] /\ wire[l][j].msg.word = "note"}}
Break(b, c) ==
  /\ Op /\ c \in tandbot[b] /\ b \in tandbot[c]
  /\ LET atB == Behind(b, c) \cap tandbot[b]
         atC == Behind(c, b) \cap tandbot[c]
     IN /\ tandbot' = [tandbot EXCEPT ![b] = @ \ atB, ![c] = @ \ atC]
        /\ wire' = Forget(b, c, atB, Forget(c, b, atC, [wire EXCEPT ![<<b, c>>] = <<>>, ![<<c, b>>] = <<>>]))
  /\ ends' = [i \in Ids |-> IF i \in LostNotes(<<b, c>>) \cup LostNotes(<<c, b>>) THEN Append(ends[i], "broken") ELSE ends[i]]
  /\ UNCHANGED <<users, fwd, ignores, dcc, notefile, told, sent>>
\* bot_unlinked.
Unlinked(c, b) ==
  /\ wire[<<c, b>>] # <<>> /\ "gone" \in DOMAIN wire[<<c, b>>][1]
  /\ LET lost == wire[<<c, b>>][1].gone \cap tandbot[b]
     IN /\ tandbot' = [tandbot EXCEPT ![b] = @ \ lost]
        /\ wire' = Forget(b, c, lost, [wire EXCEPT ![<<c, b>>] = Tail(@)])
  /\ UNCHANGED <<users, fwd, ignores, dcc, notefile, ends, told, sent, ops>>

-----------------------------------------------------------------------------
(* The note file, read by numbers.  A list is a sequence of [lo, hi]; 0 is a  *)
(* bound that is left out: the first note, or the last there may be.         *)

NotesParse(list) ==
  [i \in DOMAIN list |-> [lo |-> IF list[i].lo = 0 THEN 1 ELSE list[i].lo,
                          hi |-> IF list[i].hi = 0 THEN MaxNotes ELSE list[i].hi]]
NotesIn(dl, n) == \E i \in DOMAIN dl : dl[i].lo <= n /\ n <= dl[i].hi
All == <<[lo |-> 0, hi |-> 0]>>
OrAll(list) == IF list = <<>> THEN All ELSE list

\* The number the note at place i of b's file has for its owner.
NumberOf(b, i) == Len(SelectSeq(SubSeq(notefile[b], 1, i), LAMBDA n : n.to = notefile[b][i].to))
\* Mutant: the notes are counted whosever they are.
ChosenUncounted(b, h, list) == {i \in DOMAIN notefile[b] : NotesIn(NotesParse(OrAll(list)), i)}
Chosen(b, h, list) ==
  {i \in DOMAIN notefile[b] : notefile[b][i].to = h /\ NotesIn(NotesParse(OrAll(list)), NumberOf(b, i))}
Without(b, places) == LET left == SelectSeq([i \in DOMAIN notefile[b] |-> i], LAMBDA i : i \notin places)
                      IN [k \in DOMAIN left |-> notefile[b][left[k]]]
TakeOut(b, places, how) ==
  /\ notefile' = [notefile EXCEPT ![b] = Without(b, places)]
  /\ ends' = [id \in Ids |-> IF \E i \in places : notefile[b][i].id = id THEN Append(ends[id], how) ELSE ends[id]]
unsent == <<users, fwd, ignores, dcc, tandbot, wire, told, sent>>

\* .notes erase, /msg bot NOTES <pass> ERASE; the script command erasenotes.
NotesDel(b, h, list) ==
  Op /\ TakeOut(b, Chosen(b, h, list), "erased") /\ UNCHANGED unsent
TclEraseNotes(b, h, list) ==
  Op /\ h \in users[b] /\ TakeOut(b, Chosen(b, h, list), "erased") /\ UNCHANGED unsent
\* .notes index and read, the script commands notes and listnotes: what they show.
NotesIndex(b, h) == [n \in 1..NumNotes(b, h) |-> n]
NotesRead(b, h, list) == {notefile[b][i].id : i \in Chosen(b, h, list)}
TclNotes(b, h, list) == [k \in 1..Cardinality(Chosen(b, h, list)) |-> notefile[b][SetToSortSeq(Chosen(b, h, list), <)[k]]]
TclListNotes(b, h, list) == {n \in 1..NumNotes(b, h) : NotesIn(NotesParse(list), n)}

\* Every hour: notes that are too old, which are the first of the file, and notes for nobody.
Hourly(b) ==
  /\ Op
  /\ \E k \in 0..Len(notefile[b]) :
       TakeOut(b, 1..k \cup {i \in DOMAIN notefile[b] : notefile[b][i].to \notin users[b]}, "expired")
  /\ UNCHANGED unsent

\* A changed handle takes the notes, the sessions and the user's entries with it.
Chhand(b, h, g) ==
  /\ Op /\ h \in users[b] \ BotHands /\ g \notin users[b]
  /\ users' = [users EXCEPT ![b] = (@ \ {h}) \cup {g}]
  /\ fwd' = [fwd EXCEPT ![b] = [@ EXCEPT ![h] = None, ![g] = fwd[b][h]]]
  /\ ignores' = [ignores EXCEPT ![b] = [@ EXCEPT ![h] = {}, ![g] = ignores[b][h]]]
  /\ dcc' = [dcc EXCEPT ![b] = [i \in DOMAIN @ |-> [@[i] EXCEPT !.hand = IF @ = h THEN g ELSE @]]]
  /\ notefile' = [notefile EXCEPT ![b] = [i \in DOMAIN @ |-> [@[i] EXCEPT !.to = IF @ = h THEN g ELSE @]]]
  /\ UNCHANGED <<tandbot, wire, ends, told, sent>>
Adduser(b, h) ==
  /\ Op /\ h \notin users[b] /\ users' = [users EXCEPT ![b] = @ \cup {h}]
  /\ UNCHANGED <<fwd, ignores, dcc, notefile, tandbot, wire, ends, told, sent>>
Deluser(b, h) ==
  /\ Op /\ h \in users[b] \ BotHands /\ ~\E i \in DOMAIN dcc[b] : dcc[b][i].hand = h
  /\ users' = [users EXCEPT ![b] = @ \ {h}]
  /\ fwd' = [fwd EXCEPT ![b][h] = None] /\ ignores' = [ignores EXCEPT ![b][h] = {}]
  /\ UNCHANGED <<dcc, notefile, tandbot, wire, ends, told, sent>>

-----------------------------------------------------------------------------
(* Addresses for forwarding, refusals, sessions.                             *)

CmdFwd(b, h, to) ==
  /\ Op /\ h \in users[b] /\ fwd' = [fwd EXCEPT ![b][h] = IF to.at = "" THEN None ELSE to]
  /\ UNCHANGED <<users, ignores, dcc, notefile, tandbot, wire, ends, told, sent>>
AddNoteIgnore(set, g) == set \cup {g}
DelNoteIgnore(set, g) == set \ {g}
PlsNoteign(b, h, g) ==
  /\ Op /\ h \in users[b] /\ ignores' = [ignores EXCEPT ![b][h] = AddNoteIgnore(@, g)]
  /\ UNCHANGED <<users, fwd, dcc, notefile, tandbot, wire, ends, told, sent>>
MnsNoteign(b, h, g) ==
  /\ Op /\ h \in users[b] /\ ignores' = [ignores EXCEPT ![b][h] = DelNoteIgnore(@, g)]
  /\ UNCHANGED <<users, fwd, dcc, notefile, tandbot, wire, ends, told, sent>>
\* A session begins and shows the index, ends, or is away and back.
Chon(b, h, s) ==
  /\ Op /\ h \in users[b] \ BotHands /\ ~\E i \in DOMAIN dcc[b] : dcc[b][i].sock = s
  /\ dcc' = [dcc EXCEPT ![b] = Append(@, [hand |-> h, sock |-> s, away |-> FALSE])]
  /\ UNCHANGED <<users, fwd, ignores, notefile, tandbot, wire, ends, told, sent>>
Chof(b, i) ==
  /\ Op /\ dcc' = [dcc EXCEPT ![b] = RemoveAt(@, i)]
  /\ UNCHANGED <<users, fwd, ignores, notefile, tandbot, wire, ends, told, sent>>
Away(b, i) ==
  /\ Op /\ dcc' = [dcc EXCEPT ![b][i].away = ~@]
  /\ UNCHANGED <<users, fwd, ignores, notefile, tandbot, wire, ends, told, sent>>

Next ==
  \/ \E b \in Bots : \E to \in Addresses :
       \/ \E i \in DOMAIN dcc[b] : CmdNote(b, i, to)
       \/ \E h \in users[b] \ BotHands : SendNote(b, h, to)
  \/ \E l \in Links : BotPriv(l[1], l[2]) \/ Unlinked(l[1], l[2])
  \/ \E b \in Bots, h \in Hands : CmdFwd(b, h, None) \/ CmdFwd(b, h, Forwards[b][h])
  \/ \E b \in Bots : \/ \E h \in Hands, s \in {1, 2} : Chon(b, h, s)
                     \/ \E i \in DOMAIN dcc[b] : Chof(b, i) \/ Away(b, i)
  \/ "links" \in Changes /\ \E l \in Links : Break(l[1], l[2])
  \/ "ignores" \in Changes /\ \E b \in Bots, h, g \in Hands : PlsNoteign(b, h, g) \/ MnsNoteign(b, h, g)
  \/ "handles" \in Changes /\ \E b \in Bots, h \in Hands : \/ Adduser(b, h) \/ Deluser(b, h)
                                                           \/ \E g \in Hands : Chhand(b, h, g)
  \/ "files" \in Changes /\ \E b \in Bots : \/ Hourly(b)
                                            \/ \E h, g \in Hands : MsgTo(b, h, g)
                                            \/ \E h \in Hands, list \in Erasures : NotesDel(b, h, list) \/ TclEraseNotes(b, h, list)
Spec == Init /\ [][Next]_vars

-----------------------------------------------------------------------------
TypeOK ==
  /\ \A b \in Bots : users[b] \subseteq Hands /\ tandbot[b] \subseteq Bots \ {b}
  /\ \A b \in Bots, i \in Ids : Len(notefile[b]) <= MaxSends /\ told[i] \subseteq
       {"given", "sent", "stored", "forwarded", "away", "full", "refused", "nouser", "nobot", "accepted"}

\* Every note that was sent is in one place: in one note file, on one wire, or at one end; and
\* none is taken for a fake, though links break while it is on its way.
Copies(id) ==
  LET filed(b) == Cardinality({i \in DOMAIN notefile[b] : notefile[b][i].id = id})
      wired(l) == Cardinality({i \in DOMAIN wire[l] : "msg" \in DOMAIN wire[l][i] /\ wire[l][i].msg.id = id
                                                      /\ wire[l][i].msg.word = "note"})
  IN FoldSet(LAMBDA b, n : filed(b) + n, 0, Bots) + FoldSet(LAMBDA l, n : wired(l) + n, 0, Links) + Len(ends[id])
Accounted == \A id \in Ids : Copies(id) = (IF id <= sent THEN 1 ELSE 0) /\ "fake" \notin Range(ends[id])

\* What the sender of a note is told is so: given notes were given, refused ones went nowhere, a
\* stored one is in a file, unless its owner erased it or it grew old.  (A bot that is asked to
\* store a note in a full box says over the wire that it has: add_note never returns NOTE_FULL.)
Stored(id) == \E b \in Bots : \E i \in DOMAIN notefile[b] : notefile[b][i].id = id
Honest ==
  \A id \in Ids :
    /\ "given" \in told[id] => ends[id] = <<"given">>
    /\ "stored" \in told[id] => Stored(id) \/ ends[id][1] \in {"erased", "expired", "full"}
    /\ "refused" \in told[id] => ends[id] = <<"refused">>
    /\ "nouser" \in told[id] => ends[id][1] \in {"nouser", "nobot"}
    /\ "full" \in told[id] => ends[id] = <<"full">>
    /\ "nobot" \in told[id] => ends[id] = <<"nobot">>

\* No note goes in a circle: it is forwarded by nobody twice.
NoCircle ==
  /\ \A l \in Links : \A i \in DOMAIN wire[l] : "msg" \in DOMAIN wire[l][i] => IsInjective(Vias(wire[l][i].msg))
  /\ \A b \in Bots : \A i \in DOMAIN notefile[b] : IsInjective(notefile[b][i].via)

\* The numbers that are listed are those of the notes that are read and erased.
ViewsSame ==
  \A b \in Bots : \A h \in users[b], list \in Erasures \ {<<>>} :
    /\ {NumberOf(b, i) : i \in Chosen(b, h, list)} = TclListNotes(b, h, list)
    /\ {TclNotes(b, h, list)[k].id : k \in DOMAIN TclNotes(b, h, list)} = NotesRead(b, h, list)
    /\ TclListNotes(b, h, list) \subseteq Range(NotesIndex(b, h))

\* Nobody's note is lost for what others do: a note leaves a file by its owner's command, or when
\* it has expired; the others keep their order.
FileKeeps ==
  notefile' # notefile =>
    \A b \in Bots :
      LET ids == [i \in DOMAIN notefile[b] |-> notefile[b][i].id]
          then == [i \in DOMAIN notefile'[b] |-> notefile'[b][i].id]
          kin(s, t) == SelectSeq(s, LAMBDA x : x \in Range(t))
      IN /\ kin(ids, then) = kin(then, ids)
         /\ \A h \in Hands, list \in Erasures :
              NotesDel(b, h, list) => \A i \in DOMAIN ids : ids[i] \in Range(then) \/ notefile[b][i].to = h
==============================================================================
