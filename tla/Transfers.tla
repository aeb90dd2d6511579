----------------------------- MODULE Transfers -----------------------------
(***************************************************************************)
(* Files sent to and by people (transfer.mod, and what filesys.mod has to   *)
(* do with it): who gets how many at once and who waits, the blocks and the *)
(* acknowledgements, resuming, and what is sent to the bot.                 *)
(* A file is so many units, numbered from 1; what is sent are the numbers.  *)
(*                                                                         *)
(* Left out: the user file, which bots send each other (Share), encrypted   *)
(* connections, numbers of four bytes that are too small for the file.      *)
(***************************************************************************)
EXTENDS Integers, Sequences, FiniteSets, FiniteSetsExt, SequencesExt

CONSTANTS
  Users,        \* on IRC and in the file area by the same name
  Files, Length,\* Length[f]: how long f is
  First,        \* those that are in the file area
  Uploads,      \* those that may be sent to it
  Limit,        \* max-dloads
  Block,        \* dcc-block, 0 for everything at once
  Slots,        \* of the connection table
  AreaHere,     \* whether the file area is the directory that the bot runs in
  CopyToTmp,    \* copy-to-tmp
  Fortunes,     \* what may become of an attempt: "OK", "NOSOCK", "FCOPY"
  Offsets,      \* where somebody may want to go on from
  Styles,       \* how clients count: "all" of the file, "own" for what they received
  MayBlock,     \* whether a connection may take less than it is given
  MaySplit,     \* whether an acknowledgement may be read in two pieces
  MaxAsked      \* bound: requests, cancellations, closings by scripts

VARIABLES xfer, asked
vars == <<xfer, asked>>

None == [type |-> "none"]
Gets == {"GET_PENDING", "GET"}
Sends == {"FORK_SEND", "SEND"}
Script == "(script)"
Remote == "*remote"
Nicks == Users \cup {Remote}

\* offset to pending are the code's (pos is where the file is read); start, got and style the
\* client's, line what is under way to it and acks what is under way back.  The rest is history:
\* skewed, an acknowledgement was torn; odd, the two do not mean the same by a number; torn, what
\* came was not what follows.
Slot(type, nick, from, file, kind) ==
  [type |-> type, nick |-> nick, from |-> from, file |-> file, kind |-> kind,
   offset |-> 0, status |-> 0, ack |-> "unknown", pending |-> 0, pos |-> 0,
   start |-> 0, got |-> 0, style |-> "all", line |-> <<>>, acks |-> <<>>,
   skewed |-> FALSE, odd |-> FALSE, torn |-> FALSE]

Init ==
  /\ xfer = [disk |-> First, fileq |-> <<>>, dcc |-> [c \in Slots |-> None], loaded |-> TRUE,
             stalled |-> {}, mixed |-> FALSE]
  /\ asked = 0

Running(w, who) == {c \in Slots : w.dcc[c].type \in Gets /\ w.dcc[c].nick = who}
Waiting(w, who) == SelectSeq(w.fileq, LAMBDA q : q.to = who)
AtLimit(w, who) == Cardinality(Running(w, who)) >= Limit
\* lostdcc: the entry is only free when the handler is done.
Lost(w, c) == [w EXCEPT !.dcc[c] = [type |-> "lost"]]
Stalls(w, who) == [w EXCEPT !.stalled = @ \cup {who}]
Done(w) ==
  [w EXCEPT !.dcc = [c \in Slots |-> IF w.dcc[c].type = "lost" THEN None ELSE w.dcc[c]],
            !.stalled = {u \in @ : Waiting(w, u) # <<>> /\ Running(w, u) = {}}]
Becomes(w) == xfer' = Done(w)
Asks == asked < MaxAsked /\ asked' = asked + 1
Free(w) == {c \in Slots : w.dcc[c] = None}

-----------------------------------------------------------------------------
(* The queue.  Its first entry is the latest.                               *)

\* raw_dcc_send, raw_dcc_resend: what becomes of it, and the table.
Outcome(w, file, there, luck) ==
  CASE ~there -> "BADFN" [] there /\ Length[file] = 0 -> "FEMPTY"
    [] there /\ Length[file] > 0 /\ luck # "OK" -> luck
    [] OTHER -> IF Free(w) = {} THEN "FULL" ELSE "OK"
RawDccSend(w, file, there, nick, from, resend, luck) ==
  IF Outcome(w, file, there, luck) # "OK" THEN w
  ELSE [w EXCEPT !.dcc[CHOOSE c \in Free(w) : \A d \in Free(w) : c <= d] =
                   Slot("GET_PENDING", nick, from, file, IF resend THEN "RESEND_PEND" ELSE "SEND")]
QueueFile(w, dir, file, from, to) ==
  [w EXCEPT !.fileq = <<[dir |-> dir, file |-> file, nick |-> from, to |-> to]>> \o @]
\* Where it is looked for in the end: a script's file of the bot's own directory is looked for in
\* the root, the file area's in the bot's own directory.
There(w, q) ==
  /\ q.file \in w.disk
  /\ q.dir = "dir" \/ (q.dir = "area" /\ AreaHere)
\* send_next_file: the one that waits longest.  What cannot be found is dropped, and the next is
\* not tried; when there is no room all are.
SendNextFile(w, to, luck) ==
  LET mine == {i \in 1..Len(w.fileq) : w.fileq[i].to = to}
  IN IF mine = {} THEN w
     ELSE LET i == Max(mine)  q == w.fileq[i]
              x == Outcome(w, q.file, There(w, q), luck)
              sent == RawDccSend(w, q.file, There(w, q), to, q.nick, FALSE, luck)
          IN CASE x = "OK" -> [sent EXCEPT !.fileq = RemoveAt(@, i)]
               [] x \in {"FULL", "NOSOCK", "FCOPY"} -> [w EXCEPT !.fileq = SelectSeq(@, LAMBDA r : r.to # to)]
               [] OTHER -> Stalls([w EXCEPT !.fileq = RemoveAt(@, i)], to)
\* Mutant: a transfer that is lost does not let the next one start.
NextQueuedNever(w, to, luck) == w
NextQueued(w, to, luck) == IF AtLimit(w, to) THEN w ELSE SendNextFile(w, to, luck)

\* do_dcc_send: also for somebody else; the queue forgets that it is to be sent again.
\* Mutant: who waits is not counted.
DoDccSendAlways(w, u, f, to, resend, luck) ==
  IF f \notin w.disk THEN w ELSE RawDccSend(w, f, TRUE, to, u, resend, luck)
DoDccSend(w, u, f, to, resend, luck) ==
  CASE f \notin w.disk -> w
    [] f \in w.disk /\ AtLimit(w, to) -> QueueFile(w, "area", f, u, to)
    [] OTHER -> RawDccSend(w, f, TRUE, to, u, resend, luck)
\* cmd_get, cmd_reget: one or, by a mask, several, each in turn.
Listed == SetToSeq(Files)
CmdRegetGet(u, names, to, resend, luck) ==
  /\ Asks /\ xfer.loaded
  /\ LET send(w, f) == DoDccSend(w, u, f, to, resend, luck)
     IN Becomes(FoldLeft(send, xfer, SelectSeq(Listed, LAMBDA f : f \in names)))
\* files_get, files_reget of Tcl: one by its name.
FilesReget(u, f, to, resend, luck) ==
  /\ Asks /\ xfer.loaded
  /\ Becomes(DoDccSend(xfer, u, f, to, resend, luck))
\* tcl_dccsend
TclDccsend(f, bare, to, luck) ==
  /\ Asks /\ xfer.loaded /\ f \in xfer.disk
  /\ Becomes(IF AtLimit(xfer, to) THEN QueueFile(xfer, IF bare THEN "root" ELSE "dir", f, Script, to)
             ELSE RawDccSend(xfer, f, TRUE, to, "*", FALSE, luck))
\* remote_filereq: another bot's user asks for it, whom this bot does not know.
RemoteFilereq(f, luck) ==
  /\ Asks /\ xfer.loaded
  /\ Becomes(RawDccSend(xfer, f, f \in xfer.disk, Remote, Remote, FALSE, luck))

\* fileq_cancel: everything she asked for and everything sent to her, of one name or of any; then
\* as many are started for her as were cut off.
FileqCancel(u, names, luck) ==
  /\ Asks /\ xfer.loaded
  /\ LET cut == {c \in Slots : xfer.dcc[c].type \in Gets /\ u \in {xfer.dcc[c].nick, xfer.dcc[c].from}
                                /\ xfer.dcc[c].file \in names}
         rest == [xfer EXCEPT !.fileq = SelectSeq(@, LAMBDA q : q.nick # u \/ q.file \notin names),
                              !.dcc = [c \in Slots |-> IF c \in cut THEN [type |-> "lost"] ELSE @[c]],
                              !.stalled = @ \cup ({xfer.dcc[c].nick : c \in cut} \ {u})]
         after[n \in 0..Cardinality(cut)] == IF n = 0 THEN rest ELSE NextQueued(after[n - 1], u, luck)
     IN Becomes(after[Cardinality(cut)])

-----------------------------------------------------------------------------
(* Sending.                                                                 *)

\* pump_file_to_sock: some of the l units, unless the file has ended before.
Amounts(d, l) ==
  LET m == Min({l, Length[d.file] - d.pos}) IN IF m <= 0 THEN {0} ELSE IF MayBlock THEN 1..m ELSE {m}
Pumped(d, l, n) ==
  [d EXCEPT !.line = @ \o [i \in 1..n |-> d.pos + i], !.pos = @ + n, !.pending = l - n]

\* dcc_get_pending: she connects, or that fails.  The first block is sent unless she has to say
\* first from where.
\* Mutant: what is skipped is sent after all.
GetPendingFromTop(c, style, n) ==
  LET d == xfer.dcc[c]  L == Length[d.file]
      all == Block = 0 \/ L < Block
      l == IF d.kind = "RESUME_PEND" /\ all THEN L - d.offset ELSE IF all THEN L ELSE Block
      e == [d EXCEPT !.type = "GET", !.style = style,
                     !.odd = d.kind = "RESUME_PEND" /\ ~all /\ d.offset + Block > L]
      f == CASE d.kind = "RESUME_PEND" ->
                  [e EXCEPT !.kind = "RESUME", !.status = IF all THEN L ELSE d.offset + Block]
             [] d.kind = "SEND" -> [e EXCEPT !.offset = 0, !.status = l]
             [] OTHER -> [e EXCEPT !.offset = 0, !.status = 0]
  IN /\ d.type = "GET_PENDING"
     /\ n \in IF d.kind = "RESEND_PEND" THEN {0} ELSE Amounts(f, l)
     /\ Becomes([xfer EXCEPT !.dcc[c] = IF d.kind = "RESEND_PEND" THEN f ELSE Pumped(f, l, n)])
DccGetPending(c, style, n) ==
  LET d == xfer.dcc[c]  L == Length[d.file]
      all == Block = 0 \/ L < Block
      l == IF d.kind = "RESUME_PEND" /\ all THEN L - d.offset ELSE IF all THEN L ELSE Block
      e == [d EXCEPT !.type = "GET", !.style = style,
                     !.odd = d.kind = "RESUME_PEND" /\ ~all /\ d.offset + Block > L]
      f == CASE d.kind = "RESUME_PEND" ->
                  [e EXCEPT !.kind = "RESUME", !.pos = d.offset, !.status = IF all THEN L ELSE d.offset + Block]
             [] d.kind = "SEND" -> [e EXCEPT !.offset = 0, !.status = l]
             [] OTHER -> [e EXCEPT !.offset = 0, !.status = 0]
  IN /\ d.type = "GET_PENDING"
     /\ n \in IF d.kind = "RESEND_PEND" THEN {0} ELSE Amounts(f, l)
     /\ Becomes([xfer EXCEPT !.dcc[c] = IF d.kind = "RESEND_PEND" THEN f ELSE Pumped(f, l, n)])
Connects(c, style, n) == xfer.loaded /\ DccGetPending(c, style, n) /\ UNCHANGED asked
NoConnection(c) ==
  /\ xfer.loaded /\ xfer.dcc[c].type = "GET_PENDING"
  /\ Becomes(Stalls(Lost(xfer, c), xfer.dcc[c].nick)) /\ UNCHANGED asked

\* ctcp_DCC_RESUME, before she connects; killtransfer removes the file that was to be sent, unless
\* another transfer is about the same.
Killtransfer(w, c) ==
  LET f == w.dcc[c].file
  IN IF CopyToTmp /\ w.dcc[c].type \in Gets
        /\ \A d \in Slots \ {c} : w.dcc[d].type \in Gets => w.dcc[d].file # f
     THEN [w EXCEPT !.disk = @ \ {f}] ELSE w
CtcpResume(c, offset) ==
  /\ Asks /\ xfer.loaded /\ xfer.dcc[c].type = "GET_PENDING" /\ xfer.dcc[c].nick \in Users
  /\ LET d == xfer.dcc[c]
     IN Becomes(IF Length[d.file] <= offset THEN Stalls(Lost(Killtransfer(xfer, c), c), d.nick)
                ELSE [xfer EXCEPT !.dcc[c].kind = "RESUME_PEND", !.dcc[c].offset = offset,
                                  !.dcc[c].start = offset])

\* dcc_get, for a number that was read: go on, be done or wait.  A number beyond what was sent
\* moves the file to it.
Understood(d, cmp) ==
  LET type == IF d.ack # "unknown" THEN d.ack ELSE IF cmp < d.offset THEN "without" ELSE "with"
  IN CASE cmp > Length[d.file] /\ cmp > d.status -> [d |-> d, cmp |-> cmp]
       [] cmp <= Length[d.file] /\ cmp > d.status -> [d |-> [d EXCEPT !.status = cmp, !.pos = cmp], cmp |-> cmp]
       [] OTHER -> [d |-> [d EXCEPT !.ack = type,
                                    !.odd = @ \/ (type = "with" /\ d.style = "own" /\ d.start > 0 /\ d.got > 0)],
                    cmp |-> IF type = "without" THEN cmp + d.offset ELSE cmp]
\* Mutant: it goes on before all of the block has been acknowledged.
DccGetEager(c, d, cmp, n, luck) ==
  LET u == Understood(d, cmp)  e == u.d  L == Length[d.file]
      l == IF Block = 0 \/ e.status + Block > L THEN L - e.status ELSE Block
  IN CASE u.cmp = 0 -> n = 0 /\ Becomes([xfer EXCEPT !.dcc[c] = e])
       [] u.cmp > 0 /\ e.status = L ->
            /\ n = 0
            /\ Becomes(NextQueued(Lost([xfer EXCEPT !.mixed = @ \/ (~d.skewed /\ d.got + d.start # L)], c), d.nick, luck))
       [] OTHER -> /\ n \in Amounts(e, l)
                   /\ Becomes([xfer EXCEPT !.dcc[c] = [Pumped(e, l, n) EXCEPT !.status = e.status + l]])
DccGet(c, d, cmp, n, luck) ==
  LET u == Understood(d, cmp)  e == u.d  L == Length[d.file]
      l == IF Block = 0 \/ e.status + Block > L THEN L - e.status ELSE Block
  IN CASE u.cmp # e.status -> n = 0 /\ Becomes([xfer EXCEPT !.dcc[c] = e])
       [] u.cmp = e.status /\ e.status = L ->
            /\ n = 0
            /\ Becomes(NextQueued(Lost([xfer EXCEPT !.mixed = @ \/ (~d.skewed /\ d.got + d.start # L)], c), d.nick, luck))
       [] OTHER -> /\ n \in Amounts(e, l)
                   /\ Becomes([xfer EXCEPT !.dcc[c] = [Pumped(e, l, n) EXCEPT !.status = e.status + l]])
\* What has come is read at once, and the last number counts.  When it is cut in two the bytes that
\* were read are forgotten, and from then on the numbers read are made of two.
Reads(c, k, n, luck) ==
  LET d == xfer.dcc[c]
  IN /\ xfer.loaded /\ d.type = "GET" /\ k \in 1..Len(d.acks) /\ d.kind # "RESEND_PEND"
     /\ \E cmp \in IF d.skewed THEN 0..Length[d.file] + 1 ELSE {d.acks[k]} :
          DccGet(c, [d EXCEPT !.acks = SubSeq(@, k + 1, Len(@))], cmp, n, luck)
     /\ UNCHANGED asked
ReadsPart(c) ==
  LET d == xfer.dcc[c]
  IN /\ MaySplit /\ xfer.loaded /\ d.type = "GET" /\ Len(d.acks) >= 2
     /\ Becomes([xfer EXCEPT !.dcc[c].acks = <<Last(@)>>, !.dcc[c].skewed = TRUE]) /\ UNCHANGED asked
\* handle_resend_packet: from where she wants it again.
Reget(c, offset, n, luck) ==
  LET d == xfer.dcc[c]
      e == [d EXCEPT !.kind = "RESEND", !.offset = offset, !.start = offset, !.odd = offset > Length[d.file]]
  IN /\ xfer.loaded /\ d.type = "GET" /\ d.kind = "RESEND_PEND"
     /\ DccGet(c, e, offset, n, luck) /\ UNCHANGED asked
\* outdone_dcc_xfer: the connection has taken what it was given.
Outdone(c, n) ==
  LET d == xfer.dcc[c]
  IN /\ xfer.loaded /\ d.type = "GET" /\ d.pending > 0 /\ d.pos < Length[d.file] /\ n \in Amounts(d, d.pending)
     /\ Becomes([xfer EXCEPT !.dcc[c] = Pumped(d, d.pending, n)]) /\ UNCHANGED asked

\* eof_dcc_get, transfer_get_timeout
Ends(w, c, luck) == NextQueued(Lost(w, c), w.dcc[c].nick, luck)
GetEnds(c, luck) ==
  /\ xfer.loaded /\ xfer.dcc[c].type \in Gets
  /\ Becomes(Ends(xfer, c, luck)) /\ UNCHANGED asked
\* tcl_killdcc
TclKilldcc(c) ==
  /\ Asks /\ xfer.loaded /\ xfer.dcc[c].type \in Gets
  /\ Becomes(Stalls(Lost(Killtransfer(xfer, c), c), xfer.dcc[c].nick))

\* The client, which takes some of what has come and says how far it is.
Receives(c, k) ==
  LET d == xfer.dcc[c]  got == d.got + k
  IN /\ d.type = "GET" /\ k \in 1..Len(d.line)
     /\ Becomes([xfer EXCEPT !.dcc[c] =
          [d EXCEPT !.line = SubSeq(@, k + 1, Len(@)), !.got = got,
                    !.torn = @ \/ \E i \in 1..k : d.line[i] # d.start + d.got + i,
                    !.acks = Append(@, IF d.style = "own" THEN got ELSE d.start + got)]])
     /\ UNCHANGED asked

-----------------------------------------------------------------------------
(* What is sent to the bot.                                                 *)

\* filesys_dcc_send
FilesysDccSend(u, f) ==
  /\ Asks /\ Free(xfer) # {}
  /\ Becomes([xfer EXCEPT !.dcc[Min(Free(xfer))] = Slot("DNSWAIT", u, u, f, "SEND")])
\* filesys_dcc_send_hostresolved, with the connection that it makes
\* Mutant: only what is there already is looked at.
SendHostresolvedTwice(c, up) ==
  LET d == xfer.dcc[c]
  IN /\ d.type = "DNSWAIT"
     /\ Becomes(IF d.file \in xfer.disk \/ ~up THEN Lost(xfer, c) ELSE [xfer EXCEPT !.dcc[c].type = "FORK_SEND"])
     /\ UNCHANGED asked
SendHostresolved(c, up) ==
  LET d == xfer.dcc[c]
  IN /\ d.type = "DNSWAIT"
     /\ Becomes(IF \/ d.file \in xfer.disk \/ ~up
                   \/ \E e \in Slots \ {c} : xfer.dcc[e].type \in Sends /\ xfer.dcc[e].file = d.file
                THEN Lost(xfer, c) ELSE [xfer EXCEPT !.dcc[c].type = "FORK_SEND"])
     /\ UNCHANGED asked
\* dcc_fork_send, dcc_send: some of it, possibly more than was said.
DccSendData(c, k) ==
  LET d == xfer.dcc[c]  status == d.status + k
  IN /\ xfer.loaded /\ d.type \in Sends /\ d.status + k <= Length[d.file] + 1
     /\ Becomes(IF status > Length[d.file] THEN Lost(xfer, c)
                ELSE [xfer EXCEPT !.dcc[c].type = "SEND", !.dcc[c].status = status])
     /\ UNCHANGED asked
\* eof_dcc_send, eof_dcc_fork_send, tout_dcc_send: kept when all of it has come and the end of the
\* connection too; the copy from where it was put at first may fail.
Kept(w, c, copies) ==
  LET d == w.dcc[c]
  IN Lost(IF d.type = "SEND" /\ d.status = Length[d.file] /\ CopyToTmp /\ copies
          THEN [w EXCEPT !.disk = @ \cup {d.file}, !.mixed = @ \/ d.file \in w.disk] ELSE w, c)
SendEof(c, copies) ==
  /\ xfer.loaded /\ xfer.dcc[c].type \in Sends
  /\ Becomes(Kept(xfer, c, copies)) /\ UNCHANGED asked
SendTimeout(c) ==
  /\ xfer.loaded /\ xfer.dcc[c].type \in Sends
  /\ Becomes(Lost(xfer, c)) /\ UNCHANGED asked

\* transfer_close: every transfer ends as if its connection had.  One that is started by the end of
\* another is left.
TransferClose(luck) ==
  /\ Asks /\ xfer.loaded
  /\ LET old == SetToSortSeq({c \in Slots : xfer.dcc[c].type \in Gets \cup Sends}, >)
         end(w, c) == IF w.dcc[c].type \in Gets THEN Ends(w, c, luck) ELSE Kept(w, c, TRUE)
     IN Becomes([FoldLeft(end, xfer, old) EXCEPT !.fileq = <<>>, !.loaded = FALSE])

-----------------------------------------------------------------------------
Some(s) == {1, Len(s)}
Resends == IF Offsets = {} THEN {FALSE} ELSE BOOLEAN
Lengths == {0} \cup UNION {1..Length[f] : f \in Files}
Next ==
  \/ \E f \in Files, luck \in Fortunes :
       \/ RemoteFilereq(f, luck)
       \/ \E to \in Users :
            \/ \E bare \in BOOLEAN : TclDccsend(f, bare, to, luck)
            \/ \E u \in Users, resend \in Resends : FilesReget(u, f, to, resend, luck)
  \/ \E u \in Users, luck \in Fortunes, names \in {{f} : f \in Files} \cup {Files} :
       \/ FileqCancel(u, names, luck)
       \/ \E to \in Users, resend \in Resends : CmdRegetGet(u, names, to, resend, luck)
  \/ \E luck \in Fortunes : TransferClose(luck)
  \/ \E u \in Users, f \in Uploads : FilesysDccSend(u, f)
  \/ \E c \in Slots :
       \/ NoConnection(c) \/ ReadsPart(c) \/ TclKilldcc(c) \/ SendTimeout(c)
       \/ \E o \in Offsets : CtcpResume(c, o)
       \/ \E b \in BOOLEAN : SendHostresolved(c, b) \/ SendEof(c, b)
       \/ \E k \in 1..2 : DccSendData(c, k)
       \/ \E luck \in Fortunes : GetEnds(c, luck)
       \/ xfer.dcc[c].type \in Gets /\ \E k \in Some(xfer.dcc[c].line) : Receives(c, k)
       \/ \E n \in Lengths :
            \/ \E s \in Styles : Connects(c, s, n)
            \/ Outdone(c, n)
            \/ \E luck \in Fortunes :
                 \/ xfer.dcc[c].type \in Gets /\ \E k \in Some(xfer.dcc[c].acks) : Reads(c, k, n, luck)
                 \/ \E o \in Offsets : Reget(c, o, n, luck)
Spec == Init /\ [][Next]_vars

-----------------------------------------------------------------------------
TypeOK ==
  /\ xfer.disk \subseteq Files \cup Uploads /\ xfer.stalled \subseteq Nicks
  /\ \A c \in Slots : xfer.dcc[c].type \in Gets \cup Sends \cup {"none", "DNSWAIT"}
  /\ \A i \in 1..Len(xfer.fileq) : xfer.fileq[i].file \in Files /\ xfer.fileq[i].to \in Users

\* Nobody is sent more files at once than max-dloads says.
WithinLimit == \A u \in Users : Cardinality(Running(xfer, u)) <= Limit

\* Somebody for whom files wait is being sent one, whose end starts the next; or the last one ended
\* without (the connection could not be made, was closed by a script, cancelled by another or
\* resumed behind its end, or the next one was not there).
NobodyForgotten ==
  \A u \in Users : Waiting(xfer, u) # <<>> => Running(xfer, u) # {} \/ u \in xfer.stalled

\* A client is sent what follows what it has, from where it wanted it; and what counts as sent, and
\* what is kept of what was sent to the bot, is all of it and in no other's place.
Intact ==
  /\ ~xfer.mixed
  /\ \A c \in Slots : xfer.dcc[c].type \in Gets /\ xfer.dcc[c].torn => xfer.dcc[c].skewed
\* A transfer never waits for nothing: something is under way, or the client is to say from where;
\* unless the two count differently, the block is longer than what is left of a resumed file, or
\* an acknowledgement was read in two pieces.
GoesOn ==
  \A c \in Slots :
    LET d == xfer.dcc[c]
    IN d.type = "GET" /\ ~d.odd /\ ~d.skewed /\ d.kind # "RESEND_PEND"
         => d.line # <<>> \/ d.acks # <<>> \/ (d.pending > 0 /\ d.pos < Length[d.file])
\* A name is sent to the bot once at a time.
SentOnce ==
  \A c, d \in Slots : c # d /\ xfer.dcc[c].type \in Sends /\ xfer.dcc[d].type \in Sends
                        => xfer.dcc[c].file # xfer.dcc[d].file
=============================================================================
