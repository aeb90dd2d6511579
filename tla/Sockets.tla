------------------------------ MODULE Sockets ------------------------------
(***************************************************************************)
(* The table of connections (net.c): what comes is cut into lines however   *)
(* it is split on the way, what goes is kept while the network is full.     *)
(* A character is the number of its place; an end of line is EOL.           *)
(*                                                                         *)
(* Left out: TLS, proxies, sockets of Tcl, and binary data, which are given  *)
(* on as they come (no binary connection is ever told to wait).             *)
(***************************************************************************)
EXTENDS Integers, Sequences, FiniteSets, FiniteSetsExt, SequencesExt

CONSTANTS
  Socks,        \* places of the table, numbers
  Texts,        \* what each of them may be sent, TRUE where a line ends
  ConnKinds,        \* how connections begin: "accepted", "connecting", "strong"
  Width,        \* 510
  MaxPuts,      \* bound: how much is written to each
  MaySplit      \* whether fewer characters may be read than there are

ASSUME SocketsAssumption == Texts \subseteq Seq(BOOLEAN) /\ Width \in Nat \ {0} /\ MaxPuts \in Nat

VARIABLE socklist
socketVars == <<socklist>>

EOL == 0
Null == <<-1>>  \* no buffer
Characters(t) == [i \in 1..Len(t) |-> IF t[i] THEN EOL ELSE i]
Held(buf) == IF buf = Null THEN <<>> ELSE buf

\* text is all that comes, coming what has not been read; put is all that was written to it, taken
\* what the network took.  got are the lines that were given on; fake, the line was too long; cut,
\* a part of one was thrown away.
Entry(text, kind) ==
  [flags |-> CASE kind = "accepted" -> {"BUFFER"} [] kind = "connecting" -> {"CONNECT"}
               [] OTHER -> {"CONNECT", "STRONGCONN"},
   text |-> Characters(text), coming |-> Characters(text), inbuf |-> Null, got |-> <<>>, cut |-> FALSE,
   outbuf |-> Null, put |-> 0, taken |-> <<>>, known |-> FALSE]
InitSockets == \E t \in [Socks -> Texts], k \in [Socks -> ConnKinds] : socklist = [i \in Socks |-> Entry(t[i], k[i])]

Used(i) == "UNUSED" \notin socklist[i].flags
\* The line up to the first of its ends, and what follows after all that stand there.
LineEnd(s) == Min({i \in 1..Len(s) : s[i] = EOL})
HasLine(s) == EOL \in Range(s)
AfterEnds(s, p) ==
  LET next == {i \in p..Len(s) : s[i] # EOL} IN IF next = {} THEN <<>> ELSE SubSeq(s, Min(next), Len(s))
OrNull(s) == IF s = <<>> THEN Null ELSE s
Given(e, line, fake) == [e EXCEPT !.got = Append(@, [line |-> line, fake |-> fake])]

\* killsock
Killed(e) == [e EXCEPT !.flags = {"UNUSED"}, !.inbuf = Null, !.outbuf = Null]
Killsock(i) == Used(i) /\ socklist' = [socklist EXCEPT ![i] = Killed(@)]
\* dcc_telnet_hostresolved: the name is known, what came meanwhile may be read.
Unbuffer(i) == "BUFFER" \in socklist[i].flags /\ socklist' = [socklist EXCEPT ![i].flags = @ \ {"BUFFER"}]

-----------------------------------------------------------------------------
(* sockgets: first what is stored, of the first that has any; or the end of  *)
(* one whose writing failed.                                                *)

Stored(i) == {"UNUSED", "BUFFER"} \cap socklist[i].flags = {} /\ socklist[i].inbuf # Null /\ HasLine(socklist[i].inbuf)
Eofd(i) == Used(i) /\ "EOFD" \in socklist[i].flags
Pending == {i \in Socks : Stored(i) \/ Eofd(i)}
FromInbuf(i) ==
  LET e == socklist[i]  p == LineEnd(e.inbuf)  line == SubSeq(e.inbuf, 1, p - 1)
  IN /\ i \in Pending /\ i = Min(Pending) /\ Stored(i)
     /\ socklist' = [socklist EXCEPT ![i] =
          [Given(e, SubSeq(line, 1, Min({Width, p - 1})), FALSE) EXCEPT
             !.cut = @ \/ p - 1 > Width, !.inbuf = OrNull(AfterEnds(e.inbuf, p))]]
EofAtWrite(i) ==
  /\ i \in Pending /\ i = Min(Pending) /\ ~Stored(i)
  /\ socklist' = [socklist EXCEPT ![i] = Killed(@)]

\* Then what can be read now, before what was stored: a whole line is given on, the rest stored, and
\* what is too long is taken for a line.
\* Mutant: what is too long is stored before what was read.
TakenRest(e, xx) ==
  LET all == Held(e.inbuf) \o xx
      fits == Len(all) < Width + 2
      head == IF fits THEN all ELSE SubSeq(all, 1, Width)
      rest == IF fits THEN <<>> ELSE SubSeq(all, Width + 1, Len(all))
      left == IF HasLine(head) THEN AfterEnds(head, LineEnd(head)) ELSE IF Len(head) >= Width THEN <<>> ELSE head
      d == [e EXCEPT !.inbuf = OrNull(rest \o left)]
  IN CASE HasLine(head) -> Given(d, SubSeq(head, 1, LineEnd(head) - 1), FALSE)
       [] ~HasLine(head) /\ Len(head) >= Width -> Given(d, head, TRUE)
       [] OTHER -> d
Taken(e, xx) ==
  LET all == Held(e.inbuf) \o xx
      fits == Len(all) < Width + 2
      head == IF fits THEN all ELSE SubSeq(all, 1, Width)
      rest == IF fits THEN <<>> ELSE SubSeq(all, Width + 1, Len(all))
      left == IF HasLine(head) THEN AfterEnds(head, LineEnd(head)) ELSE IF Len(head) >= Width THEN <<>> ELSE head
      d == [e EXCEPT !.inbuf = OrNull(left \o rest)]
  IN CASE HasLine(head) -> Given(d, SubSeq(head, 1, LineEnd(head) - 1), FALSE)
       [] ~HasLine(head) /\ Len(head) >= Width -> Given(d, head, TRUE)
       [] OTHER -> d
\* sockread takes up to grab characters; a connection that is made is told first, a strong one only
\* with what came on it.
\* Mutant: what came with the connection is lost.
SockreadForgets(i, k) ==
  LET e == socklist[i]  xx == SubSeq(e.coming, 1, k)
      d == [e EXCEPT !.coming = SubSeq(@, k + 1, Len(@)), !.flags = @ \ {"CONNECT", "STRONGCONN"}]
  IN /\ Pending = {} /\ Used(i) /\ k \in 1..Min({Width + 1, Len(e.coming)})
     /\ {"CONNECT", "STRONGCONN"} \cap e.flags # {"CONNECT"}
     /\ socklist' = [socklist EXCEPT ![i] =
          CASE "STRONGCONN" \in e.flags -> [d EXCEPT !.known = TRUE]
            [] "BUFFER" \in e.flags -> [d EXCEPT !.inbuf = Held(@) \o xx]
            [] OTHER -> Taken(d, xx)]
Sockread(i, k) ==
  LET e == socklist[i]  xx == SubSeq(e.coming, 1, k)
      d == [e EXCEPT !.coming = SubSeq(@, k + 1, Len(@)), !.flags = @ \ {"CONNECT", "STRONGCONN"}]
  IN /\ Pending = {} /\ Used(i) /\ k \in 1..Min({Width + 1, Len(e.coming)})
     /\ MaySplit \/ k = Min({Width + 1, Len(e.coming)})
     /\ {"CONNECT", "STRONGCONN"} \cap e.flags # {"CONNECT"}
     /\ socklist' = [socklist EXCEPT ![i] =
          CASE "STRONGCONN" \in e.flags -> [d EXCEPT !.known = TRUE, !.inbuf = xx]
            [] "BUFFER" \in e.flags -> [d EXCEPT !.inbuf = Held(@) \o xx]
            [] OTHER -> Taken(d, xx)]
Connected(i) ==
  /\ Pending = {} /\ Used(i) /\ {"CONNECT", "STRONGCONN"} \cap socklist[i].flags = {"CONNECT"}
  /\ socklist' = [socklist EXCEPT ![i].flags = @ \ {"CONNECT"}, ![i].known = TRUE]
\* The other end closes when it has sent all; a line that has not ended is not given on.
EofAtRead(i) ==
  /\ Pending = {} /\ Used(i) /\ socklist[i].coming = <<>>
  /\ "CONNECT" \notin socklist[i].flags \/ "STRONGCONN" \in socklist[i].flags
  /\ socklist' = [socklist EXCEPT ![i] = Killed(@)]

-----------------------------------------------------------------------------
(* Writing.                                                                 *)

Next1(e, n) == [j \in 1..n |-> e.put + j]
\* tputs: l characters, of which the network takes n unless some wait already.
\* Mutant: it is tried to write although some wait.
TputsAhead(i, l, n) ==
  LET e == socklist[i]  s == Next1(e, l)
  IN /\ Used(i) /\ e.put + l <= MaxPuts /\ n \in 0..l
     /\ socklist' = [socklist EXCEPT ![i].put = @ + l, ![i].taken = @ \o SubSeq(s, 1, n),
                                     ![i].outbuf = OrNull(Held(@) \o SubSeq(s, n + 1, l))]
Tputs(i, l, n) ==
  LET e == socklist[i]  s == Next1(e, l)
  IN /\ Used(i) /\ e.put + l <= MaxPuts
     /\ n \in IF e.outbuf # Null THEN {0} ELSE 0..l
     /\ socklist' = [socklist EXCEPT ![i].put = @ + l, ![i].taken = @ \o SubSeq(s, 1, n),
                                     ![i].outbuf = OrNull(Held(@) \o SubSeq(s, n + 1, l))]
\* dequeue_sockets, for one of them: n are taken, or the other end is no longer there.
\* Mutant: what was taken stays.
DequeueAgain(i, n) ==
  LET e == socklist[i]
  IN /\ Used(i) /\ e.outbuf # Null /\ n \in 1..Len(e.outbuf)
     /\ socklist' = [socklist EXCEPT ![i].taken = @ \o SubSeq(e.outbuf, 1, n),
                                     ![i].outbuf = IF n = Len(@) THEN Null ELSE @]
DequeueSockets(i, n) ==
  LET e == socklist[i]
  IN /\ Used(i) /\ e.outbuf # Null /\ n \in 1..Len(e.outbuf)
     /\ socklist' = [socklist EXCEPT ![i].taken = @ \o SubSeq(e.outbuf, 1, n),
                                     ![i].outbuf = IF n = Len(@) THEN Null ELSE SubSeq(@, n + 1, Len(@))]
WriteFails(i) ==
  /\ Used(i) /\ socklist[i].outbuf # Null
  /\ socklist' = [socklist EXCEPT ![i].flags = @ \cup {"EOFD"}]

-----------------------------------------------------------------------------
Sockgets ==
  \E i \in Socks : FromInbuf(i) \/ EofAtWrite(i) \/ Connected(i) \/ EofAtRead(i) \/ \E k \in 1..Width + 1 : Sockread(i, k)
Drains(i) == \E n \in 1..MaxPuts : DequeueSockets(i, n)
NextSockets ==
  \/ Sockgets
  \/ \E i \in Socks :
       \/ Killsock(i) \/ Unbuffer(i) \/ WriteFails(i) \/ Drains(i)
       \/ \E l \in 1..MaxPuts, n \in 0..MaxPuts : Tputs(i, l, n)
FairSockets == WF_socketVars(Sockgets) /\ \A i \in Socks : WF_socketVars(Unbuffer(i)) /\ WF_socketVars(Drains(i))
SpecSockets == InitSockets /\ [][NextSockets]_socketVars /\ FairSockets

-----------------------------------------------------------------------------
SocketsTypeOK ==
  \A i \in Socks :
    LET e == socklist[i]
    IN /\ e.flags \in {{"UNUSED"}} \cup SUBSET {"BUFFER", "CONNECT", "STRONGCONN", "EOFD"}
       /\ e.inbuf # <<>> /\ e.outbuf # <<>>
       /\ Used(i) \/ (e.inbuf = Null /\ e.outbuf = Null)

\* What was given on of a connection are the first n characters that were sent to it: none of those
\* behind them, no line before an earlier one, and, unless a part of a line was thrown away, all of them.
GivenOn(got, text, cut, n) ==
  /\ \A j \in 1..Len(got) : \A k \in 1..Len(got[j].line) :
       LET c == got[j].line[k] IN c \in 1..n /\ text[c] = c
  /\ \A i, j \in 1..Len(got) : i < j =>
       \A k \in 1..Len(got[i].line), l \in 1..Len(got[j].line) : got[i].line[k] < got[j].line[l]
  /\ ~cut => \A p \in 1..n : text[p] # EOL => \E j \in 1..Len(got) : p \in Range(got[j].line)
\* And what is stored of it, and then what is still to be read, are the rest: whatever pieces it is
\* read in, it goes on to where it was, in its order.
InOrder ==
  \A i \in Socks :
    LET e == socklist[i]
    IN Used(i) => \E n \in 0..Len(e.text) :
                    Held(e.inbuf) \o e.coming = SubSeq(e.text, n + 1, Len(e.text))
                    /\ GivenOn(e.got, e.text, e.cut, n)
\* What is given on as a line ends where a line ends, or is as long as a line may be; and it is never
\* of two lines.
LinesTrue ==
  \A i \in Socks : \A j \in 1..Len(socklist[i].got) :
    LET e == socklist[i]  line == e.got[j].line
    IN /\ \A k \in 1..Len(line) - 1 : line[k + 1] = line[k] + 1
       /\ line # <<>> => IF e.got[j].fake THEN Len(line) >= Width
                         ELSE e.text[line[Len(line)] + 1] = EOL \/ (e.cut /\ Len(line) = Width)
\* Nothing is given on before whoever waits for the connection knows that it is there.
KnownFirst == \A i \in Socks : socklist[i].got # <<>> => "CONNECT" \notin socklist[i].flags
\* The other end gets what was written, in order, without a gap.
WrittenInOrder ==
  \A i \in Socks :
    LET e == socklist[i]
    IN Used(i) => e.taken \o Held(e.outbuf) = [j \in 1..e.put |-> j]
\* The table of connections: all of it.
SocketsKept == SocketsTypeOK /\ InOrder /\ LinesTrue /\ KnownFirst /\ WrittenInOrder

\* Every whole line is read some time, and all that was written is taken, by all that stay.
Moved ==
  \A i \in Socks :
    Used(i) => ~HasLine(Held(socklist[i].inbuf)) /\ socklist[i].coming = <<>> /\ socklist[i].outbuf = Null
=============================================================================
