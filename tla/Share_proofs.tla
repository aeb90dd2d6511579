----------------------------- MODULE Share_proofs -----------------------------
(***************************************************************************)
(* Lists travel from hubs to leaves only, and a leaf takes its list from    *)
(* one hub, for any bots and pairs, any changes, losses and failures, and   *)
(* whoever reloads or unloads, as long as the leaves do not resync.         *)
(*                                                                         *)
(* share_resyncq sets STAT_SHARE without STAT_AGGRESSIVE, so that a leaf    *)
(* that resyncs does not know its hub for one afterwards.                   *)
(***************************************************************************)
EXTENDS Share, SequenceTheorems, FiniteSetTheorems, TLAPS

LeavesTakeFiles == \A p \in Pairs : p[2] \notin AllowResync

\* A sequence of lines, each one of C; buffers of what is kept for another bot.
Says(s, C) == (\E S : s \in Seq(S)) /\ \A k \in 1..Len(s) : s[k].cmd \in C
Stored == Commands \cup {"!"}
Buffers(t) == (\E T : t \in Seq(T)) /\ \A k \in 1..Len(t) : Says(t[k], Stored)

\* A link's end, and a leaf's towards its hub: it offers nothing, and what makes it
\* share is that it took the hub's offer.
IsEnd(e) == e \in [up : BOOLEAN, status : SUBSET Flags, tbuf : {e.tbuf}] /\ Buffers(e.tbuf)
LeafEnd(e) ==
  /\ "offered" \notin e.status
  /\ "share" \in e.status => "aggressive" \in e.status /\ e.up
EndOK(b, p, e) == IsEnd(e) /\ (<<p, b>> \in Pairs => LeafEnd(e))

\* All ends of b: of its hubs it shares with one.
EndsOK(b, ends) ==
  /\ DOMAIN ends = Bots
  /\ \A p \in Bots : EndOK(b, p, ends[p])
  /\ \A p, q \in Bots :
       /\ <<p, b>> \in Pairs /\ "share" \in ends[p].status
       /\ <<q, b>> \in Pairs /\ "share" \in ends[q].status
       => p = q

\* What p may say to b: a leaf neither offers nor asks for a resync, so that no hub
\* has to refuse one.
May(b, p) ==
  {c \in Offers \cup Commands :
     /\ <<b, p>> \in Pairs => c \notin {"u?", "r?"}
     /\ <<p, b>> \in Pairs => c # "rn"}

IInv ==
  /\ DOMAIN link = Bots
  /\ \A b \in Bots : EndsOK(b, link[b])
  /\ DOMAIN wire = Bots
  /\ \A b \in Bots : DOMAIN wire[b] = Bots /\ \A p \in Bots : Says(wire[b][p], May(b, p))

-----------------------------------------------------------------------------
(* Lines and buffers *)

LEMMA SaysEach ==
  ASSUME NEW C, NEW S, NEW s \in Seq(S), NEW n, Len(s) = n, \A k \in 1..n : s[k].cmd \in C
  PROVE  Says(s, C)
BY DEF Says

LEMMA BuffersSay ==
  ASSUME NEW T, NEW t \in Seq(T), NEW n, Len(t) = n, \A k \in 1..n : Says(t[k], Stored)
  PROVE  Buffers(t)
BY DEF Buffers

LEMMA SaysNothing == ASSUME NEW C PROVE Says(<<>>, C)
<1>1. <<>> \in Seq({}) /\ Len(<<>>) = 0
  BY EmptySeq
<1> QED
  BY <1>1 DEF Says

LEMMA SaysOne == ASSUME NEW C, NEW m, m.cmd \in C PROVE Says(<<m>>, C)
<1>1. <<m>> \in Seq({m}) /\ Len(<<m>>) = 1
  OBVIOUS
<1>2. \A k \in 1..1 : <<m>>[k].cmd \in C
  OBVIOUS
<1> QED
  BY <1>1, <1>2, SaysEach

LEMMA SaysTwo ==
  ASSUME NEW C, NEW m, NEW n, m.cmd \in C, n.cmd \in C PROVE Says(<<m, n>>, C)
<1>1. <<m, n>> \in Seq({m, n}) /\ Len(<<m, n>>) = 2
  OBVIOUS
<1>2. \A k \in 1..2 : <<m, n>>[k].cmd \in C
  OBVIOUS
<1> QED
  BY <1>1, <1>2, SaysEach

LEMMA SaysMore == ASSUME NEW C, NEW D, NEW s, Says(s, C), C \subseteq D PROVE Says(s, D)
BY DEF Says

LEMMA SaysBoth ==
  ASSUME NEW C, NEW s, NEW t, Says(s, C), Says(t, C)
  PROVE  Says(s \o t, C) /\ Len(s \o t) \in Nat
<1>1. PICK S : s \in Seq(S)
  BY DEF Says
<1>2. PICK T : t \in Seq(T)
  BY DEF Says
<1>3. PICK U : U = S \cup T
  OBVIOUS
<1>4. s \in Seq(U) /\ t \in Seq(U)
  BY <1>1, <1>2, <1>3, SeqMonotonic
<1>5. /\ s \o t \in Seq(U)
      /\ Len(s \o t) = Len(s) + Len(t)
      /\ \A i \in 1..Len(s) + Len(t) :
           (s \o t)[i] = IF i <= Len(s) THEN s[i] ELSE t[i - Len(s)]
  BY <1>4, ConcatProperties
<1>6. Len(s) \in Nat /\ Len(t) \in Nat
  BY <1>4, LenProperties
<1>7. ASSUME NEW k \in 1..Len(s \o t) PROVE (s \o t)[k].cmd \in C
  <2>1. CASE k <= Len(s)
    BY <1>5, <1>6, <1>7, <2>1 DEF Says
  <2>2. CASE ~(k <= Len(s))
    <3>1. k - Len(s) \in 1..Len(t)
      BY <1>5, <1>6, <1>7, <2>2
    <3>2. (s \o t)[k] = t[k - Len(s)]
      BY <1>5, <1>6, <1>7, <2>2
    <3> QED
      BY <3>1, <3>2 DEF Says
  <2> QED
    BY <2>1, <2>2
<1> QED
  BY <1>5, <1>6, <1>7 DEF Says

LEMMA SaysRest ==
  ASSUME NEW C, NEW s, Says(s, C), s # <<>>
  PROVE  Says(Tail(s), C) /\ s[1].cmd \in C
<1>1. PICK S : s \in Seq(S)
  BY DEF Says
<1>2. /\ Tail(s) \in Seq(S)
      /\ Len(Tail(s)) = Len(s) - 1
      /\ \A i \in 1..Len(Tail(s)) : Tail(s)[i] = s[i + 1]
  BY <1>1, HeadTailProperties
<1>3. Len(s) \in Nat \ {0}
  BY <1>1, EmptySeq
<1>4. ASSUME NEW k \in 1..Len(Tail(s)) PROVE Tail(s)[k].cmd \in C
  <2>1. k + 1 \in 1..Len(s)
    BY <1>2, <1>3, <1>4
  <2> QED
    BY <1>2, <1>4, <2>1 DEF Says
<1> QED
  BY <1>2, <1>3, <1>4 DEF Says

LEMMA SaysBegin ==
  ASSUME NEW C, NEW s, Says(s, C), NEW n \in Nat, n <= Len(s)
  PROVE  Says(SubSeq(s, 1, n), C)
<1>1. PICK S : s \in Seq(S)
  BY DEF Says
<1>2. Len(s) \in Nat /\ \A i \in 1..n : s[i] \in S
  BY <1>1, LenProperties, ElementOfSeq
<1>3. /\ SubSeq(s, 1, n) \in Seq(S)
      /\ Len(SubSeq(s, 1, n)) = IF 1 <= n THEN n - 1 + 1 ELSE 0
      /\ \A i \in 1..n - 1 + 1 : SubSeq(s, 1, n)[i] = s[1 + i - 1]
  BY <1>2, SubSeqProperties
<1>4. Len(SubSeq(s, 1, n)) = n /\ \A i \in 1..n : SubSeq(s, 1, n)[i] = s[i]
  BY <1>3
<1>5. \A i \in 1..n : SubSeq(s, 1, n)[i].cmd \in C
  BY <1>2, <1>4 DEF Says
<1> QED
  BY <1>3, <1>4, <1>5, SaysEach

\* A full queue stays within what it was and what is added.
LEMMA Adding ==
  ASSUME NEW C, NEW q, NEW ms, Says(q, C), Says(ms, C)
  PROVE  Says(QAddmsg(q, ms), C)
<1>1. Says(q \o ms, C) /\ Len(q \o ms) \in Nat
  BY SaysBoth
<1>2. PICK n : n = IF Len(q \o ms) > QLimit + 2 THEN QLimit + 2 ELSE Len(q \o ms)
  OBVIOUS
<1>3. n \in Nat /\ n <= Len(q \o ms)
  BY <1>1, <1>2, ShareAssumption DEF ShareAssumption
<1>4. Says(SubSeq(q \o ms, 1, n), C)
  BY <1>1, <1>3, SaysBegin
<1> QED
  BY <1>2, <1>4 DEF QAddmsg

LEMMA NoBuffer == Buffers(<<>>)
<1>1. <<>> \in Seq({}) /\ Len(<<>>) = 0
  BY EmptySeq
<1> QED
  BY <1>1 DEF Buffers

LEMMA BuffersRest ==
  ASSUME NEW t, Buffers(t), t # <<>>
  PROVE  Buffers(Tail(t)) /\ Says(t[1], Stored)
<1>1. PICK S : t \in Seq(S)
  BY DEF Buffers
<1>2. /\ Tail(t) \in Seq(S)
      /\ Len(Tail(t)) = Len(t) - 1
      /\ \A i \in 1..Len(Tail(t)) : Tail(t)[i] = t[i + 1]
  BY <1>1, HeadTailProperties
<1>3. Len(t) \in Nat \ {0}
  BY <1>1, EmptySeq
<1>4. ASSUME NEW k \in 1..Len(Tail(t)) PROVE Says(Tail(t)[k], Stored)
  <2>1. k + 1 \in 1..Len(t)
    BY <1>2, <1>3, <1>4
  <2> QED
    BY <1>2, <1>4, <2>1 DEF Buffers
<1> QED
  BY <1>2, <1>3, <1>4 DEF Buffers

LEMMA BuffersNew ==
  ASSUME NEW t, Buffers(t)
  PROVE  Buffers(<<<<>>>> \o t) /\ (<<<<>>>> \o t)[1] = <<>> /\ Len(<<<<>>>> \o t) \in Nat \ {0}
<1>1. PICK S : t \in Seq(S)
  BY DEF Buffers
<1>2. PICK U : U = S \cup {<<>>}
  OBVIOUS
<1>3. t \in Seq(U) /\ <<<<>>>> \in Seq(U) /\ Len(<<<<>>>>) = 1 /\ <<<<>>>>[1] = <<>>
  <2>1. <<>> \in U /\ S \subseteq U
    BY <1>2
  <2> QED
    BY <1>1, <2>1, SeqMonotonic
<1>4. /\ <<<<>>>> \o t \in Seq(U)
      /\ Len(<<<<>>>> \o t) = 1 + Len(t)
      /\ \A i \in 1..1 + Len(t) :
           (<<<<>>>> \o t)[i] = IF i <= 1 THEN <<<<>>>>[i] ELSE t[i - 1]
  BY <1>3, ConcatProperties
<1>5. Len(t) \in Nat
  BY <1>3, LenProperties
<1>6. (<<<<>>>> \o t)[1] = <<>>
  BY <1>3, <1>4, <1>5
<1>7. ASSUME NEW k \in 1..Len(<<<<>>>> \o t) PROVE Says((<<<<>>>> \o t)[k], Stored)
  <2>1. CASE k = 1
    BY <1>6, <2>1, SaysNothing
  <2>2. CASE k # 1
    <3>1. k - 1 \in 1..Len(t) /\ (<<<<>>>> \o t)[k] = t[k - 1]
      BY <1>4, <1>5, <1>7, <2>2
    <3> QED
      BY <3>1 DEF Buffers
  <2> QED
    BY <2>1, <2>2
<1> QED
  BY <1>4, <1>5, <1>6, <1>7 DEF Buffers

LEMMA BuffersBegin ==
  ASSUME NEW t, Buffers(t), NEW n \in Nat, n <= Len(t)
  PROVE  Buffers(SubSeq(t, 1, n))
<1>1. PICK S : t \in Seq(S)
  BY DEF Buffers
<1>2. Len(t) \in Nat /\ \A i \in 1..n : t[i] \in S
  BY <1>1, LenProperties, ElementOfSeq
<1>3. /\ SubSeq(t, 1, n) \in Seq(S)
      /\ Len(SubSeq(t, 1, n)) = IF 1 <= n THEN n - 1 + 1 ELSE 0
      /\ \A i \in 1..n - 1 + 1 : SubSeq(t, 1, n)[i] = t[1 + i - 1]
  BY <1>2, SubSeqProperties
<1>4. Len(SubSeq(t, 1, n)) = n /\ \A i \in 1..n : SubSeq(t, 1, n)[i] = t[i]
  BY <1>3
<1>5. \A i \in 1..n : Says(SubSeq(t, 1, n)[i], Stored)
  BY <1>2, <1>4 DEF Buffers
<1> QED
  BY <1>3, <1>4, <1>5, BuffersSay

LEMMA BuffersEach ==
  ASSUME NEW t, Buffers(t), NEW ms, Says(ms, Stored)
  PROVE  Buffers([k \in DOMAIN t |-> QAddmsg(t[k], ms)])
<1>1. PICK S : t \in Seq(S)
  BY DEF Buffers
<1>2. Len(t) \in Nat /\ DOMAIN t = 1..Len(t)
  BY <1>1, LenProperties
<1>3. PICK u : u = [k \in DOMAIN t |-> QAddmsg(t[k], ms)]
  OBVIOUS
<1>4. PICK T : T = {QAddmsg(t[k], ms) : k \in DOMAIN t}
  OBVIOUS
<1>5. u \in Seq(T) /\ Len(u) = Len(t)
  <2>1. u \in [1..Len(t) -> T]
    BY <1>2, <1>3, <1>4
  <2> QED
    BY <1>2, <2>1
<1>6. ASSUME NEW k \in 1..Len(u) PROVE Says(u[k], Stored)
  <2>1. Says(t[k], Stored) /\ u[k] = QAddmsg(t[k], ms)
    BY <1>2, <1>3, <1>5, <1>6 DEF Buffers
  <2> QED
    BY <2>1, Adding
<1> QED
  BY <1>3, <1>5, <1>6 DEF Buffers

LEMMA BuffersFirst ==
  ASSUME NEW t, Buffers(t), Len(t) \in Nat \ {0}, NEW q, Says(q, Stored)
  PROVE  Buffers([t EXCEPT ![1] = q])
<1>1. PICK S : t \in Seq(S)
  BY DEF Buffers
<1>2. PICK U : U = S \cup {q}
  OBVIOUS
<1>3. t \in Seq(U) /\ q \in U /\ 1 \in 1..Len(t)
  <2>1. q \in U /\ S \subseteq U
    BY <1>2
  <2> QED
    BY <1>1, <2>1, SeqMonotonic
<1>4. /\ [t EXCEPT ![1] = q] \in Seq(U)
      /\ Len([t EXCEPT ![1] = q]) = Len(t)
      /\ \A j \in 1..Len(t) : [t EXCEPT ![1] = q][j] = IF j = 1 THEN q ELSE t[j]
  BY <1>3, ExceptSeq
<1>5. ASSUME NEW k \in 1..Len(t) PROVE Says([t EXCEPT ![1] = q][k], Stored)
  BY <1>4, <1>5 DEF Buffers
<1> QED
  BY <1>4, <1>5 DEF Buffers

-----------------------------------------------------------------------------
(* A link's ends *)

\* An end e whose flags are d's, with other buffers.
Keeps(d, e) == IsEnd(e) /\ e.up = d.up /\ e.status = d.status

LEMMA OtherBuffers ==
  ASSUME NEW d, IsEnd(d), NEW t, Buffers(t)
  PROVE  Keeps(d, [d EXCEPT !.tbuf = t]) /\ [d EXCEPT !.tbuf = t].tbuf = t
<1>1. PICK e : e = [d EXCEPT !.tbuf = t]
  OBVIOUS
<1>2. d \in [up : BOOLEAN, status : SUBSET Flags, tbuf : {d.tbuf}]
  BY DEF IsEnd
<1>3. e.up = d.up /\ e.status = d.status /\ e.tbuf = t
  BY <1>1, <1>2
<1>4. e \in [up : BOOLEAN, status : SUBSET Flags, tbuf : {t}]
  BY <1>1, <1>2
<1> QED
  BY <1>1, <1>3, <1>4 DEF Keeps, IsEnd

LEMMA OtherFlags ==
  ASSUME NEW d, IsEnd(d), NEW st \in SUBSET Flags
  PROVE  /\ IsEnd([d EXCEPT !.status = st])
         /\ [d EXCEPT !.status = st].up = d.up
         /\ [d EXCEPT !.status = st].status = st
         /\ [d EXCEPT !.status = st].tbuf = d.tbuf
<1>1. PICK e : e = [d EXCEPT !.status = st]
  OBVIOUS
<1>2. d \in [up : BOOLEAN, status : SUBSET Flags, tbuf : {d.tbuf}]
  BY DEF IsEnd
<1>3. e.up = d.up /\ e.status = st /\ e.tbuf = d.tbuf
  BY <1>1, <1>2
<1>4. e \in [up : BOOLEAN, status : SUBSET Flags, tbuf : {d.tbuf}]
  BY <1>1, <1>2
<1> QED
  BY <1>1, <1>3, <1>4 DEF IsEnd

\* An end that goes down, and one that comes up.
LEMMA GoesDown ==
  ASSUME NEW d, IsEnd(d), NEW e, e = [d EXCEPT !.up = FALSE, !.status = {}]
  PROVE  IsEnd(e) /\ e.up = FALSE /\ e.status = {}
<1>1. d \in [up : BOOLEAN, status : SUBSET Flags, tbuf : {d.tbuf}]
  BY DEF IsEnd
<1>2. e.up = FALSE /\ e.status = {} /\ e.tbuf = d.tbuf
  BY <1>1
<1>3. e \in [up : BOOLEAN, status : SUBSET Flags, tbuf : {d.tbuf}]
  BY <1>1
<1> QED
  BY <1>2, <1>3 DEF IsEnd

LEMMA ComesUp ==
  ASSUME NEW d, IsEnd(d), NEW e, e = [d EXCEPT !.up = TRUE]
  PROVE  IsEnd(e) /\ e.up = TRUE /\ e.status = d.status
<1>1. d \in [up : BOOLEAN, status : SUBSET Flags, tbuf : {d.tbuf}]
  BY DEF IsEnd
<1>2. e.up = TRUE /\ e.status = d.status /\ e.tbuf = d.tbuf
  BY <1>1
<1>3. e \in [up : BOOLEAN, status : SUBSET Flags, tbuf : {d.tbuf}]
  BY <1>1
<1> QED
  BY <1>2, <1>3 DEF IsEnd

LEMMA Flushing == ASSUME NEW d, IsEnd(d) PROVE Keeps(d, FlushTbuf(d))
<1>1. CASE d.tbuf = <<>>
  BY <1>1 DEF FlushTbuf, Keeps
<1>2. CASE d.tbuf # <<>>
  <2>1. Buffers(Tail(d.tbuf))
    BY <1>2, BuffersRest DEF IsEnd
  <2> QED
    BY <1>2, <2>1, OtherBuffers DEF FlushTbuf
<1> QED
  BY <1>1, <1>2

LEMMA Beginning ==
  ASSUME NEW d, IsEnd(d)
  PROVE  /\ Keeps(d, NewTbuf(d))
         /\ NewTbuf(d).tbuf[1] = <<>> /\ Len(NewTbuf(d).tbuf) \in Nat \ {0}
<1>1. Buffers(<<<<>>>> \o d.tbuf)
      /\ (<<<<>>>> \o d.tbuf)[1] = <<>> /\ Len(<<<<>>>> \o d.tbuf) \in Nat \ {0}
  BY BuffersNew DEF IsEnd
<1> QED
  BY <1>1, OtherBuffers DEF NewTbuf

LEMMA Cancelling == ASSUME NEW b, NEW d, IsEnd(d) PROVE Keeps(d, Cancel(b, d))
<1>1. Keeps(d, FlushTbuf(d))
  BY Flushing
<1>2. Keeps(FlushTbuf(d), NewTbuf(FlushTbuf(d)))
  BY <1>1, Beginning DEF Keeps
<1> QED
  BY <1>1, <1>2 DEF Cancel, Keeps

LEMMA Keeping ==
  ASSUME NEW d, IsEnd(d), NEW m, m.cmd \in Stored PROVE Keeps(d, QResync(d, m))
<1>1. Says(<<m>>, Stored)
  BY SaysOne
<1>2. Buffers([k \in DOMAIN d.tbuf |-> QAddmsg(d.tbuf[k], <<m>>)])
  BY <1>1, BuffersEach DEF IsEnd
<1> QED
  BY <1>2, OtherBuffers DEF QResync

LEMMA Collecting ==
  ASSUME NEW d, IsEnd(d), NEW ms, Says(ms, Stored)
  PROVE  Keeps(d, QTbuf(NewTbuf(d), ms))
<1>1. PICK n : n = NewTbuf(d)
  OBVIOUS
<1>2. Keeps(d, n) /\ n.tbuf[1] = <<>> /\ Len(n.tbuf) \in Nat \ {0}
  BY <1>1, Beginning
<1>3. Says(QAddmsg(n.tbuf[1], ms), Stored)
  BY <1>2, SaysNothing, Adding
<1>4. Buffers([n.tbuf EXCEPT ![1] = QAddmsg(n.tbuf[1], ms)])
  BY <1>2, <1>3, BuffersFirst DEF Keeps, IsEnd
<1>5. QTbuf(n, ms) = [n EXCEPT !.tbuf = [n.tbuf EXCEPT ![1] = QAddmsg(n.tbuf[1], ms)]]
  BY DEF QTbuf
<1>6. Keeps(n, QTbuf(n, ms))
  BY <1>2, <1>4, <1>5, OtherBuffers DEF Keeps
<1> QED
  BY <1>1, <1>2, <1>6 DEF Keeps

LEMMA Flagging ==
  ASSUME NEW d, IsEnd(d), NEW add \in SUBSET Flags, NEW del
  PROVE  /\ IsEnd(Status(d, add, del))
         /\ Status(d, add, del).up = d.up
         /\ Status(d, add, del).status = (d.status \ del) \cup add
         /\ Status(d, add, del).tbuf = d.tbuf
<1>1. (d.status \ del) \cup add \in SUBSET Flags
  BY DEF IsEnd
<1> QED
  BY <1>1, OtherFlags DEF Status

\* What a lost link leaves.
LEMMA Losing ==
  ASSUME NEW b, NEW d, IsEnd(d)
  PROVE  IsEnd(LostEnd(b, d)) /\ LostEnd(b, d).up = FALSE /\ LostEnd(b, d).status = {}
<1>1. PICK c : c = IF b \in loaded THEN Cancel(b, d) ELSE d
  OBVIOUS
<1>2. IsEnd(c)
  BY <1>1, Cancelling DEF Keeps
<1>3. LostEnd(b, d) = [c EXCEPT !.up = FALSE, !.status = {}]
  BY <1>1 DEF LostEnd
<1> QED
  BY <1>2, <1>3, GoesDown

-----------------------------------------------------------------------------
(* All ends of a bot *)

\* e is as good an end as d was, and no hub is added to those b shares with.
NoMore(b, p, d, e) ==
  /\ EndOK(b, p, e)
  /\ <<p, b>> \in Pairs /\ "share" \in e.status => "share" \in d.status

LEMMA SameFlags ==
  ASSUME NEW b, NEW p, NEW d, EndOK(b, p, d), NEW e, Keeps(d, e)
  PROVE  NoMore(b, p, d, e)
BY DEF NoMore, EndOK, Keeps, LeafEnd

LEMMA AllEnds ==
  ASSUME NEW b, NEW ends, EndsOK(b, ends), NEW new, DOMAIN new = Bots,
         \A p \in Bots : NoMore(b, p, ends[p], new[p])
  PROVE  EndsOK(b, new)
BY DEF EndsOK, NoMore

LEMMA OneEnd ==
  ASSUME NEW b, NEW ends, EndsOK(b, ends), NEW p \in Bots, NEW e, NoMore(b, p, ends[p], e)
  PROVE  EndsOK(b, [ends EXCEPT ![p] = e])
<1>1. PICK new : new = [ends EXCEPT ![p] = e]
  OBVIOUS
<1>2. DOMAIN new = Bots
  BY <1>1 DEF EndsOK
<1>3. ASSUME NEW q \in Bots PROVE NoMore(b, q, ends[q], new[q])
  <2>1. CASE q = p
    BY <1>1, <2>1 DEF EndsOK
  <2>2. CASE q # p
    BY <1>1, <2>2 DEF EndsOK, NoMore
  <2> QED
    BY <2>1, <2>2
<1> QED
  BY <1>1, <1>2, <1>3, AllEnds

\* A handler of b that leaves its ends as they should be, and says what it may.
LEMMA Committing ==
  ASSUME IInv, NEW b \in Bots, NEW l, NEW ends, NEW unread, NEW sent, NEW files,
         Commit(b, l, ends, unread, sent, files),
         EndsOK(b, ends),
         \A p \in Bots : Says(unread[p], May(b, p)),
         \A x \in Bots : Says(sent[x], May(x, b))
  PROVE  IInv'
<1>1. DOMAIN link' = Bots /\ \A x \in Bots : EndsOK(x, link'[x])
  <2>1. link' = [link EXCEPT ![b] = ends]
    BY DEF Commit
  <2> QED
    BY <2>1 DEF IInv
<1>2. DOMAIN wire' = Bots /\ \A x \in Bots : DOMAIN wire'[x] = Bots
  BY DEF Commit
<1>3. ASSUME NEW x \in Bots, NEW y \in Bots PROVE Says(wire'[x][y], May(x, y))
  <2>1. wire'[x][y] =
          CASE x = b -> IF ends[y].up THEN unread[y] ELSE <<>>
            [] x # b /\ y = b /\ link[x][b].up ->
                 wire[x][b] \o sent[x]
                   \o IF link[b][x].up /\ ~ends[x].up THEN <<Line("eof")>> ELSE <<>>
            [] OTHER -> wire[x][y]
    BY DEF Commit
  <2>2. CASE x = b
    BY <2>1, <2>2, SaysNothing
  <2>3. CASE x # b /\ y = b /\ link[x][b].up
    <3>1. Line("eof").cmd \in May(x, b)
      BY DEF Line, May, Offers
    <3>2. PICK last : last = IF link[b][x].up /\ ~ends[x].up THEN <<Line("eof")>> ELSE <<>>
      OBVIOUS
    <3>3. Says(last, May(x, b))
      BY <3>1, <3>2, SaysOne, SaysNothing
    <3>4. Says(wire[x][b] \o sent[x], May(x, b))
      BY SaysBoth DEF IInv
    <3>5. Says((wire[x][b] \o sent[x]) \o last, May(x, b))
      BY <3>3, <3>4, SaysBoth
    <3> QED
      BY <2>1, <2>3, <3>2, <3>5
  <2>4. CASE ~(x = b) /\ ~(x # b /\ y = b /\ link[x][b].up)
    BY <2>1, <2>4 DEF IInv
  <2> QED
    BY <2>2, <2>3, <2>4
<1>4. (\A x \in Bots : EndsOK(x, link'[x])) /\ (\A x, y \in Bots : May(x, y)' = May(x, y))
  BY <1>1 DEF May
<1> QED
  BY <1>1, <1>2, <1>3, <1>4 DEF IInv

-----------------------------------------------------------------------------
(* What the handlers have in common *)

LEMMA PairsAreBots ==
  ASSUME NEW p \in Pairs
  PROVE  /\ p[1] \in Bots /\ p[2] \in Bots /\ p[1] # p[2]
         /\ p = <<p[1], p[2]>> /\ <<p[2], p[1]>> \notin Pairs
BY ShareAssumption DEF ShareAssumption

LEMMA OneWay ==
  ASSUME NEW h, NEW l, <<h, l>> \in Pairs
  PROVE  h \in Bots /\ l \in Bots /\ h # l /\ <<l, h>> \notin Pairs
BY ShareAssumption DEF ShareAssumption

\* Changes, and what ends a transfer, may be said to everybody.
LEMMA MayChange == ASSUME NEW b, NEW p PROVE Stored \subseteq May(b, p)
BY DEF Stored, May, Offers, Commands

LEMMA Waiting ==
  ASSUME IInv, NEW b \in Bots
  PROVE  EndsOK(b, link[b]) /\ \A q \in Bots : Says(Inbox(b)[q], May(b, q))
BY DEF IInv, Inbox

LEMMA Reading ==
  ASSUME IInv, NEW b \in Bots, NEW p \in Bots, NEW c, Reads(b, p, c)
  PROVE  /\ link[b][p].up
         /\ c \in May(b, p)
         /\ wire[b][p][1].cmd = c
         /\ EndOK(b, p, link[b][p]) /\ IsEnd(link[b][p])
         /\ \A q \in Bots : Says(Read(b, p)[q], May(b, q))
<1>1. DOMAIN wire[b] = Bots /\ \A q \in Bots : Says(wire[b][q], May(b, q))
  BY DEF IInv
<1>2. Says(Tail(wire[b][p]), May(b, p)) /\ wire[b][p][1].cmd \in May(b, p)
  BY <1>1, SaysRest DEF Reads
<1>3. ASSUME NEW q \in Bots PROVE Says(Read(b, p)[q], May(b, q))
  BY <1>1, <1>2 DEF Read
<1>4. EndOK(b, p, link[b][p]) /\ IsEnd(link[b][p])
  BY DEF IInv, EndsOK, EndOK
<1> QED
  BY <1>2, <1>3, <1>4 DEF Reads

LEMMA Quiet == ASSUME NEW b PROVE \A x \in Bots : Says(Silence[x], May(x, b))
BY SaysNothing DEF Silence

LEMMA Sending ==
  ASSUME NEW b, NEW p \in Bots, NEW ms, Says(ms, May(p, b))
  PROVE  \A x \in Bots : Says(To(p, ms)[x], May(x, b))
<1>1. ASSUME NEW x \in Bots PROVE Says(To(p, ms)[x], May(x, b))
  <2>1. CASE x = p
    BY <2>1 DEF To, Silence
  <2>2. CASE x # p
    <3>1. To(p, ms)[x] = <<>>
      BY <2>2 DEF To, Silence
    <3> QED
      BY <3>1, SaysNothing
  <2> QED
    BY <2>1, <2>2
<1> QED
  BY <1>1

LEMMA Answering ==
  ASSUME IInv, NEW b \in Bots, NEW p \in Bots, NEW c, Reads(b, p, c),
         NEW e, NoMore(b, p, link[b][p], e), NEW ms, Says(ms, May(p, b)),
         Answer(b, p, e, ms)
  PROVE  IInv'
<1>1. EndsOK(b, [link[b] EXCEPT ![p] = e])
  BY Waiting, OneEnd
<1>2. \A q \in Bots : Says(Read(b, p)[q], May(b, q))
  BY Reading
<1>3. \A x \in Bots : Says(To(p, ms)[x], May(x, b))
  BY Sending
<1>4. Commit(b, list[b], [link[b] EXCEPT ![p] = e], Read(b, p), To(p, ms), file)
  BY DEF Answer
<1> QED
  BY <1>1, <1>2, <1>3, <1>4, Committing

LEMMA Dropping ==
  ASSUME IInv, NEW b \in Bots, NEW p \in Bots, NEW ends, EndsOK(b, ends),
         NEW bye, Says(bye, May(p, b)), NEW files, Drop(b, p, ends, bye, files)
  PROVE  IInv'
<1>1. EndOK(b, p, ends[p]) /\ IsEnd(ends[p])
  BY DEF EndsOK, EndOK
<1>2. NoMore(b, p, ends[p], LostEnd(b, ends[p]))
  BY <1>1, Losing DEF NoMore, EndOK, LeafEnd
<1>3. EndsOK(b, [ends EXCEPT ![p] = LostEnd(b, ends[p])])
  BY <1>2, OneEnd
<1>4. \A x \in Bots : Says(To(p, bye)[x], May(x, b))
  BY Sending
<1>5. \A q \in Bots : Says(Inbox(b)[q], May(b, q))
  BY Waiting
<1>6. PICK fs : fs = Forgotten(IF b \in loaded THEN CancelFiles(files, b, p, ends[p])
                               ELSE files, b, p)
  OBVIOUS
<1>7. Commit(b, list[b], [ends EXCEPT ![p] = LostEnd(b, ends[p])], Inbox(b), To(p, bye), fs)
  BY <1>6 DEF Drop
<1> QED
  BY <1>3, <1>4, <1>5, <1>7, Committing

\* A leaf's list is never offered to its hub again.
LEMMA Hooking ==
  ASSUME NEW b \in Bots, NEW ends, EndsOK(b, ends)
  PROVE  /\ EndsOK(b, HookEnds(b, ends))
         /\ \A x \in Bots : Says(HookSent(ends)[x], May(x, b))
<1>1. ASSUME NEW x \in Bots, <<x, b>> \in Pairs PROVE ~Reoffered(ends[x])
  BY <1>1 DEF EndsOK, EndOK, LeafEnd, Reoffered
<1>2. ASSUME NEW x \in Bots PROVE Says(HookSent(ends)[x], May(x, b))
  <2>1. CASE Reoffered(ends[x])
    <3>1. Line("u?").cmd \in May(x, b)
      BY <1>1, <2>1, OneWay DEF May, Line, Offers
    <3> QED
      BY <2>1, <3>1, SaysOne DEF HookSent
  <2>2. CASE ~Reoffered(ends[x])
    BY <2>2, SaysNothing DEF HookSent
  <2> QED
    BY <2>1, <2>2
<1>3. ASSUME NEW p \in Bots PROVE NoMore(b, p, ends[p], HookEnds(b, ends)[p])
  <2>1. EndOK(b, p, ends[p]) /\ IsEnd(ends[p])
    BY DEF EndsOK, EndOK
  <2>2. CASE ~Reoffered(ends[p])
    <3>1. HookEnds(b, ends)[p] = ends[p]
      BY <2>2 DEF HookEnds
    <3> QED
      BY <2>1, <3>1 DEF NoMore
  <2>3. CASE Reoffered(ends[p])
    <3>1. PICK c : c = IF "sending" \in ends[p].status THEN Cancel(b, ends[p]) ELSE ends[p]
      OBVIOUS
    <3>2. IsEnd(c) /\ c.status = ends[p].status
      BY <2>1, <3>1, Cancelling DEF Keeps
    <3>3. HookEnds(b, ends)[p] = [c EXCEPT !.status = c.status \cup {"offered"}]
      BY <2>3, <3>1 DEF HookEnds
    <3>4. c.status \cup {"offered"} \in SUBSET Flags
      BY <3>2 DEF IsEnd, Flags
    <3>5. IsEnd(HookEnds(b, ends)[p])
      BY <3>2, <3>3, <3>4, OtherFlags
    <3> QED
      BY <1>1, <2>3, <3>5 DEF NoMore, EndOK
  <2> QED
    BY <2>2, <2>3
<1>4. DOMAIN HookEnds(b, ends) = Bots
  BY DEF HookEnds
<1>5. EndsOK(b, HookEnds(b, ends))
  BY <1>3, <1>4, AllEnds
<1> QED
  BY <1>2, <1>5

\* A change goes into every buffer and to everybody who shares.
LEMMA Forwarding ==
  ASSUME NEW b \in Bots, NEW ends, EndsOK(b, ends), NEW m, m.cmd \in Commands, NEW x
  PROVE  /\ EndsOK(b, Kept(ends, m))
         /\ \A y \in Bots : Says(Shareout(b, ends, x, m)[y], May(y, b))
<1>1. m.cmd \in Stored
  BY DEF Stored
<1>2. ASSUME NEW p \in Bots PROVE NoMore(b, p, ends[p], Kept(ends, m)[p])
  <2>1. EndOK(b, p, ends[p]) /\ IsEnd(ends[p])
    BY DEF EndsOK, EndOK
  <2>2. Keeps(ends[p], QResync(ends[p], m))
    BY <1>1, <2>1, Keeping
  <2>3. Kept(ends, m)[p] = QResync(ends[p], m)
    BY DEF Kept
  <2> QED
    BY <2>1, <2>2, <2>3, SameFlags
<1>3. DOMAIN Kept(ends, m) = Bots
  BY DEF Kept
<1>4. EndsOK(b, Kept(ends, m))
  BY <1>2, <1>3, AllEnds
<1>5. ASSUME NEW y \in Bots PROVE Says(Shareout(b, ends, x, m)[y], May(y, b))
  <2>1. m.cmd \in May(y, b)
    BY <1>1, MayChange
  <2>2. Says(<<m>>, May(y, b)) /\ Says(<<>>, May(y, b))
    BY <2>1, SaysOne, SaysNothing
  <2> QED
    BY <2>2 DEF Shareout
<1> QED
  BY <1>4, <1>5

-----------------------------------------------------------------------------
(* The lines *)

LEMMA UserfileqKeeps ==
  ASSUME IInv, NEW b \in Bots, NEW p \in Bots, Userfileq(b, p)
  PROVE  IInv'
<1>1. PICK e : e = FlushTbuf(link[b][p])
  OBVIOUS
<1>2. Reads(b, p, "u?")
  BY DEF Userfileq
<1>3. /\ EndOK(b, p, link[b][p]) /\ IsEnd(link[b][p]) /\ link[b][p].up
      /\ \A q \in Bots : Says(Read(b, p)[q], May(b, q))
  BY <1>2, Reading
<1>4. Keeps(link[b][p], e)
  BY <1>1, <1>3, Flushing
<1>5. CASE <<p, b>> \notin Pairs \/ OtherSource(b, p)
  <2>1. Line("un").cmd \in May(p, b)
    BY DEF May, Line, Offers
  <2>2. Says(<<Line("un")>>, May(p, b))
    BY <2>1, SaysOne
  <2>3. NoMore(b, p, link[b][p], e)
    BY <1>3, <1>4, SameFlags
  <2>4. Answer(b, p, e, <<Line("un")>>)
    BY <1>1, <1>5 DEF Userfileq
  <2> QED
    BY <1>2, <2>2, <2>3, <2>4, Answering
<1>6. CASE ~(<<p, b>> \notin Pairs \/ OtherSource(b, p))
  <2>1. PICK n : n = Status(e, {"share", "getting", "aggressive"}, {})
    OBVIOUS
  <2>2. PICK add \in SUBSET Flags : add = {"share", "getting", "aggressive"}
    BY DEF Flags
  <2>3. IsEnd(n) /\ n.up /\ n.status = e.status \cup {"share", "getting", "aggressive"}
    <3>1. n = Status(e, add, {})
      BY <2>1, <2>2
    <3>2. IsEnd(n) /\ n.up = e.up /\ n.status = (e.status \ {}) \cup add
      BY <1>4, <3>1, Flagging DEF Keeps
    <3> QED
      BY <1>3, <1>4, <2>2, <3>2 DEF Keeps
  <2>4. EndOK(b, p, n)
    BY <1>3, <1>4, <2>3 DEF EndOK, LeafEnd, Keeps
  <2>5. Answer(b, p, n, <<Line("uy")>>)
    BY <1>1, <1>6, <2>1 DEF Userfileq
  <2>6. Line("uy").cmd \in May(p, b)
    BY DEF May, Line, Offers
  <2>7. Says(<<Line("uy")>>, May(p, b))
    BY <2>6, SaysOne
  <2>8. ASSUME NEW q \in Bots, <<q, b>> \in Pairs, q # p
        PROVE  "share" \notin link[b][q].status
    <3>1. LeafEnd(link[b][q])
      BY <2>8 DEF IInv, EndsOK, EndOK
    <3> QED
      BY <1>6, <2>8, <3>1 DEF LeafEnd, OtherSource
  <2>9. PICK new : new = [link[b] EXCEPT ![p] = n]
    OBVIOUS
  <2>10. DOMAIN new = Bots /\ \A q \in Bots : new[q] = IF q = p THEN n ELSE link[b][q]
    BY <2>9 DEF IInv, EndsOK
  <2>11. \A q \in Bots : EndOK(b, q, new[q])
    BY <2>4, <2>10 DEF IInv, EndsOK
  <2>12. ASSUME NEW q \in Bots, <<q, b>> \in Pairs, "share" \in new[q].status
         PROVE  q = p
    BY <2>8, <2>10, <2>12
  <2>13. EndsOK(b, new)
    BY <2>10, <2>11, <2>12 DEF EndsOK
  <2>14. Commit(b, list[b], new, Read(b, p), To(p, <<Line("uy")>>), file)
    BY <2>5, <2>9 DEF Answer
  <2>15. \A x \in Bots : Says(To(p, <<Line("uy")>>)[x], May(x, b))
    BY <2>7, Sending
  <2> QED
    BY <1>3, <2>13, <2>14, <2>15, Committing
<1> QED
  BY <1>5, <1>6

LEMMA UfnoKeeps ==
  ASSUME IInv, NEW b \in Bots, NEW p \in Bots, Ufno(b, p)
  PROVE  IInv'
<1>1. PICK d : d = link[b][p]
  OBVIOUS
<1>2. PICK del : del = {"offered"} \cup
                         IF "getting" \in d.status THEN {} ELSE {"share", "aggressive"}
  OBVIOUS
<1>3. Reads(b, p, "un") /\ Answer(b, p, Status(d, {}, del), <<>>)
  BY <1>1, <1>2 DEF Ufno
<1>4. EndOK(b, p, d) /\ IsEnd(d)
  BY <1>1, <1>3, Reading
<1>5. PICK n : n = Status(d, {}, del)
  OBVIOUS
<1>6. IsEnd(n) /\ n.up = d.up /\ n.status = d.status \ del
  <2>1. {} \in SUBSET Flags
    OBVIOUS
  <2>2. PICK add \in SUBSET Flags : add = {}
    BY <2>1
  <2>3. n = Status(d, add, del)
    BY <1>5, <2>2
  <2>4. /\ IsEnd(Status(d, add, del))
        /\ Status(d, add, del).up = d.up
        /\ Status(d, add, del).status = (d.status \ del) \cup add
    BY <1>4, Flagging
  <2> QED
    BY <2>2, <2>3, <2>4
<1>7. NoMore(b, p, d, n)
  <2>1. LeafEnd(d) => LeafEnd(n)
    BY <1>2, <1>6 DEF LeafEnd
  <2> QED
    BY <1>4, <1>6, <2>1 DEF NoMore, EndOK
<1> QED
  BY <1>1, <1>3, <1>5, <1>7, SaysNothing, Answering

LEMMA Startup == ASSUME NEW l PROVE Says(Collected(l), Stored)
<1>1. PICK bots : bots = {r \in BotRecs : l[r] # 0}
  OBVIOUS
<1>2. Cardinality(bots) \in Nat
  <2>1. IsFiniteSet(bots)
    BY <1>1, FS_Subset, ShareAssumption DEF ShareAssumption
  <2> QED
    BY <2>1, FS_CardinalityType
<1>3. PICK n \in Nat : n = 2 * Cardinality(bots)
  BY <1>2
<1>4. PICK js : js = JumpStart(l)
  OBVIOUS
<1>5. DOMAIN js = 1..n /\ js = [k \in 1..n |-> js[k]]
  BY <1>1, <1>3, <1>4 DEF JumpStart
<1>6. \A k \in 1..n : js[k].cmd \in {"+bh", "a"}
  BY <1>1, <1>3, <1>4 DEF JumpStart, Chg
<1>7. PICK S : S = {js[k] : k \in 1..n}
  OBVIOUS
<1>8. js \in Seq(S) /\ Len(js) = n
  <2>1. js \in [1..n -> S]
    BY <1>5, <1>7
  <2> QED
    BY <1>3, <2>1
<1>9. \A k \in 1..n : js[k].cmd \in Stored
  BY <1>6 DEF Stored, Commands
<1>10. Says(js, Stored)
  BY <1>8, <1>9, SaysEach
<1>11. Says(<<Line("!")>>, Stored)
  <2>1. Line("!").cmd \in Stored
    BY DEF Line, Stored
  <2> QED
    BY <2>1, SaysOne
<1>12. Says(js \o <<Line("!")>>, Stored)
  BY <1>10, <1>11, SaysBoth
<1>13. Append(js, Line("!")) = js \o <<Line("!")>>
  BY <1>8
<1> QED
  BY <1>4, <1>12, <1>13 DEF Collected

LEMMA UfyesKeeps ==
  ASSUME IInv, NEW b \in Bots, NEW p \in Bots, Ufyes(b, p)
  PROVE  IInv'
<1>1. PICK e : e = link[b][p]
  OBVIOUS
<1>2. PICK s : s = Status(e, {"share", "sending"}, {"offered"})
  OBVIOUS
<1>3. Reads(b, p, "uy")
  BY DEF Ufyes
<1>4. /\ EndOK(b, p, e) /\ IsEnd(e)
      /\ \A q \in Bots : Says(Read(b, p)[q], May(b, q))
  BY <1>1, <1>3, Reading
<1>5. IsEnd(s)
  <2>1. {"share", "sending"} \in SUBSET Flags
    BY DEF Flags
  <2> QED
    BY <1>2, <1>4, <2>1, Flagging
<1>6. CASE Answer(b, p, e, <<>>)
  <2>1. NoMore(b, p, link[b][p], e)
    BY <1>1, <1>4 DEF NoMore
  <2> QED
    BY <1>3, <1>6, <2>1, SaysNothing, Answering
<1>7. CASE /\ <<b, p>> \in Pairs
           /\ Commit(b, list[b],
                 [link[b] EXCEPT ![p] = QTbuf(NewTbuf(s), Collected(list[b]))],
                 Read(b, p), To(p, <<Line("us")>>),
                 [file EXCEPT ![<<b, p>>] = Append(@, Transfer(list[b],
                    IF link[p][b].up THEN "none" ELSE "closed"))])
  <2>1. Keeps(s, QTbuf(NewTbuf(s), Collected(list[b])))
    BY <1>5, Startup, Collecting
  <2>2. NoMore(b, p, link[b][p], QTbuf(NewTbuf(s), Collected(list[b])))
    BY <1>7, <2>1, OneWay DEF NoMore, EndOK, Keeps
  <2>3. EndsOK(b, [link[b] EXCEPT ![p] = QTbuf(NewTbuf(s), Collected(list[b]))])
    BY <2>2, Waiting, OneEnd
  <2>4. Line("us").cmd \in May(p, b)
    BY DEF May, Line, Offers
  <2>5. \A x \in Bots : Says(To(p, <<Line("us")>>)[x], May(x, b))
    BY <2>4, SaysOne, Sending
  <2> QED
    BY <1>4, <1>7, <2>3, <2>5, Committing
<1>8. CASE /\ <<b, p>> \in Pairs
           /\ Answer(b, p, Status(s, {}, {"share", "sending", "aggressive"}),
                      <<Line("e")>>)
  <2>1. {} \in SUBSET Flags
    OBVIOUS
  <2>2. IsEnd(Status(s, {}, {"share", "sending", "aggressive"}))
    BY <1>5, <2>1, Flagging
  <2>3. NoMore(b, p, link[b][p], Status(s, {}, {"share", "sending", "aggressive"}))
    BY <1>8, <2>2, OneWay DEF NoMore, EndOK
  <2>4. Line("e").cmd \in May(p, b)
    BY DEF May, Line, Offers
  <2>5. Says(<<Line("e")>>, May(p, b))
    BY <2>4, SaysOne
  <2> QED
    BY <1>3, <1>8, <2>3, <2>5, Answering
<1> QED
  BY <1>1, <1>2, <1>6, <1>7, <1>8 DEF Ufyes

\* Flags that are taken away, or have nothing to do with whose list is taken.
LEMMA FewerFlags ==
  ASSUME NEW b, NEW p, NEW d, EndOK(b, p, d), NEW add \in SUBSET {"getting"}, NEW del,
         "aggressive" \in del => "share" \in del
  PROVE  NoMore(b, p, d, Status(d, add, del))
<1>1. add \in SUBSET Flags /\ "share" \notin add /\ "offered" \notin add
  BY DEF Flags
<1>2. PICK n : n = Status(d, add, del)
  OBVIOUS
<1>3. IsEnd(n) /\ n.up = d.up /\ n.status = (d.status \ del) \cup add
  BY <1>1, <1>2, Flagging DEF EndOK
<1>4. LeafEnd(d) => LeafEnd(n)
  BY <1>1, <1>3 DEF LeafEnd
<1>5. "share" \in n.status => "share" \in d.status
  BY <1>1, <1>3
<1> QED
  BY <1>2, <1>3, <1>4, <1>5 DEF NoMore, EndOK

LEMMA UfsendKeeps ==
  ASSUME IInv, NEW b \in Bots, NEW p \in Bots, Ufsend(b, p)
  PROVE  IInv'
<1>1. PICK k : k = Announced(p, b)
  OBVIOUS
<1>2. Reads(b, p, "us")
  BY DEF Ufsend
<1>3. /\ EndOK(b, p, link[b][p])
      /\ \A q \in Bots : Says(Read(b, p)[q], May(b, q))
  BY <1>2, Reading
<1>4. CASE Commit(b, list[b],
                  [link[b] EXCEPT ![p] = Status(@, {"getting"}, {})],
                  Read(b, p), Silence,
                  [file EXCEPT ![<<p, b>>][k].leaf = "connecting"])
  <2>1. {"getting"} \in SUBSET {"getting"}
    OBVIOUS
  <2>2. NoMore(b, p, link[b][p], Status(link[b][p], {"getting"}, {}))
    BY <1>3, <2>1, FewerFlags
  <2>3. EndsOK(b, [link[b] EXCEPT ![p] = Status(link[b][p], {"getting"}, {})])
    BY <2>2, Waiting, OneEnd
  <2> QED
    BY <1>3, <1>4, <2>3, Quiet, Committing
<1>5. CASE Drop(b, p, link[b], <<Line("e"), Line("bye")>>,
                [file EXCEPT ![<<p, b>>][k].leaf = "closed"])
  <2>1. Line("e").cmd \in May(p, b) /\ Line("bye").cmd \in May(p, b)
    BY DEF May, Line, Offers
  <2>2. Says(<<Line("e"), Line("bye")>>, May(p, b))
    BY <2>1, SaysTwo
  <2> QED
    BY <1>5, <2>2, Waiting, Dropping
<1> QED
  BY <1>1, <1>4, <1>5 DEF Ufsend

\* Both sides of a resync; b is no leaf of p's.
LEMMA ResyncKeeps ==
  ASSUME IInv, NEW b \in Bots, NEW p \in Bots, NEW c, Reads(b, p, c),
         <<p, b>> \notin Pairs, CanResync(link[b][p]),
         NEW first, Says(first, May(p, b)), Resync(b, p, first)
  PROVE  IInv'
<1>1. PICK e : e = link[b][p]
  OBVIOUS
<1>2. IsEnd(e)
  BY <1>1, Reading
<1>3. Says(e.tbuf[1], May(p, b))
  <2>1. Says(e.tbuf[1], Stored)
    BY <1>1, <1>2, BuffersRest DEF IsEnd, CanResync
  <2> QED
    BY <2>1, MayChange, SaysMore
<1>4. Says(first \o e.tbuf[1], May(p, b))
  BY <1>3, SaysBoth
<1>5. IsEnd(FlushTbuf(e))
  BY <1>2, Flushing DEF Keeps
<1>6. IsEnd(Status(FlushTbuf(e), {"share"}, {"offered"}))
  <2>1. {"share"} \in SUBSET Flags
    BY DEF Flags
  <2> QED
    BY <1>5, <2>1, Flagging
<1>7. NoMore(b, p, link[b][p], Status(FlushTbuf(e), {"share"}, {"offered"}))
  BY <1>6 DEF NoMore, EndOK
<1>8. Answer(b, p, Status(FlushTbuf(e), {"share"}, {"offered"}), first \o e.tbuf[1])
  BY <1>1 DEF Resync
<1> QED
  BY <1>4, <1>7, <1>8, Answering

LEMMA ResyncqKeeps ==
  ASSUME IInv, LeavesTakeFiles, NEW b \in Bots, NEW p \in Bots, Resyncq(b, p)
  PROVE  IInv'
<1>1. Reads(b, p, "r?")
  BY DEF Resyncq
<1>2. EndOK(b, p, link[b][p]) /\ "r?" \in May(b, p)
  BY <1>1, Reading
<1>3. CASE b \in AllowResync /\ CanResync(link[b][p])
  <2>1. <<p, b>> \notin Pairs
    BY <1>3 DEF LeavesTakeFiles
  <2>2. Line("r!").cmd \in May(p, b)
    BY DEF May, Line, Offers
  <2>3. Says(<<Line("r!")>>, May(p, b))
    BY <2>2, SaysOne
  <2>4. Resync(b, p, <<Line("r!")>>)
    BY <1>3 DEF Resyncq
  <2> QED
    BY <1>1, <1>3, <2>1, <2>3, <2>4, ResyncKeeps
<1>4. CASE ~(b \in AllowResync /\ CanResync(link[b][p]))
  <2>1. Answer(b, p, link[b][p], <<Line("rn")>>)
    BY <1>4 DEF Resyncq
  <2>2. <<b, p>> \notin Pairs
    BY <1>2 DEF May
  <2>3. Line("rn").cmd \in May(p, b)
    BY <2>2 DEF May, Line, Offers
  <2>4. Says(<<Line("rn")>>, May(p, b))
    BY <2>3, SaysOne
  <2>5. NoMore(b, p, link[b][p], link[b][p])
    BY <1>2 DEF NoMore
  <2> QED
    BY <1>1, <2>1, <2>4, <2>5, Answering
<1> QED
  BY <1>3, <1>4

LEMMA ResyncYesKeeps ==
  ASSUME IInv, NEW b \in Bots, NEW p \in Bots, ResyncYes(b, p)
  PROVE  IInv'
<1>1. Reads(b, p, "r!")
  BY DEF ResyncYes
<1>2. EndOK(b, p, link[b][p])
  BY <1>1, Reading
<1>3. CASE "offered" \in link[b][p].status /\ CanResync(link[b][p])
  <2>1. <<p, b>> \notin Pairs
    BY <1>2, <1>3 DEF EndOK, LeafEnd
  <2>2. Resync(b, p, <<>>)
    BY <1>3 DEF ResyncYes
  <2> QED
    BY <1>1, <1>3, <2>1, <2>2, SaysNothing, ResyncKeeps
<1>4. CASE ~("offered" \in link[b][p].status /\ CanResync(link[b][p]))
  <2>1. Answer(b, p, link[b][p], <<>>)
    BY <1>4 DEF ResyncYes
  <2>2. NoMore(b, p, link[b][p], link[b][p])
    BY <1>2 DEF NoMore
  <2> QED
    BY <1>1, <2>1, <2>2, SaysNothing, Answering
<1> QED
  BY <1>3, <1>4

LEMMA ResyncNoKeeps ==
  ASSUME IInv, NEW b \in Bots, NEW p \in Bots, ResyncNo(b, p)
  PROVE  IInv'
<1>1. Reads(b, p, "rn") /\ Answer(b, p, FlushTbuf(link[b][p]), <<Line("u?")>>)
  BY DEF ResyncNo
<1>2. EndOK(b, p, link[b][p]) /\ IsEnd(link[b][p]) /\ "rn" \in May(b, p)
  BY <1>1, Reading
<1>3. <<p, b>> \notin Pairs
  BY <1>2 DEF May
<1>4. Line("u?").cmd \in May(p, b)
  BY <1>3 DEF May, Line, Offers
<1>5. Says(<<Line("u?")>>, May(p, b))
  BY <1>4, SaysOne
<1>6. NoMore(b, p, link[b][p], FlushTbuf(link[b][p]))
  BY <1>2, Flushing, SameFlags
<1> QED
  BY <1>1, <1>5, <1>6, Answering

LEMMA EndstartupKeeps ==
  ASSUME IInv, NEW b \in Bots, NEW p \in Bots, Endstartup(b, p)
  PROVE  IInv'
<1>1. PICK ends : ends = [link[b] EXCEPT ![p] = Status(link[b][p], {}, {"getting"})]
  OBVIOUS
<1>2. Reads(b, p, "!")
  BY DEF Endstartup
<1>3. /\ EndOK(b, p, link[b][p])
      /\ \A q \in Bots : Says(Read(b, p)[q], May(b, q))
  BY <1>2, Reading
<1>4. {} \in SUBSET {"getting"}
  OBVIOUS
<1>5. NoMore(b, p, link[b][p], Status(link[b][p], {}, {"getting"}))
  BY <1>3, <1>4, FewerFlags
<1>6. EndsOK(b, ends)
  BY <1>1, <1>5, Waiting, OneEnd
<1>7. Commit(b, list[b], HookEnds(b, ends), Read(b, p), HookSent(ends), HookFiles(b, ends))
  BY <1>1 DEF Endstartup
<1> QED
  BY <1>3, <1>6, <1>7, Hooking, Committing

LEMMA ShareEndKeeps ==
  ASSUME IInv, NEW b \in Bots, NEW p \in Bots, ShareEnd(b, p)
  PROVE  IInv'
<1>1. PICK e : e = Status(Cancel(b, link[b][p]), {}, Flags)
  OBVIOUS
<1>2. Reads(b, p, "e")
  BY DEF ShareEnd
<1>3. /\ EndOK(b, p, link[b][p]) /\ IsEnd(link[b][p])
      /\ \A q \in Bots : Says(Read(b, p)[q], May(b, q))
  BY <1>2, Reading
<1>4. Keeps(link[b][p], Cancel(b, link[b][p]))
  BY <1>3, Cancelling
<1>5. EndOK(b, p, Cancel(b, link[b][p]))
  BY <1>3, <1>4, SameFlags DEF NoMore
<1>6. {} \in SUBSET {"getting"} /\ "share" \in Flags
  BY DEF Flags
<1>7. NoMore(b, p, Cancel(b, link[b][p]), e)
  BY <1>1, <1>5, <1>6, FewerFlags
<1>8. NoMore(b, p, link[b][p], e)
  BY <1>4, <1>7 DEF NoMore, Keeps
<1>9. EndsOK(b, [link[b] EXCEPT ![p] = e])
  BY <1>8, Waiting, OneEnd
<1>10. Commit(b, list[b], [link[b] EXCEPT ![p] = e], Read(b, p), Silence,
              CancelFiles(file, b, p, link[b][p]))
  BY <1>1 DEF ShareEnd
<1> QED
  BY <1>3, <1>9, <1>10, Quiet, Committing

LEMMA ChangeKeeps ==
  ASSUME IInv, NEW b \in Bots, NEW p \in Bots, Change(b, p)
  PROVE  IInv'
<1>1. PICK m : m = wire[b][p][1]
  OBVIOUS
<1>2. PICK c \in Commands : Reads(b, p, c)
  BY DEF Change
<1>3. /\ EndOK(b, p, link[b][p]) /\ m.cmd \in Commands
      /\ \A q \in Bots : Says(Read(b, p)[q], May(b, q))
  BY <1>1, <1>2, Reading
<1>4. EndsOK(b, link[b])
  BY Waiting
<1>5. CASE Answer(b, p, link[b][p], <<>>)
  <2>1. NoMore(b, p, link[b][p], link[b][p])
    BY <1>3 DEF NoMore
  <2> QED
    BY <1>2, <1>5, <2>1, SaysNothing, Answering
<1>6. CASE Commit(b, Applied(list[b], m), Kept(link[b], m), Read(b, p),
                  Shareout(b, link[b], p, m), file)
  BY <1>3, <1>4, <1>6, Forwarding, Committing
<1>7. CASE Commit(b, Applied(list[b], m), link[b], Read(b, p), Silence, file)
  BY <1>3, <1>4, <1>7, Quiet, Committing
<1> QED
  BY <1>1, <1>5, <1>6, <1>7 DEF Change

LEMMA NullShareKeeps ==
  ASSUME IInv, NEW b \in Bots, NEW p \in Bots, NullShare(b, p)
  PROVE  IInv'
<1>1. PICK e : e = link[b][p]
  OBVIOUS
<1>2. PICK del : del = {"offered"} \cup IF "getting" \in e.status THEN {} ELSE {"share"}
  OBVIOUS
<1>3. CASE Reads(b, p, "e") /\ Answer(b, p, e, <<>>)
  <2>1. EndOK(b, p, e)
    BY <1>1, <1>3, Reading
  <2>2. NoMore(b, p, link[b][p], e)
    BY <1>1, <2>1 DEF NoMore
  <2> QED
    BY <1>3, <2>2, SaysNothing, Answering
<1>4. CASE Reads(b, p, "un") /\ Answer(b, p, Status(e, {}, del), <<>>)
  <2>1. EndOK(b, p, e)
    BY <1>1, <1>4, Reading
  <2>2. {} \in SUBSET {"getting"} /\ "aggressive" \notin del
    BY <1>2
  <2>3. NoMore(b, p, link[b][p], Status(e, {}, del))
    BY <1>1, <2>1, <2>2, FewerFlags
  <2> QED
    BY <1>4, <2>3, SaysNothing, Answering
<1>5. ASSUME NEW c, Reads(b, p, c), NEW files,
             Commit(b, list[b], link[b], Read(b, p), To(p, <<Line("un")>>), files)
      PROVE  IInv'
  <2>1. \A q \in Bots : Says(Read(b, p)[q], May(b, q))
    BY <1>5, Reading
  <2>2. Line("un").cmd \in May(p, b)
    BY DEF May, Line, Offers
  <2>3. \A x \in Bots : Says(To(p, <<Line("un")>>)[x], May(x, b))
    BY <2>2, SaysOne, Sending
  <2> QED
    BY <1>5, <2>1, <2>3, Waiting, Committing
<1> QED
  BY <1>1, <1>2, <1>3, <1>4, <1>5 DEF NullShare

LEMMA ShareInKeeps ==
  ASSUME IInv, LeavesTakeFiles, NEW b \in Bots, NEW p \in Bots, ShareIn(b, p)
  PROVE  IInv'
BY UserfileqKeeps, UfnoKeeps, UfyesKeeps, UfsendKeeps, ResyncqKeeps, ResyncYesKeeps,
   ResyncNoKeeps, EndstartupKeeps, ShareEndKeeps, ChangeKeeps, NullShareKeeps DEF ShareIn

-----------------------------------------------------------------------------
(* The file *)

\* What does not touch the links and their lines.
LEMMA Stuttering == ASSUME IInv, UNCHANGED <<link, wire>> PROVE IInv'
<1>1. \A b, p \in Bots : May(b, p)' = May(b, p)
  BY DEF May
<1>2. /\ DOMAIN link' = Bots
      /\ \A b \in Bots : EndsOK(b, link'[b])
      /\ DOMAIN wire' = Bots
      /\ \A b \in Bots : DOMAIN wire'[b] = Bots /\ \A p \in Bots : Says(wire'[b][p], May(b, p))
  BY DEF IInv
<1> QED
  BY <1>1, <1>2 DEF IInv

LEMMA AckedKeeps ==
  ASSUME IInv, NEW p \in Pairs, NEW k, Acked(p, k)
  PROVE  IInv'
<1>1. PICK h \in Bots : h = p[1]
  BY PairsAreBots
<1>2. PICK l \in Bots : l = p[2]
  BY PairsAreBots
<1>3. PICK e : e = link[h][l]
  OBVIOUS
<1>4. PICK n : n = IF e.up THEN FlushTbuf(Status(e, {}, {"sending"})) ELSE e
  OBVIOUS
<1>5. PICK ms : ms = IF e.up /\ CanResync(e) THEN e.tbuf[1] ELSE <<>>
  OBVIOUS
<1>6. IsEnd(e) /\ <<l, h>> \notin Pairs
  BY <1>1, <1>2, <1>3, PairsAreBots DEF IInv, EndsOK, EndOK
<1>7. IsEnd(n)
  <2>1. {} \in SUBSET Flags
    OBVIOUS
  <2>2. IsEnd(Status(e, {}, {"sending"}))
    BY <1>6, <2>1, Flagging
  <2>3. IsEnd(FlushTbuf(Status(e, {}, {"sending"})))
    BY <2>2, Flushing DEF Keeps
  <2> QED
    BY <1>4, <1>6, <2>3
<1>8. Says(ms, May(l, h))
  <2>1. CASE e.up /\ CanResync(e)
    <3>1. Says(e.tbuf[1], Stored)
      BY <1>6, <2>1, BuffersRest DEF IsEnd, CanResync
    <3> QED
      BY <1>5, <2>1, <3>1, MayChange, SaysMore
  <2>2. CASE ~(e.up /\ CanResync(e))
    BY <1>5, <2>2, SaysNothing
  <2> QED
    BY <2>1, <2>2
<1>9. NoMore(h, l, link[h][l], n)
  BY <1>6, <1>7 DEF NoMore, EndOK
<1>10. EndsOK(h, [link[h] EXCEPT ![l] = n])
  BY <1>9, Waiting, OneEnd
<1>11. \A x \in Bots : Says(To(l, ms)[x], May(x, h))
  BY <1>8, Sending
<1>12. Commit(h, list[h], [link[h] EXCEPT ![l] = n], Inbox(h), To(l, ms),
              [file EXCEPT ![p][k].hub = "closed"])
  BY <1>1, <1>2, <1>3, <1>4, <1>5 DEF Acked
<1> QED
  BY <1>10, <1>11, <1>12, Waiting, Committing

LEMMA FileEofKeeps ==
  ASSUME IInv, NEW p \in Pairs, NEW k, FileEof(p, k)
  PROVE  IInv'
<1>1. PICK h \in Bots : h = p[1]
  BY PairsAreBots
<1>2. PICK l \in Bots : l = p[2]
  BY PairsAreBots
<1>3. PICK files : files = [file EXCEPT ![p][k].leaf = "closed"]
  OBVIOUS
<1>4. ASSUME NEW new, Commit(l, new, link[l], Inbox(l), Silence, files)
      PROVE  IInv'
  BY <1>4, Waiting, Quiet, Committing
<1>5. CASE Drop(l, h, link[l], <<Line("bye")>>, files)
  <2>1. Line("bye").cmd \in May(h, l)
    BY DEF May, Line, Offers
  <2>2. Says(<<Line("bye")>>, May(h, l))
    BY <2>1, SaysOne
  <2> QED
    BY <1>5, <2>2, Waiting, Dropping
<1> QED
  BY <1>1, <1>2, <1>3, <1>4, <1>5 DEF FileEof

LEMMA FileFailsKeeps ==
  ASSUME IInv, NEW p \in Pairs, NEW k, FileFails(p, k)
  PROVE  IInv'
<1>1. PICK h \in Bots : h = p[1]
  BY PairsAreBots
<1>2. PICK l \in Bots : l = p[2]
  BY PairsAreBots
<1>3. PICK e : e = link[l][h]
  OBVIOUS
<1>4. PICK n : n = IF e.up THEN Status(e, {}, {"getting", "share"}) ELSE e
  OBVIOUS
<1>5. EndOK(l, h, e)
  BY <1>3 DEF IInv, EndsOK
<1>6. NoMore(l, h, e, n)
  <2>1. {} \in SUBSET {"getting"}
    OBVIOUS
  <2>2. NoMore(l, h, e, Status(e, {}, {"getting", "share"}))
    BY <1>5, <2>1, FewerFlags
  <2>3. NoMore(l, h, e, e)
    BY <1>5 DEF NoMore
  <2> QED
    BY <1>4, <2>2, <2>3
<1>7. EndsOK(l, [link[l] EXCEPT ![h] = n])
  BY <1>3, <1>6, Waiting, OneEnd
<1>8. Commit(l, list[l], [link[l] EXCEPT ![h] = n], Inbox(l), Silence,
             [file EXCEPT ![p][k].leaf = "closed"])
  BY <1>1, <1>2, <1>3, <1>4 DEF FileFails
<1> QED
  BY <1>7, <1>8, Waiting, Quiet, Committing

LEMMA SendFailsKeeps ==
  ASSUME IInv, NEW p \in Pairs, NEW k, SendFails(p, k)
  PROVE  IInv'
<1>1. PICK h \in Bots : h = p[1]
  BY PairsAreBots
<1>2. PICK l \in Bots : l = p[2]
  BY PairsAreBots
<1>3. PICK e : e = link[h][l]
  OBVIOUS
<1>4. EndOK(h, l, e)
  BY <1>3 DEF IInv, EndsOK
<1>5. PICK files : files = [file EXCEPT ![p][k].hub = "closed"]
  OBVIOUS
<1>6. ASSUME NEW s, s \in {e, Status(e, {}, {"sending", "share"})},
             Drop(h, l, [link[h] EXCEPT ![l] = s], <<Line("bye")>>, files)
      PROVE  IInv'
  <2>1. {} \in SUBSET {"getting"}
    OBVIOUS
  <2>2. NoMore(h, l, e, Status(e, {}, {"sending", "share"}))
    BY <1>4, <2>1, FewerFlags
  <2>3. NoMore(h, l, e, s)
    BY <1>4, <1>6, <2>2 DEF NoMore
  <2>4. EndsOK(h, [link[h] EXCEPT ![l] = s])
    BY <1>3, <2>3, Waiting, OneEnd
  <2>5. Line("bye").cmd \in May(l, h)
    BY DEF May, Line, Offers
  <2>6. Says(<<Line("bye")>>, May(l, h))
    BY <2>5, SaysOne
  <2> QED
    BY <1>6, <2>4, <2>6, Dropping
<1>7. CASE Commit(h, list[h], link[h], Inbox(h), Silence, files)
  BY <1>7, Waiting, Quiet, Committing
<1> QED
  BY <1>1, <1>2, <1>3, <1>5, <1>6, <1>7 DEF SendFails

LEMMA FilesKeep ==
  ASSUME IInv, NEW p \in Pairs, NEW k, Files(p, k)
  PROVE  IInv'
<1>1. CASE Connect(p, k) \/ Arrives(p, k)
  BY <1>1, Stuttering DEF Connect, Arrives
<1> QED
  BY <1>1, AckedKeeps, FileEofKeeps, FileFailsKeeps, SendFailsKeeps DEF Files

-----------------------------------------------------------------------------
(* Links, operators and the clock *)

LEMMA LinkUpKeeps ==
  ASSUME IInv, NEW h, NEW l, LinkUp(h, l)
  PROVE  IInv'
<1>1. /\ <<h, l>> \in Pairs
      /\ link' = [link EXCEPT ![h][l] = Version(h, @), ![l][h].up = TRUE]
      /\ wire' = IF h \notin loaded THEN wire
                 ELSE [wire EXCEPT ![l][h] =
                         <<Line(IF CanResync(link[h][l]) THEN "r?" ELSE "u?")>>]
  BY DEF LinkUp
<1>2. h \in Bots /\ l \in Bots /\ h # l /\ <<l, h>> \notin Pairs
  BY <1>1, OneWay
<1>3. /\ DOMAIN link = Bots /\ EndsOK(h, link[h]) /\ EndsOK(l, link[l])
      /\ \A b \in Bots : EndsOK(b, link[b])
      /\ DOMAIN link[h] = Bots /\ DOMAIN link[l] = Bots
  BY <1>2 DEF IInv, EndsOK
<1>4. PICK d : d = link[h][l]
  OBVIOUS
<1>5. PICK e : e = link[l][h]
  OBVIOUS
<1>6. IsEnd(d) /\ EndOK(l, h, e) /\ IsEnd(e)
  BY <1>2, <1>3, <1>4, <1>5 DEF EndsOK, EndOK
<1>7. NoMore(h, l, d, Version(h, d))
  <2>1. PICK u : u = [d EXCEPT !.up = TRUE]
    OBVIOUS
  <2>2. IsEnd(u)
    BY <1>6, <2>1, ComesUp
  <2>3. PICK st \in SUBSET Flags : st = IF h \in loaded THEN {"offered"} ELSE {}
    BY DEF Flags
  <2>4. Version(h, d) = [u EXCEPT !.status = st]
    BY <2>1, <2>3 DEF Version
  <2>5. IsEnd(Version(h, d))
    BY <2>2, <2>4, OtherFlags
  <2> QED
    BY <1>2, <2>5 DEF NoMore, EndOK
<1>8. NoMore(l, h, e, [e EXCEPT !.up = TRUE])
  <2>1. PICK u : u = [e EXCEPT !.up = TRUE]
    OBVIOUS
  <2>2. IsEnd(u) /\ u.up = TRUE /\ u.status = e.status
    BY <1>6, <2>1, ComesUp
  <2> QED
    BY <1>6, <2>1, <2>2 DEF NoMore, EndOK, LeafEnd
<1>9. /\ DOMAIN link' = Bots
      /\ link'[h] = [link[h] EXCEPT ![l] = Version(h, d)]
      /\ link'[l] = [link[l] EXCEPT ![h] = [e EXCEPT !.up = TRUE]]
      /\ \A b \in Bots \ {h, l} : link'[b] = link[b]
  BY <1>1, <1>2, <1>3, <1>4, <1>5
<1>10. EndsOK(h, link'[h])
  <2>1. EndsOK(h, [link[h] EXCEPT ![l] = Version(h, d)])
    BY <1>2, <1>3, <1>4, <1>7, OneEnd
  <2> QED
    BY <1>9, <2>1
<1>11. EndsOK(l, link'[l])
  <2>1. EndsOK(l, [link[l] EXCEPT ![h] = [e EXCEPT !.up = TRUE]])
    BY <1>2, <1>3, <1>5, <1>8, OneEnd
  <2> QED
    BY <1>9, <2>1
<1>12. \A b \in Bots : EndsOK(b, link'[b])
  BY <1>3, <1>9, <1>10, <1>11
<1>13. PICK ms : ms = <<Line(IF CanResync(link[h][l]) THEN "r?" ELSE "u?")>>
  OBVIOUS
<1>14. Says(ms, May(l, h))
  <2>1. Line("r?").cmd \in May(l, h) /\ Line("u?").cmd \in May(l, h)
    BY <1>2 DEF May, Line, Offers
  <2> QED
    BY <1>13, <2>1, SaysOne
<1>15. /\ DOMAIN wire' = Bots
       /\ \A b \in Bots : DOMAIN wire'[b] = Bots /\ \A p \in Bots : Says(wire'[b][p], May(b, p))
  <2>1. wire' = wire \/ wire' = [wire EXCEPT ![l][h] = ms]
    BY <1>1, <1>13
  <2> QED
    BY <1>2, <1>14, <2>1 DEF IInv
<1>16. \A b, p \in Bots : May(b, p)' = May(b, p)
  BY DEF May
<1> QED
  BY <1>9, <1>12, <1>15, <1>16 DEF IInv

LEMMA PartsKeeps ==
  ASSUME IInv, NEW h, NEW l, <<h, l>> \in Pairs, Parts(h, l)
  PROVE  IInv'
<1>1. /\ link' = [link EXCEPT ![h][l] = LostEnd(h, @), ![l][h] = LostEnd(l, @)]
      /\ wire' = wire
  BY DEF Parts
<1>2. h \in Bots /\ l \in Bots /\ h # l
  BY OneWay
<1>3. /\ DOMAIN link = Bots /\ EndsOK(h, link[h]) /\ EndsOK(l, link[l])
      /\ \A b \in Bots : EndsOK(b, link[b])
      /\ DOMAIN link[h] = Bots /\ DOMAIN link[l] = Bots
  BY <1>2 DEF IInv, EndsOK
<1>4. ASSUME NEW b \in Bots, NEW p \in Bots
      PROVE  NoMore(b, p, link[b][p], LostEnd(b, link[b][p]))
  <2>1. IsEnd(link[b][p])
    BY <1>3 DEF EndsOK, EndOK
  <2> QED
    BY <2>1, Losing DEF NoMore, EndOK, LeafEnd
<1>5. /\ DOMAIN link' = Bots
      /\ link'[h] = [link[h] EXCEPT ![l] = LostEnd(h, link[h][l])]
      /\ link'[l] = [link[l] EXCEPT ![h] = LostEnd(l, link[l][h])]
      /\ \A b \in Bots \ {h, l} : link'[b] = link[b]
  BY <1>1, <1>2, <1>3
<1>6. EndsOK(h, link'[h])
  <2>1. EndsOK(h, [link[h] EXCEPT ![l] = LostEnd(h, link[h][l])])
    BY <1>2, <1>3, <1>4, OneEnd
  <2> QED
    BY <1>5, <2>1
<1>7. EndsOK(l, link'[l])
  <2>1. EndsOK(l, [link[l] EXCEPT ![h] = LostEnd(l, link[l][h])])
    BY <1>2, <1>3, <1>4, OneEnd
  <2> QED
    BY <1>5, <2>1
<1>8. \A b \in Bots : EndsOK(b, link'[b])
  BY <1>3, <1>5, <1>6, <1>7
<1>9. \A b, p \in Bots : May(b, p)' = May(b, p)
  BY DEF May
<1> QED
  BY <1>1, <1>5, <1>8, <1>9 DEF IInv

LEMMA LinkLostKeeps ==
  ASSUME IInv, NEW b \in Bots, NEW p \in Bots, LinkLost(b, p)
  PROVE  IInv'
BY Waiting, SaysNothing, Dropping DEF LinkLost

LEMMA EditKeeps ==
  ASSUME IInv, NEW b \in Bots, NEW r \in Recs, NEW v, Edit(b, r, v)
  PROVE  IInv'
<1>1. PICK m : m = ChangeLine(b, r, v)
  OBVIOUS
<1>2. m.cmd \in Commands
  <2>1. CASE r \in Masks
    BY <1>1, <2>1 DEF ChangeLine, Chg, Commands
  <2>2. CASE r \notin Masks /\ v = 0
    BY <1>1, <2>2 DEF ChangeLine, Chg, Commands
  <2>3. CASE r \notin Masks /\ v # 0
    BY <1>1, <2>3 DEF ChangeLine, Chg, Commands
  <2> QED
    BY <2>1, <2>2, <2>3
<1>3. PICK new : new = [list[b] EXCEPT ![r] = v]
  OBVIOUS
<1>4. CASE Commit(b, new, Kept(link[b], m), Inbox(b), Shareout(b, link[b], b, m), file)
  BY <1>2, <1>4, Waiting, Forwarding, Committing
<1>5. CASE Commit(b, new, link[b], Inbox(b), Silence, file)
  BY <1>5, Waiting, Quiet, Committing
<1> QED
  BY <1>1, <1>3, <1>4, <1>5 DEF Edit

LEMMA ReloadKeeps ==
  ASSUME IInv, NEW b \in Bots, NEW r \in Recs, Reload(b, r)
  PROVE  IInv'
<1>1. PICK l : l = [list[b] EXCEPT ![r] = edits + 1]
  OBVIOUS
<1>2. CASE Commit(b, l, HookEnds(b, link[b]), Inbox(b), HookSent(link[b]),
                  HookFiles(b, link[b]))
  BY <1>2, Waiting, Hooking, Committing
<1>3. CASE Commit(b, l, link[b], Inbox(b), Silence, file)
  BY <1>3, Waiting, Quiet, Committing
<1> QED
  BY <1>1, <1>2, <1>3 DEF Reload

LEMMA MinutelyKeeps ==
  ASSUME IInv, NEW b \in Bots, Minutely(b)
  PROVE  IInv'
<1> DEFINE Asked(peers) ==
             {p \in peers : /\ link[b][p].up
                            /\ <<b, p>> \in Pairs
                            /\ {"offered", "share"} \cap link[b][p].status = {}}
           Step(peers, late, keep) ==
             /\ \A p \in peers : keep[p] <= Len(link[b][p].tbuf)
             /\ \A p \in late \cup Asked(peers) : <<b, p>> \in Pairs
             /\ Commit(b, list[b],
                  [p \in Bots |->
                     IF p \in peers
                     THEN [link[b][p] EXCEPT
                             !.tbuf = SubSeq(@, 1, keep[p]),
                             !.status = IF p \in Asked(peers) THEN @ \cup {"offered"} ELSE @]
                     ELSE link[b][p]],
                  Inbox(b),
                  [p \in Bots |-> IF p \in late \cup Asked(peers) THEN <<Line("u?")>> ELSE <<>>],
                  file)
<1>1. PICK peers \in {Peers(b)} :
        \E late \in SUBSET {p \in peers : "offered" \in link[b][p].status} :
        \E keep \in [peers -> 0..2] : Step(peers, late, keep)
  BY DEF Minutely
<1>2. PICK late \in SUBSET {p \in peers : "offered" \in link[b][p].status} :
        \E keep \in [peers -> 0..2] : Step(peers, late, keep)
  BY <1>1
<1>3. PICK keep \in [peers -> 0..2] : Step(peers, late, keep)
  BY <1>2
<1>asked. PICK asked : asked = Asked(peers)
  OBVIOUS
<1>4. PICK ends : ends = [p \in Bots |->
                IF p \in peers
                THEN [link[b][p] EXCEPT
                        !.tbuf = SubSeq(@, 1, keep[p]),
                        !.status = IF p \in asked THEN @ \cup {"offered"} ELSE @]
                ELSE link[b][p]]
  OBVIOUS
<1>5. PICK sent : sent = [p \in Bots |-> IF p \in late \cup asked THEN <<Line("u?")>> ELSE <<>>]
  OBVIOUS
<1>6. ASSUME NEW p \in Bots PROVE NoMore(b, p, link[b][p], ends[p])
  <2>1. EndOK(b, p, link[b][p]) /\ IsEnd(link[b][p])
    BY DEF IInv, EndsOK, EndOK
  <2>2. CASE p \notin peers
    <3>1. ends[p] = link[b][p]
      BY <1>4, <2>2
    <3> QED
      BY <2>1, <3>1 DEF NoMore
  <2>3. CASE p \in peers
    <3>1. PICK t : t = SubSeq(link[b][p].tbuf, 1, keep[p])
      OBVIOUS
    <3>2. keep[p] \in Nat /\ keep[p] <= Len(link[b][p].tbuf)
      <4>1. keep[p] \in 0..2
        BY <2>3
      <4>2. keep[p] <= Len(link[b][p].tbuf)
        BY <1>3, <2>3
      <4> QED
        BY <4>1, <4>2
    <3>3. Buffers(t)
      BY <2>1, <3>1, <3>2, BuffersBegin DEF IsEnd
    <3>4. PICK c : c = [link[b][p] EXCEPT !.tbuf = t]
      OBVIOUS
    <3>5. Keeps(link[b][p], c)
      BY <2>1, <3>3, <3>4, OtherBuffers
    <3>6. PICK st : st = IF p \in asked THEN c.status \cup {"offered"} ELSE c.status
      OBVIOUS
    <3>7. st \in SUBSET Flags
      BY <3>5, <3>6 DEF Keeps, IsEnd, Flags
    <3>8. ends[p] = [c EXCEPT !.status = st]
      <4>1. link[b][p] \in [up : BOOLEAN, status : SUBSET Flags, tbuf : {link[b][p].tbuf}]
        BY <2>1 DEF IsEnd
      <4>2. ends[p] = [link[b][p] EXCEPT !.tbuf = t,
                         !.status = IF p \in asked THEN @ \cup {"offered"} ELSE @]
        BY <1>4, <2>3, <3>1
      <4>3. c.status = link[b][p].status
        BY <3>5 DEF Keeps
      <4> QED
        BY <3>4, <3>6, <4>1, <4>2, <4>3
    <3>9. IsEnd(ends[p]) /\ ends[p].up = c.up /\ ends[p].status = st
      BY <3>5, <3>7, <3>8, OtherFlags DEF Keeps
    <3>10. CASE p \in asked
      BY <1>3, <3>9, <3>10, <1>asked, OneWay DEF NoMore, EndOK
    <3>11. CASE p \notin asked
      <4>1. Keeps(link[b][p], ends[p])
        BY <3>5, <3>6, <3>9, <3>11 DEF Keeps
      <4> QED
        BY <2>1, <4>1, SameFlags
    <3> QED
      BY <3>10, <3>11
  <2> QED
    BY <2>2, <2>3
<1>7. EndsOK(b, ends)
  <2>1. DOMAIN ends = Bots
    BY <1>4
  <2> QED
    BY <1>6, <2>1, Waiting, AllEnds
<1>8. ASSUME NEW x \in Bots PROVE Says(sent[x], May(x, b))
  <2>1. CASE x \in late \cup asked
    <3>1. <<x, b>> \notin Pairs
      BY <1>3, <1>asked, <2>1, OneWay
    <3>2. Line("u?").cmd \in May(x, b)
      BY <3>1 DEF May, Line, Offers
    <3> QED
      BY <1>5, <2>1, <3>2, SaysOne
  <2>2. CASE x \notin late \cup asked
    BY <1>5, <2>2, SaysNothing
  <2> QED
    BY <2>1, <2>2
<1>9. Commit(b, list[b], ends, Inbox(b), sent, file)
  BY <1>3, <1>4, <1>5, <1>asked
<1> QED
  BY <1>7, <1>8, <1>9, Waiting, Committing

LEMMA UnloadKeeps ==
  ASSUME IInv, NEW b \in Bots, Unload(b)
  PROVE  IInv'
<1>1. PICK sharing : sharing =
        {p \in Peers(b) : link[b][p].up /\ "share" \in link[b][p].status}
  OBVIOUS
<1>2. PICK ends : ends = [p \in Bots |->
              [link[b][p] EXCEPT !.tbuf = <<>>,
                                 !.status = IF p \in sharing THEN {} ELSE @]]
  OBVIOUS
<1>3. PICK sent : sent = [p \in Bots |-> IF p \in sharing THEN <<Line("e")>> ELSE <<>>]
  OBVIOUS
<1>4. ASSUME NEW p \in Bots PROVE NoMore(b, p, link[b][p], ends[p])
  <2>1. EndOK(b, p, link[b][p]) /\ IsEnd(link[b][p])
    BY DEF IInv, EndsOK, EndOK
  <2>2. PICK c : c = [link[b][p] EXCEPT !.tbuf = <<>>]
    OBVIOUS
  <2>3. Keeps(link[b][p], c)
    BY <2>1, <2>2, NoBuffer, OtherBuffers
  <2>4. PICK st : st = IF p \in sharing THEN {} ELSE c.status
    OBVIOUS
  <2>5. st \in SUBSET Flags
    BY <2>3, <2>4 DEF Keeps, IsEnd
  <2>6. ends[p] = [c EXCEPT !.status = st]
    <3>1. link[b][p] \in [up : BOOLEAN, status : SUBSET Flags, tbuf : {link[b][p].tbuf}]
      BY <2>1 DEF IsEnd
    <3>2. ends[p] = [link[b][p] EXCEPT !.tbuf = <<>>,
                       !.status = IF p \in sharing THEN {} ELSE @]
      BY <1>2
    <3>3. c.status = link[b][p].status
      BY <2>3 DEF Keeps
    <3> QED
      BY <2>2, <2>4, <3>1, <3>2, <3>3
  <2>7. IsEnd(ends[p]) /\ ends[p].up = c.up /\ ends[p].status = st
    BY <2>3, <2>5, <2>6, OtherFlags DEF Keeps
  <2>8. CASE p \in sharing
    BY <2>4, <2>7, <2>8 DEF NoMore, EndOK, LeafEnd
  <2>9. CASE p \notin sharing
    <3>1. Keeps(link[b][p], ends[p])
      BY <2>3, <2>4, <2>7, <2>9 DEF Keeps
    <3> QED
      BY <2>1, <3>1, SameFlags
  <2> QED
    BY <2>8, <2>9
<1>5. EndsOK(b, ends)
  <2>1. DOMAIN ends = Bots
    BY <1>2
  <2> QED
    BY <1>4, <2>1, Waiting, AllEnds
<1>6. ASSUME NEW x \in Bots PROVE Says(sent[x], May(x, b))
  <2>1. Line("e").cmd \in May(x, b)
    BY DEF May, Line, Offers
  <2>2. Says(<<Line("e")>>, May(x, b)) /\ Says(<<>>, May(x, b))
    BY <2>1, SaysOne, SaysNothing
  <2> QED
    BY <1>3, <2>2
<1>7. PICK files : Commit(b, list[b], ends, Inbox(b), sent, files)
  BY <1>1, <1>2, <1>3 DEF Unload
<1> QED
  BY <1>5, <1>6, <1>7, Waiting, Committing

LEMMA LoadKeeps == ASSUME IInv, NEW b, Load(b) PROVE IInv'
BY Stuttering DEF Load

-----------------------------------------------------------------------------
(* The theorem *)

LEMMA InitInv == Init => IInv
<1> SUFFICES ASSUME Init PROVE IInv
  OBVIOUS
<1>1. /\ link = [b \in Bots |-> [p \in Bots |-> DownEnd]]
      /\ wire = [b \in Bots |-> [p \in Bots |-> <<>>]]
  BY DEF Init
<1>2. IsEnd(DownEnd) /\ DownEnd.status = {}
  <2>1. DownEnd.tbuf = <<>> /\ DownEnd.status = {}
    BY DEF DownEnd
  <2>2. DownEnd \in [up : BOOLEAN, status : SUBSET Flags, tbuf : {<<>>}]
    BY DEF DownEnd
  <2> QED
    BY <2>1, <2>2, NoBuffer DEF IsEnd
<1>3. \A b, p \in Bots : link[b][p] = DownEnd
  BY <1>1
<1>4. ASSUME NEW b \in Bots PROVE EndsOK(b, link[b])
  BY <1>1, <1>2, <1>3 DEF EndsOK, EndOK, LeafEnd
<1>5. \A b, p \in Bots : Says(wire[b][p], May(b, p))
  BY <1>1, SaysNothing
<1> QED
  BY <1>1, <1>4, <1>5 DEF IInv

LEMMA StepInv == ASSUME LeavesTakeFiles, IInv, [Next]_vars PROVE IInv'
<1>1. CASE UNCHANGED vars
  BY <1>1, Stuttering DEF vars
<1>2. ASSUME NEW p \in Pairs, LinkUp(p[1], p[2]) PROVE IInv'
  BY <1>2, LinkUpKeeps
<1>3. ASSUME NEW p \in Pairs, Parts(p[1], p[2]) PROVE IInv'
  BY <1>3, PairsAreBots, PartsKeeps
<1>4. ASSUME NEW p \in Pairs, NEW k, Files(p, k) PROVE IInv'
  BY <1>4, FilesKeep
<1>5. ASSUME NEW b \in Bots, NEW p \in Peers(b), Breaks(b, p) \/ Closing(b, p) PROVE IInv'
  BY <1>5, LinkLostKeeps DEF Breaks, Closing, Peers
<1>6. ASSUME NEW b \in Bots, NEW p \in Peers(b), ShareIn(b, p) PROVE IInv'
  BY <1>6, ShareInKeeps DEF Peers
<1>7. ASSUME NEW b \in Bots, NEW r \in Recs, Reload(b, r) PROVE IInv'
  BY <1>7, ReloadKeeps
<1>8. ASSUME NEW b \in Bots, NEW r \in Recs, NEW v, Edit(b, r, v) PROVE IInv'
  BY <1>8, EditKeeps
<1>9. ASSUME NEW b \in Bots, Minutely(b) \/ Unload(b) \/ Load(b) PROVE IInv'
  BY <1>9, MinutelyKeeps, UnloadKeeps, LoadKeeps
<1> QED
  BY <1>1, <1>2, <1>3, <1>4, <1>5, <1>6, <1>7, <1>8, <1>9 DEF Next

LEMMA InvDirected == IInv => Directed
<1> SUFFICES ASSUME IInv PROVE Directed
  OBVIOUS
<1>1. ASSUME NEW p \in Pairs, NEW q \in Pairs, p[2] = q[2],
             Shares(p[2], p[1]), Shares(q[2], q[1])
      PROVE  p = q
  <2>1. PICK b \in Bots : b = p[2]
    BY PairsAreBots
  <2>2. /\ p[1] \in Bots /\ <<p[1], b>> \in Pairs /\ p = <<p[1], b>>
        /\ q[1] \in Bots /\ <<q[1], b>> \in Pairs /\ q = <<q[1], b>>
    BY <1>1, <2>1, PairsAreBots
  <2>3. p[1] = q[1]
    BY <1>1, <2>1, <2>2 DEF IInv, EndsOK, Shares
  <2> QED
    BY <2>2, <2>3
<1>2. ASSUME NEW p \in Pairs, NEW k \in DOMAIN wire[p[1]][p[2]]
      PROVE  wire[p[1]][p[2]][k] # Line("u?")
  <2>1. p[1] \in Bots /\ p[2] \in Bots /\ <<p[1], p[2]>> \in Pairs
    BY PairsAreBots
  <2>2. Says(wire[p[1]][p[2]], May(p[1], p[2]))
    BY <2>1 DEF IInv
  <2>3. wire[p[1]][p[2]][k].cmd \in May(p[1], p[2])
    BY <2>2, LenProperties DEF Says
  <2> QED
    BY <2>1, <2>3 DEF May, Line
<1> QED
  BY <1>1, <1>2 DEF Directed, OneSource, OnlyHubsOffer

\* Whatever is changed, reloaded, unloaded or lost, and in whatever order the lines and
\* files of it arrive, a leaf that does not resync shares with one hub at a time and
\* never offers its own list to one.
THEOREM ListsGoOneWay == ASSUME LeavesTakeFiles PROVE Spec => []Directed
<1>1. Init => IInv
  BY InitInv
<1>2. IInv /\ [Next]_vars => IInv'
  BY StepInv
<1>3. IInv => Directed
  BY InvDirected
<1> QED
  BY <1>1, <1>2, <1>3, PTL DEF Spec
=============================================================================
