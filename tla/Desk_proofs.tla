----------------------------- MODULE Desk_proofs -----------------------------
(***************************************************************************)
(* What is said to a session is shown to it or waits, in order, no more      *)
(* waits than may, and the other bots see it where it is, whatever its user, *)
(* scripts and the other bots do: proved for any numbers and any channels.   *)
(***************************************************************************)
EXTENDS Desk, SequenceTheorems, TLAPS

Sessions ==
  [kind : Open \cup {"closed", "undefined"}, channel : Chans, seen : Global \cup {""}, misled : BOOLEAN,
   page : BOOLEAN, max_line : Int, line_count : Nat, current_lines : Int,
   buffer : Seq(Nat), sent : Seq(Nat), said : Nat, stuck : BOOLEAN, forgot : BOOLEAN, wild : BOOLEAN,
   msgs : Nat, sameSecond : BOOLEAN]

\* What was said are the lines that are shown and those that wait, each at its place.
Numbered(d) ==
  /\ d.said = Len(d.sent) + Len(d.buffer)
  /\ \A i \in 1..Len(d.sent) : d.sent[i] = i
  /\ \A i \in 1..Len(d.buffer) : d.buffer[i] = Len(d.sent) + i
\* Lines wait only where there are pages, or where a script has left them.
Lines(d) ==
  d.kind \in Open /\ ~d.stuck /\ ~d.wild => Numbered(d) /\ (d.page \/ d.buffer = <<>>)
Counts(d) == d.kind \in Open /\ ~d.forgot => d.current_lines = Len(d.buffer)
Few(d) == d.forgot \/ Len(d.buffer) <= TooMany + 1
Told(d) == d.misled \/ d.seen = Shown(d)

Paged(d) == Lines(d) /\ Counts(d) /\ Few(d) /\ d.said <= MaxSaid
IInv == desk \in Sessions /\ Paged(desk) /\ Told(desk)

LEMMA BigIsNat == Big \in Nat
  BY DEF Big

-----------------------------------------------------------------------------
(* Where it is.                                                             *)

\* Nothing that a session is shown depends on where it is: a session with the same lines.
SameLines(d, e) ==
  /\ e.page = d.page /\ e.line_count = d.line_count /\ e.max_line = d.max_line /\ e.current_lines = d.current_lines
  /\ e.buffer = d.buffer /\ e.sent = d.sent /\ e.said = d.said
  /\ e.stuck = d.stuck /\ e.forgot = d.forgot /\ e.wild = d.wild

LEMMA LinesStay ==
  ASSUME NEW d, NEW e, SameLines(d, e), Paged(d), e.kind \in Open => d.kind \in Open
  PROVE  Paged(e)
  BY DEF SameLines, Paged, Lines, Counts, Few, Numbered

\* And the other way round.
SamePlace(d, e) ==
  e.kind = d.kind /\ e.channel = d.channel /\ e.seen = d.seen /\ e.misled = d.misled

LEMMA PlaceStays ==
  ASSUME NEW d, NEW e, SamePlace(d, e), Told(d)
  PROVE  Told(e)
  BY DEF SamePlace, Told, Shown

\* A session as it should be.
Right(d) == d \in Sessions /\ Paged(d) /\ Told(d)

LEMMA PartIs ==
  ASSUME NEW d \in Sessions
  PROVE  /\ Part(d) \in Sessions /\ SameLines(d, Part(d)) /\ Part(d).seen = ""
         /\ Part(d).kind = d.kind /\ Part(d).channel = d.channel /\ Part(d).misled = d.misled
  BY DEF Part, Sessions, SameLines

LEMMA JoinIs ==
  ASSUME NEW d \in Sessions, d.channel \in Global \cup {"off"}
  PROVE  /\ Join(d) \in Sessions /\ SameLines(d, Join(d))
         /\ Join(d).seen = IF d.channel = "off" THEN d.seen ELSE d.channel
         /\ Join(d).kind = d.kind /\ Join(d).channel = d.channel /\ Join(d).misled = d.misled
  BY DEF Join, Sessions, SameLines

LEMMA PartIfShownIs ==
  ASSUME NEW d \in Sessions, Told(d), d.kind = "chat"
  PROVE  /\ PartIfShown(d) \in Sessions /\ SameLines(d, PartIfShown(d))
         /\ PartIfShown(d).misled \/ PartIfShown(d).seen = ""
         /\ PartIfShown(d).kind = d.kind /\ PartIfShown(d).channel = d.channel
  <1>1. CASE d.channel \in Global
    BY <1>1, PartIs DEF PartIfShown
  <1>2. CASE d.channel \notin Global
    BY <1>2 DEF PartIfShown, Told, Shown, SameLines
  <1> QED  BY <1>1, <1>2

\* One that is gone is shown nowhere.
LEMMA ClosedIsRight ==
  ASSUME NEW d \in Sessions, Few(d), d.said <= MaxSaid, d.misled \/ d.seen = ""
  PROVE  Right(Closed(d)) /\ Closed(d).kind = "closed"
  <1>1. Closed(d) \in Sessions /\ Closed(d).kind = "closed" /\ SameLines(d, Closed(d))
        /\ Closed(d).misled = d.misled /\ Closed(d).seen = d.seen
    BY DEF Closed, Sessions, SameLines
  <1>2. Paged(Closed(d))
    BY <1>1 DEF Paged, Lines, Counts, Few, Open, SameLines
  <1>3. Told(Closed(d))
    BY <1>1 DEF Told, Shown
  <1> QED  BY <1>1, <1>2, <1>3 DEF Right

LEMMA LeavesIsRight ==
  ASSUME NEW d \in Sessions, Few(d), d.said <= MaxSaid, Told(d)
  PROVE  Right(Leaves(d)) /\ Leaves(d).kind = "closed"
  <1>1. CASE d.kind = "chat"
    <2>1. PartIfShown(d) \in Sessions /\ SameLines(d, PartIfShown(d))
          /\ (PartIfShown(d).misled \/ PartIfShown(d).seen = "")
      BY <1>1, PartIfShownIs
    <2>2. Few(PartIfShown(d)) /\ PartIfShown(d).said <= MaxSaid
      BY <2>1 DEF Few, SameLines
    <2> QED  BY <1>1, <2>1, <2>2, ClosedIsRight DEF Leaves
  <1>2. CASE d.kind # "chat"
    BY <1>2, ClosedIsRight DEF Leaves, Told, Shown
  <1> QED  BY <1>1, <1>2

LEMMA KilldccIsRight ==
  ASSUME NEW d, Right(d)
  PROVE  Right(Killdcc(d))
  <1> d \in Sessions /\ Few(d) /\ d.said <= MaxSaid /\ Told(d)
    BY DEF Right, Paged
  <1>1. CASE d.kind = "chat"
    <2>1. Part(d) \in Sessions /\ SameLines(d, Part(d)) /\ Part(d).seen = ""
      BY PartIs
    <2>2. Few(Part(d)) /\ Part(d).said <= MaxSaid
      BY <2>1 DEF Few, SameLines
    <2> QED  BY <1>1, <2>1, <2>2, ClosedIsRight DEF Killdcc
  <1>2. CASE d.kind # "chat"
    BY <1>2, ClosedIsRight DEF Killdcc, Told, Shown
  <1> QED  BY <1>1, <1>2

-----------------------------------------------------------------------------
(* What it is shown.                                                        *)

LEMMA Fields ==
  ASSUME NEW d \in Sessions
  PROVE  /\ d.sent \in Seq(Nat) /\ d.buffer \in Seq(Nat) /\ Len(d.sent) \in Nat /\ Len(d.buffer) \in Nat
         /\ d.said \in Nat /\ d.line_count \in Nat /\ d.max_line \in Int /\ d.current_lines \in Int
  <1>1. d.sent \in Seq(Nat) /\ d.buffer \in Seq(Nat)
    BY DEF Sessions
  <1>2. d.said \in Nat /\ d.line_count \in Nat /\ d.max_line \in Int /\ d.current_lines \in Int
    BY DEF Sessions
  <1> QED  BY <1>1, <1>2, LenProperties

LEMMA AppendIs ==
  ASSUME NEW s \in Seq(Nat), NEW n \in Nat
  PROVE  /\ Append(s, n) \in Seq(Nat) /\ Len(Append(s, n)) = Len(s) + 1
         /\ \A i \in 1..(Len(s) + 1) : Append(s, n)[i] = IF i <= Len(s) THEN s[i] ELSE n
  BY AppendProperties, LenProperties

\* One line more is shown, and nothing waits.
LEMMA OneMoreShown ==
  ASSUME NEW d \in Sessions, Numbered(d), d.buffer = <<>>
  PROVE  /\ Append(d.sent, d.said + 1) \in Seq(Nat)
         /\ Len(Append(d.sent, d.said + 1)) = d.said + 1
         /\ \A i \in 1..(d.said + 1) : Append(d.sent, d.said + 1)[i] = i
  <1>1. d.sent \in Seq(Nat) /\ d.said \in Nat /\ Len(d.sent) = d.said
    BY Fields, EmptySeq DEF Numbered
  <1>2. \A i \in 1..d.said : d.sent[i] = i
    BY <1>1 DEF Numbered
  <1>3. d.said + 1 \in Nat
    BY <1>1
  <1>4. SUFFICES ASSUME NEW i \in 1..(d.said + 1)
                 PROVE  (IF i <= d.said THEN d.sent[i] ELSE d.said + 1) = i
    BY <1>1, <1>3, AppendIs
  <1> QED  BY <1>1, <1>2

LEMMA PlusOne == \A a, b \in Nat : (a + b) + 1 = a + (b + 1)
  OBVIOUS
LEMMA OneMore ==
  ASSUME NEW x, NEW a \in Nat, NEW b \in Nat, x = a + b
  PROVE  x + 1 = a + (b + 1)
  BY PlusOne, Zenon

\* One line more waits.
LEMMA OneMoreWaits ==
  ASSUME NEW d \in Sessions, Numbered(d)
  PROVE  /\ Append(d.buffer, d.said + 1) \in Seq(Nat)
         /\ Len(Append(d.buffer, d.said + 1)) = Len(d.buffer) + 1
         /\ \A i \in 1..(Len(d.buffer) + 1) : Append(d.buffer, d.said + 1)[i] = Len(d.sent) + i
  <1>1. d.buffer \in Seq(Nat) /\ d.said + 1 \in Nat /\ Len(d.sent) \in Nat /\ Len(d.buffer) \in Nat
    BY Fields
  <1>2. d.said = Len(d.sent) + Len(d.buffer)
    BY DEF Numbered
  <1>3. SUFFICES ASSUME NEW i \in 1..(Len(d.buffer) + 1)
                 PROVE  (IF i <= Len(d.buffer) THEN d.buffer[i] ELSE d.said + 1) = Len(d.sent) + i
    BY <1>1, AppendIs
  <1>4. CASE i <= Len(d.buffer)
    <2>1. i \in 1..Len(d.buffer)
      BY <1>1, <1>4
    <2> QED  BY <1>4, <2>1 DEF Numbered
  <1>5. CASE ~(i <= Len(d.buffer))
    <2>1. i = Len(d.buffer) + 1
      BY <1>1, <1>5
    <2>2. d.said + 1 = Len(d.sent) + (Len(d.buffer) + 1)
      BY <1>1, <1>2, OneMore, Zenon
    <2> QED  BY <1>5, <2>1, <2>2
  <1> QED  BY <1>4, <1>5

\* What is shown to it changes none of where it is.
SameElse(d, e) == SamePlace(d, e) /\ e.page = d.page /\ e.stuck = d.stuck /\ e.forgot = d.forgot /\ e.wild = d.wild

\* A line that is shown at once.
Showing(d, k) == [d EXCEPT !.said = d.said + 1, !.sent = Append(d.sent, d.said + 1), !.line_count = k]
LEMMA ShowingIsPaged ==
  ASSUME NEW d \in Sessions, NEW k \in Nat, Paged(d), d.said < MaxSaid, d.buffer = <<>> \/ ~d.page
  PROVE  Showing(d, k) \in Sessions /\ Paged(Showing(d, k)) /\ SameElse(d, Showing(d, k))
  <1> DEFINE e == Showing(d, k)
  <1>1. d.said + 1 \in Nat /\ d.sent \in Seq(Nat) /\ d.said + 1 <= MaxSaid
    BY Fields, DeskAssumption
  <1>2. Append(d.sent, d.said + 1) \in Seq(Nat)
    BY <1>1, AppendIs
  <1>3. e \in Sessions
    BY <1>1, <1>2 DEF Showing, Sessions
  <1>4. /\ e.said = d.said + 1 /\ e.sent = Append(d.sent, d.said + 1) /\ e.buffer = d.buffer
        /\ e.current_lines = d.current_lines /\ SameElse(d, e)
    BY DEF Showing, Sessions, SameElse, SamePlace
  <1> HIDE DEF e
  <1>5. Lines(e)
    <2>1. SUFFICES ASSUME d.kind \in Open, ~d.stuck, ~d.wild
                   PROVE  Numbered(e) /\ (e.page \/ e.buffer = <<>>)
      BY <1>4 DEF Lines, SameElse, SamePlace
    <2>2. Numbered(d) /\ d.buffer = <<>>
      BY <2>1 DEF Paged, Lines
    <2>3. /\ Len(Append(d.sent, d.said + 1)) = d.said + 1
          /\ \A i \in 1..(d.said + 1) : Append(d.sent, d.said + 1)[i] = i
      BY <2>2, OneMoreShown
    <2>4. Numbered(e)
      BY <1>1, <1>4, <2>2, <2>3, EmptySeq DEF Numbered
    <2> QED  BY <2>2, <2>4, <1>4
  <1>6. Counts(e) /\ Few(e)
    BY <1>4 DEF Paged, Counts, Few, SameElse, SamePlace
  <1>7. e.said <= MaxSaid
    BY <1>1, <1>4
  <1> QED  BY <1>3, <1>4, <1>5, <1>6, <1>7 DEF Paged, e

\* A line that waits.
Keeping(d) ==
  [d EXCEPT !.said = d.said + 1, !.buffer = Append(d.buffer, d.said + 1), !.current_lines = d.current_lines + 1]
LEMMA KeepingIsPaged ==
  ASSUME NEW d \in Sessions, Paged(d), d.said < MaxSaid, d.page, d.kind \in Open, d.current_lines <= TooMany
  PROVE  Keeping(d) \in Sessions /\ Paged(Keeping(d)) /\ SameElse(d, Keeping(d))
  <1> DEFINE e == Keeping(d)
  <1>1. /\ d.said + 1 \in Nat /\ d.buffer \in Seq(Nat) /\ d.said + 1 <= MaxSaid /\ Len(d.sent) \in Nat
        /\ Len(d.buffer) \in Nat /\ d.current_lines \in Int /\ d.said \in Nat
    BY Fields, DeskAssumption
  <1>2. /\ Append(d.buffer, d.said + 1) \in Seq(Nat) /\ Len(Append(d.buffer, d.said + 1)) = Len(d.buffer) + 1
        /\ d.current_lines + 1 \in Int
    BY <1>1, AppendIs
  <1>3. e \in Sessions
    BY <1>1, <1>2 DEF Keeping, Sessions
  <1>4. /\ e.said = d.said + 1 /\ e.buffer = Append(d.buffer, d.said + 1) /\ e.sent = d.sent
        /\ e.current_lines = d.current_lines + 1 /\ SameElse(d, e)
    BY DEF Keeping, Sessions, SameElse, SamePlace
  <1> HIDE DEF e
  <1>5. Lines(e)
    <2>1. SUFFICES ASSUME ~d.stuck, ~d.wild
                   PROVE  Numbered(e)
      BY <1>4 DEF Lines, SameElse, SamePlace
    <2>2. Numbered(d)
      BY <2>1 DEF Paged, Lines
    <2>3. \A i \in 1..(Len(d.buffer) + 1) : Append(d.buffer, d.said + 1)[i] = Len(d.sent) + i
      BY <2>2, OneMoreWaits
    <2>6. d.said = Len(d.sent) + Len(d.buffer)
      BY <2>2 DEF Numbered
    <2>4. d.said + 1 = Len(d.sent) + (Len(d.buffer) + 1)
      BY <1>1, <2>6, OneMore, Zenon
    <2>5. Len(e.buffer) = Len(d.buffer) + 1
      BY <1>2, <1>4
    <2> QED  BY <1>4, <2>2, <2>3, <2>4, <2>5 DEF Numbered
  <1>6. Counts(e) /\ Few(e)
    <2>1. ~d.forgot => d.current_lines = Len(d.buffer)
      BY DEF Paged, Counts
    <2>2. Len(e.buffer) = Len(d.buffer) + 1
      BY <1>2, <1>4
    <2> QED  BY <1>1, <1>4, <2>1, <2>2, DeskAssumption DEF Counts, Few, SameElse, SamePlace
  <1>7. e.said <= MaxSaid
    BY <1>1, <1>4
  <1> QED  BY <1>3, <1>4, <1>5, <1>6, <1>7 DEF Paged, e

\* What is said to it.
LEMMA OutIsRight ==
  ASSUME NEW d, Right(d), d.said < MaxSaid, d.kind \in Open
  PROVE  /\ Right(Out(d)) /\ (Out(d).kind = d.kind \/ Out(d).kind = "closed")
         /\ Out(d).kind # "closed" => Out(d).page = d.page
  <1> DEFINE n == d.said + 1
             e == [d EXCEPT !.said = n]
  <1>a. d \in Sessions /\ Paged(d) /\ Told(d)
    BY DEF Right
  <1>b. /\ n \in Nat /\ d.said \in Nat /\ d.line_count \in Nat /\ d.line_count + 1 \in Nat /\ d.current_lines \in Int
        /\ n <= MaxSaid /\ TooMany \in Nat
    BY <1>a, Fields, DeskAssumption
  <1>c. /\ e.said = n /\ e.page = d.page /\ e.line_count = d.line_count /\ e.max_line = d.max_line /\ e.sent = d.sent
        /\ e.buffer = d.buffer /\ e.current_lines = d.current_lines /\ e.kind = d.kind /\ e.channel = d.channel
        /\ e.seen = d.seen /\ e.misled = d.misled /\ e.forgot = d.forgot
    BY <1>a DEF Sessions
  <1>1. CASE ~d.page
    <2>1. Out(d) = Showing(d, d.line_count)
      BY <1>1, <1>a, <1>c DEF Out, Showing, Sessions
    <2> QED  BY <1>1, <1>a, <1>b, <2>1, ShowingIsPaged, PlaceStays DEF Right, SameElse, SamePlace
  <1>d. e \in Sessions
    BY <1>a, <1>b DEF Sessions
  <1> HIDE DEF e
  <1>e. d.page => Out(d) = AppendLine(e, n)
    BY DEF Out, e
  <1>2. CASE d.page /\ d.current_lines > TooMany
    <2> DEFINE g == [e EXCEPT !.buffer = <<>>, !.page = FALSE]
    <2>1. AppendLine(e, n) = Leaves(g)
      BY <1>2, <1>b, <1>c DEF AppendLine
    <2>2. g \in Sessions /\ g.buffer = <<>> /\ g.said = e.said /\ SamePlace(e, g)
      BY <1>d, EmptySeq DEF Sessions, SamePlace
    <2> HIDE DEF g
    <2>3. Few(g) /\ g.said <= MaxSaid
      BY <1>b, <1>c, <2>2, EmptySeq DEF Few
    <2>4. Told(g)
      BY <1>a, <1>c, <2>2 DEF Told, Shown, SamePlace
    <2> QED  BY <1>2, <1>e, <2>1, <2>2, <2>3, <2>4, LeavesIsRight
  <1>3. CASE d.page /\ d.current_lines <= TooMany /\ d.line_count < d.max_line /\ d.buffer = <<>>
    <2>1. AppendLine(e, n) = [e EXCEPT !.line_count = @ + 1, !.sent = Append(@, n)]
      BY <1>3, <1>b, <1>c DEF AppendLine
    <2>2. [e EXCEPT !.line_count = @ + 1, !.sent = Append(@, n)] = Showing(d, d.line_count + 1)
      BY <1>a, <1>c DEF e, Showing, Sessions
    <2>3. Out(d) = Showing(d, d.line_count + 1)
      BY <1>3, <1>e, <2>1, <2>2
    <2> DEFINE g == Showing(d, d.line_count + 1)
    <2>4. g \in Sessions /\ Paged(g) /\ SameElse(d, g)
      BY <1>3, <1>a, <1>b, ShowingIsPaged
    <2> HIDE DEF g
    <2>5. Told(g)
      BY <1>a, <2>4, PlaceStays DEF SameElse
    <2> QED  BY <2>3, <2>4, <2>5 DEF Right, SameElse, SamePlace, g
  <1>4. CASE d.page /\ d.current_lines <= TooMany /\ ~(d.line_count < d.max_line /\ d.buffer = <<>>)
    <2>1. AppendLine(e, n) = [e EXCEPT !.current_lines = @ + 1, !.buffer = Append(@, n)]
      BY <1>4, <1>b, <1>c DEF AppendLine
    <2>2. [e EXCEPT !.current_lines = @ + 1, !.buffer = Append(@, n)] = Keeping(d)
      BY <1>a, <1>c DEF e, Keeping, Sessions
    <2>3. Out(d) = Keeping(d)
      BY <1>4, <1>e, <2>1, <2>2
    <2> QED  BY <1>4, <1>a, <2>3, KeepingIsPaged, PlaceStays DEF Right, SameElse, SamePlace
  <1> QED  BY <1>1, <1>2, <1>3, <1>4, <1>b

\* The next page: so many of the lines that wait are shown.
Flushing(d, k) ==
  [d EXCEPT !.sent = d.sent \o SubSeq(d.buffer, 1, k), !.buffer = SubSeq(d.buffer, k + 1, Len(d.buffer)),
            !.current_lines = d.current_lines - k, !.line_count = 0]

LEMMA FrontIs ==
  ASSUME NEW b \in Seq(Nat), NEW k \in 0..Len(b)
  PROVE  /\ SubSeq(b, 1, k) \in Seq(Nat) /\ Len(SubSeq(b, 1, k)) = k
         /\ \A i \in 1..k : SubSeq(b, 1, k)[i] = b[i]
  <1>1. Len(b) \in Nat /\ \A i \in 1..k : b[i] \in Nat
    BY LenProperties, ElementOfSeq
  <1>2. /\ SubSeq(b, 1, k) \in Seq(Nat)
        /\ Len(SubSeq(b, 1, k)) = IF 1 <= k THEN k - 1 + 1 ELSE 0
        /\ \A i \in 1..k - 1 + 1 : SubSeq(b, 1, k)[i] = b[1 + i - 1]
    BY <1>1, SubSeqProperties
  <1> QED  BY <1>1, <1>2

LEMMA BackIs ==
  ASSUME NEW b \in Seq(Nat), NEW k \in 0..Len(b)
  PROVE  /\ SubSeq(b, k + 1, Len(b)) \in Seq(Nat) /\ Len(SubSeq(b, k + 1, Len(b))) = Len(b) - k
         /\ \A i \in 1..(Len(b) - k) : SubSeq(b, k + 1, Len(b))[i] = b[k + i]
  BY LenProperties, SubSeqProperties

LEMMA FlushingIs ==
  ASSUME NEW d \in Sessions, NEW k \in 0..Len(d.buffer)
  PROVE  LET e == Flushing(d, k)
         IN /\ e \in Sessions /\ SameElse(d, e) /\ e.said = d.said /\ e.max_line = d.max_line /\ e.line_count = 0
            /\ e.sent = d.sent \o SubSeq(d.buffer, 1, k)
            /\ e.buffer = SubSeq(d.buffer, k + 1, Len(d.buffer)) /\ Len(e.buffer) = Len(d.buffer) - k
            /\ e.current_lines = d.current_lines - k
  <1>1. /\ d.sent \in Seq(Nat) /\ d.buffer \in Seq(Nat) /\ d.current_lines \in Int /\ k \in Int
    BY Fields
  <1>2. /\ SubSeq(d.buffer, 1, k) \in Seq(Nat) /\ SubSeq(d.buffer, k + 1, Len(d.buffer)) \in Seq(Nat)
        /\ Len(SubSeq(d.buffer, k + 1, Len(d.buffer))) = Len(d.buffer) - k
    BY <1>1, FrontIs, BackIs
  <1>3. d.sent \o SubSeq(d.buffer, 1, k) \in Seq(Nat) /\ d.current_lines - k \in Int
    BY <1>1, <1>2, ConcatProperties
  <1> QED  BY <1>2, <1>3 DEF Flushing, Sessions, SameElse, SamePlace

LEMMA PutOver == \A a, b, c \in Nat : a + b = (a + c) + (b - c)
  OBVIOUS

LEMMA FlushingNumbered ==
  ASSUME NEW d \in Sessions, NEW k \in 0..Len(d.buffer), Numbered(d)
  PROVE  Numbered(Flushing(d, k))
  <1> DEFINE e == Flushing(d, k)
             f == SubSeq(d.buffer, 1, k)
             b == SubSeq(d.buffer, k + 1, Len(d.buffer))
             s == Len(d.sent)
  <1>1. d.sent \in Seq(Nat) /\ d.buffer \in Seq(Nat) /\ s \in Nat /\ Len(d.buffer) \in Nat /\ k \in Nat
    BY Fields
  <1>2. f \in Seq(Nat) /\ Len(f) = k /\ \A i \in 1..k : f[i] = d.buffer[i]
    BY <1>1, FrontIs
  <1>3. b \in Seq(Nat) /\ Len(b) = Len(d.buffer) - k /\ \A i \in 1..(Len(d.buffer) - k) : b[i] = d.buffer[k + i]
    BY <1>1, BackIs
  <1>4. e.sent = d.sent \o f /\ e.buffer = b /\ e.said = d.said
    BY FlushingIs
  <1> HIDE DEF e, f, b
  <1>5. /\ Len(d.sent \o f) = s + k
        /\ \A i \in 1..(s + k) : (d.sent \o f)[i] = IF i <= s THEN d.sent[i] ELSE f[i - s]
    BY <1>1, <1>2, ConcatProperties
  <1>n. /\ d.said = s + Len(d.buffer) /\ \A i \in 1..s : d.sent[i] = i
        /\ \A i \in 1..Len(d.buffer) : d.buffer[i] = s + i
    BY DEF Numbered
  <1> HIDE DEF s
  <1>6. \A i \in 1..(s + k) : (d.sent \o f)[i] = i
    <2>1. SUFFICES ASSUME NEW i \in 1..(s + k)
                   PROVE  (IF i <= s THEN d.sent[i] ELSE f[i - s]) = i
      BY <1>5
    <2>2. CASE i <= s
      BY <1>1, <1>n, <2>2
    <2>3. CASE ~(i <= s)
      <3>1. i - s \in 1..k /\ i - s \in 1..Len(d.buffer) /\ s + (i - s) = i
        BY <1>1, <2>3
      <3>2. f[i - s] = d.buffer[i - s] /\ d.buffer[i - s] = s + (i - s)
        BY <1>2, <1>n, <3>1
      <3> QED  BY <2>3, <3>1, <3>2
    <2> QED  BY <2>2, <2>3
  <1>7. \A i \in 1..(Len(d.buffer) - k) : b[i] = (s + k) + i
    <2>1. SUFFICES ASSUME NEW i \in 1..(Len(d.buffer) - k)
                   PROVE  b[i] = (s + k) + i
      OBVIOUS
    <2>2. k + i \in 1..Len(d.buffer) /\ s + (k + i) = (s + k) + i
      BY <1>1
    <2> QED  BY <1>3, <1>n, <2>2
  <1>8. s + Len(d.buffer) = (s + k) + (Len(d.buffer) - k)
    BY <1>1, PutOver, Zenon
  <1> QED  BY <1>3, <1>4, <1>5, <1>6, <1>7, <1>8, <1>n DEF Numbered, e

LEMMA FlushingCounts ==
  ASSUME NEW d \in Sessions, NEW k \in 0..Len(d.buffer), Counts(d), Few(d)
  PROVE  Counts(Flushing(d, k)) /\ Few(Flushing(d, k))
  <1> DEFINE e == Flushing(d, k)
  <1>1. SameElse(d, e) /\ Len(e.buffer) = Len(d.buffer) - k /\ e.current_lines = d.current_lines - k
    BY FlushingIs
  <1>2. Len(d.buffer) \in Nat /\ d.current_lines \in Int /\ k \in Nat /\ k <= Len(d.buffer)
    BY Fields
  <1> HIDE DEF e
  <1>3. Counts(e)
    BY <1>1, <1>2 DEF Counts, SameElse, SamePlace
  <1>4. Few(e)
    BY <1>1, <1>2, DeskAssumption DEF Few, SameElse
  <1> QED  BY <1>3, <1>4 DEF e

LEMMA FlushingIsPaged ==
  ASSUME NEW d \in Sessions, NEW k \in 0..Len(d.buffer), Paged(d)
  PROVE  Paged(Flushing(d, k))
  <1> DEFINE e == Flushing(d, k)
  <1>1. e \in Sessions /\ SameElse(d, e) /\ e.said = d.said /\ Len(e.buffer) = Len(d.buffer) - k
    BY FlushingIs
  <1>2. e.buffer \in Seq(Nat) /\ Len(d.buffer) \in Nat /\ k \in Nat
    BY <1>1, Fields
  <1>3. Numbered(d) => Numbered(e)
    BY FlushingNumbered
  <1>4. d.buffer = <<>> => e.buffer = <<>>
    BY <1>1, <1>2, EmptySeq
  <1>5. Counts(e) /\ Few(e)
    BY FlushingCounts DEF Paged
  <1> HIDE DEF e
  <1>6. Lines(e)
    BY <1>1, <1>3, <1>4 DEF Lines, Paged, SameElse, SamePlace
  <1> QED  BY <1>1, <1>5, <1>6 DEF Paged, e

\* How many lines the next page has.
Room(d) == IF d.max_line > d.line_count THEN d.max_line - d.line_count ELSE 0
NextPage(d) == IF Room(d) < Len(d.buffer) THEN Room(d) ELSE Len(d.buffer)

LEMMA FlushLinesIs ==
  ASSUME NEW d \in Sessions
  PROVE  NextPage(d) \in 0..Len(d.buffer) /\ FlushLines(d) = Flushing(d, NextPage(d))
  <1>1. Len(d.buffer) \in Nat /\ d.max_line \in Int /\ d.line_count \in Nat
    BY Fields
  <1>2. Room(d) \in Nat
    BY <1>1 DEF Room
  <1>3. NextPage(d) \in 0..Len(d.buffer)
    BY <1>1, <1>2 DEF NextPage
  <1>4. FlushLines(d) = Flushing(d, NextPage(d))
    BY DEF FlushLines, Flushing, NextPage, Room
  <1> QED  BY <1>3, <1>4

LEMMA FlushLinesIsRight ==
  ASSUME NEW d, Right(d)
  PROVE  Right(FlushLines(d)) /\ SameElse(d, FlushLines(d))
  <1>1. d \in Sessions /\ Paged(d) /\ Told(d)
    BY DEF Right
  <1>2. NextPage(d) \in 0..Len(d.buffer) /\ FlushLines(d) = Flushing(d, NextPage(d))
    BY <1>1, FlushLinesIs
  <1>3. FlushLines(d) \in Sessions /\ SameElse(d, FlushLines(d)) /\ Paged(FlushLines(d))
    BY <1>1, <1>2, FlushingIs, FlushingIsPaged
  <1> QED  BY <1>1, <1>3, PlaceStays DEF Right, SameElse

LEMMA PromptIsRight ==
  ASSUME NEW d, Right(d)
  PROVE  Right(Prompt(d)) /\ Prompt(d).kind = d.kind
  BY FlushLinesIsRight DEF Prompt, SameElse, SamePlace

LEMMA PartOfSum == \A a, b, c \in Nat : a + b <= c => b <= c
  OBVIOUS

\* When paging is turned off all that waits is shown.
LEMMA PageOffIsRight ==
  ASSUME NEW d, Right(d)
  PROVE  Right(PageOff(d))
  <1> DEFINE e == [d EXCEPT !.page = FALSE, !.max_line = Big]
             f == FlushLines(e)
             g == FlushLines(f)
  <1>1. d \in Sessions /\ Paged(d) /\ Told(d)
    BY DEF Right
  <1>2. /\ e \in Sessions /\ SamePlace(d, e) /\ e.buffer = d.buffer /\ e.sent = d.sent /\ e.said = d.said
        /\ e.current_lines = d.current_lines /\ e.forgot = d.forgot /\ e.stuck = d.stuck /\ e.wild = d.wild
        /\ e.page = FALSE /\ e.max_line = Big
    <2>1. Big \in Int
      BY BigIsNat
    <2>2. e \in Sessions
      BY <1>1, <2>1 DEF Sessions
    <2> QED  BY <1>1, <2>2 DEF Sessions, SamePlace
  <1> HIDE DEF e
  <1>3. NextPage(e) \in 0..Len(e.buffer) /\ f = Flushing(e, NextPage(e))
    BY <1>2, FlushLinesIs
  <1>4. /\ f \in Sessions /\ SameElse(e, f) /\ f.said = e.said /\ f.max_line = Big /\ f.line_count = 0
        /\ (Numbered(e) => Numbered(f))
    BY <1>2, <1>3, FlushingIs, FlushingNumbered
  <1>5. Counts(e) /\ Few(e) /\ e.said <= MaxSaid
    BY <1>1, <1>2 DEF Paged, Counts, Few, SamePlace
  <1>6. Counts(f) /\ Few(f)
    BY <1>2, <1>3, <1>5, FlushingCounts
  <1> HIDE DEF f
  <1>7. NextPage(f) \in 0..Len(f.buffer) /\ g = Flushing(f, NextPage(f))
    BY <1>4, FlushLinesIs
  <1>8. /\ g \in Sessions /\ SameElse(f, g) /\ g.said = f.said /\ Len(g.buffer) = Len(f.buffer) - NextPage(f)
        /\ (Numbered(f) => Numbered(g))
    BY <1>4, <1>7, FlushingIs, FlushingNumbered
  <1>9. Counts(g) /\ Few(g)
    BY <1>4, <1>6, <1>7, FlushingCounts
  <1> HIDE DEF g
  <1>10. Numbered(f) => g.buffer = <<>>
    <2>1. SUFFICES ASSUME Numbered(f) PROVE g.buffer = <<>>
      OBVIOUS
    <2>2. Len(f.buffer) \in Nat /\ Len(f.sent) \in Nat /\ f.said \in Nat /\ g.buffer \in Seq(Nat)
      BY <1>4, <1>8, Fields
    <2>3. f.said <= Big
      BY <1>2, <1>4, <1>5, <2>2, BigIsNat, DeskAssumption
    <2>4. Len(f.buffer) <= Big
      <3>1. Len(f.sent) + Len(f.buffer) <= Big
        BY <2>1, <2>3, Zenon DEF Numbered
      <3> QED  BY <2>2, <3>1, BigIsNat, PartOfSum
    <2>5. Room(f) = Big \/ Len(f.buffer) = 0
      BY <1>4, <2>2, <2>4, BigIsNat DEF Room
    <2>6. NextPage(f) = Len(f.buffer)
      BY <1>4, <2>2, <2>4, <2>5, BigIsNat DEF NextPage, Room
    <2>7. Len(g.buffer) = 0
      BY <1>8, <2>2, <2>6
    <2> QED  BY <2>2, <2>7, EmptySeq
  <1>11. Lines(g)
    <2>1. SUFFICES ASSUME g.kind \in Open, ~g.stuck, ~g.wild
                   PROVE  Numbered(g) /\ g.buffer = <<>>
      BY DEF Lines
    <2>2. d.kind \in Open /\ ~d.stuck /\ ~d.wild
      BY <2>1, <1>2, <1>4, <1>8 DEF SameElse, SamePlace
    <2>3. Numbered(e)
      BY <2>2, <1>1, <1>2 DEF Paged, Lines, Numbered
    <2> QED  BY <2>3, <1>4, <1>8, <1>10
  <1>12. Told(g)
    BY <1>1, <1>2, <1>4, <1>8, PlaceStays DEF SameElse, SamePlace
  <1>13. g.said <= MaxSaid
    BY <1>4, <1>5, <1>8
  <1> QED  BY <1>8, <1>9, <1>11, <1>12, <1>13 DEF Right, Paged, PageOff, e, f, g

-----------------------------------------------------------------------------
(* The steps.                                                               *)

\* What a step comes to.
LEMMA NowKeeps ==
  ASSUME NEW d, Right(d), Now(d)
  PROVE  IInv'
  <1>1. d \in Sessions /\ Paged(d) /\ Told(d)
    BY DEF Right
  <1>2. (d.misled /\ d.seen # Shown(d)) \in BOOLEAN
    OBVIOUS
  <1>3. /\ desk' \in Sessions /\ SameLines(d, desk') /\ desk'.kind = d.kind /\ desk'.channel = d.channel
        /\ desk'.seen = d.seen /\ desk'.misled = (d.misled /\ d.seen # Shown(d))
    BY <1>1, <1>2 DEF Now, Sessions, SameLines
  <1>4. Paged(desk')
    BY <1>1, <1>3, LinesStay
  <1>5. Told(desk')
    BY <1>1, <1>3 DEF Told, Shown
  <1> QED  BY <1>3, <1>4, <1>5 DEF IInv, Paged, Told, Lines, Counts, Few, Numbered, Shown, Sessions

\* One that is no longer there, or whose data is read as other data.
LEMMA UndefinedIsRight ==
  ASSUME NEW d, Right(d), d.kind # "chat"
  PROVE  Right([d EXCEPT !.kind = "undefined"])
  <1> DEFINE e == [d EXCEPT !.kind = "undefined"]
  <1>1. d \in Sessions /\ Paged(d) /\ Told(d)
    BY DEF Right
  <1>2. e \in Sessions /\ SameLines(d, e) /\ e.kind = "undefined" /\ e.seen = d.seen /\ e.misled = d.misled
    BY <1>1 DEF Sessions, SameLines
  <1> HIDE DEF e
  <1>3. Paged(e)
    BY <1>1, <1>2, LinesStay DEF Open
  <1>4. Told(e)
    BY <1>1, <1>2 DEF Told, Shown
  <1> QED  BY <1>2, <1>3, <1>4 DEF Right, e

LEMMA OrIsRight ==
  ASSUME NEW d, NEW e, Right(d), d.kind # "closed" => Right(e)
  PROVE  Right(Or(d, e))
  BY UndefinedIsRight DEF Or

\* It moves, or is moved: the same lines in another place.
LEMMA MovingIsRight ==
  ASSUME NEW d, NEW e \in Sessions, Right(d), SameLines(d, e), e.kind \in Open => d.kind \in Open, Told(e)
  PROVE  Right(e)
  BY LinesStay DEF Right

LEMMA GoesIsRight ==
  ASSUME NEW d, NEW chan \in Chans, Right(d), d.kind = "chat"
  PROVE  Right(Goes(d, chan))
  <1> DEFINE e == [d EXCEPT !.channel = chan]
  <1>1. d \in Sessions /\ Paged(d) /\ Told(d)
    BY DEF Right
  <1>2. /\ e \in Sessions /\ SameLines(d, e) /\ e.kind = d.kind /\ e.channel = chan /\ e.seen = d.seen
        /\ e.misled = d.misled
    BY <1>1 DEF Sessions, SameLines
  <1> HIDE DEF e
  <1>3. CASE chan = d.channel
    BY <1>3 DEF Goes
  <1>4. CASE chan # d.channel /\ chan = "off"
    <2> DEFINE f == PartIfShown(d)
               g == [f EXCEPT !.channel = chan]
    <2>1. Goes(d, chan) = g
      BY <1>4 DEF Goes
    <2>2. /\ f \in Sessions /\ SameLines(d, f) /\ (f.misled \/ f.seen = "") /\ f.kind = d.kind
      BY <1>1, PartIfShownIs
    <2> HIDE DEF f
    <2>3. /\ g \in Sessions /\ SameLines(f, g) /\ g.kind = f.kind /\ g.channel = "off" /\ g.seen = f.seen
          /\ g.misled = f.misled
      BY <1>4, <2>2 DEF Sessions, SameLines
    <2> HIDE DEF g
    <2>4. Told(g)
      BY <2>2, <2>3 DEF Told, Shown, Global
    <2>5. SameLines(d, g)
      BY <2>2, <2>3 DEF SameLines
    <2> QED  BY <2>1, <2>2, <2>3, <2>4, <2>5, MovingIsRight
  <1>5. CASE chan # d.channel /\ chan # "off" /\ chan \in Global
    <2>1. Goes(d, chan) = Join(e)
      BY <1>5 DEF Goes, e
    <2>2. /\ Join(e) \in Sessions /\ SameLines(e, Join(e)) /\ Join(e).seen = chan
          /\ Join(e).kind = d.kind /\ Join(e).channel = chan
      BY <1>2, <1>5, JoinIs
    <2>3. Told(Join(e))
      BY <1>5, <2>2 DEF Told, Shown
    <2>4. SameLines(d, Join(e))
      BY <1>2, <2>2 DEF SameLines
    <2> QED  BY <2>1, <2>2, <2>3, <2>4, MovingIsRight
  <1>6. CASE chan # d.channel /\ chan # "off" /\ chan \notin Global
    <2>1. Goes(d, chan) = IF d.channel # "local" THEN Part(e) ELSE e
      BY <1>6 DEF Goes, e
    <2>2. /\ Part(e) \in Sessions /\ SameLines(e, Part(e)) /\ Part(e).seen = ""
          /\ Part(e).kind = d.kind /\ Part(e).channel = chan
      BY <1>2, PartIs
    <2>3. chan = "local" /\ d.channel # "local"
      BY <1>6 DEF Chans
    <2>4. Told(Part(e))
      BY <1>6, <2>2 DEF Told, Shown
    <2>5. SameLines(d, Part(e))
      BY <1>2, <2>2 DEF SameLines
    <2> QED  BY <2>1, <2>2, <2>3, <2>4, <2>5, MovingIsRight
  <1> QED  BY <1>3, <1>4, <1>5, <1>6

\* What is no part of the lines or of the place.
LEMMA CountedIsRight ==
  ASSUME IInv
  PROVE  Right(Counted) /\ Counted.kind = desk.kind /\ Counted.said = desk.said
  <1>1. desk \in Sessions /\ Paged(desk) /\ Told(desk)
    BY DEF IInv
  <1>2. desk.msgs + 1 \in Nat
    <2>1. desk.msgs \in Nat
      BY <1>1 DEF Sessions
    <2> QED  BY <2>1
  <1>3. /\ Counted \in Sessions /\ SameLines(desk, Counted) /\ SamePlace(desk, Counted)
    BY <1>1, <1>2 DEF Counted, Sessions, SameLines, SamePlace
  <1>4. Told(Counted)
    BY <1>1, <1>3, PlaceStays
  <1> QED  BY <1>1, <1>3, <1>4, LinesStay DEF Right, SamePlace, SameLines

\* A line that nothing can be said of.
LEMMA SaysKeeps == ASSUME IInv, Says PROVE IInv'
  <1>1. desk \in Sessions /\ Paged(desk) /\ Told(desk) /\ Right(desk)
    BY DEF IInv, Right
  <1>2. CASE ~(desk.kind = "script" /\ desk.page)
    <2>1. Right(Out(desk)) /\ Now(Out(desk))
      BY <1>1, <1>2, OutIsRight DEF Says
    <2> QED  BY <2>1, NowKeeps
  <1>3. CASE desk.kind = "script" /\ desk.page
    <2> DEFINE e == [desk EXCEPT !.said = @ + 1, !.wild = TRUE]
               f == [desk EXCEPT !.said = @ + 1, !.wild = TRUE, !.sent = Append(@, desk.said + 1)]
               Wild(g) == /\ g \in Sessions /\ SamePlace(desk, g) /\ g.wild = TRUE /\ g.buffer = desk.buffer
                          /\ g.said = desk.said + 1 /\ g.current_lines = desk.current_lines /\ g.forgot = desk.forgot
    <2>1. /\ desk.said + 1 \in Nat /\ Append(desk.sent, desk.said + 1) \in Seq(Nat) /\ desk.said + 1 <= MaxSaid
      BY <1>1, Fields, AppendIs, DeskAssumption DEF Says
    <2>2. Wild(e) /\ Wild(f)
      BY <1>1, <2>1 DEF Sessions, SamePlace
    <2>3. Now(e) \/ Now(f)
      BY <1>3 DEF Says
    <2> HIDE DEF e, f
    <2>4. Right(e) /\ Right(f)
      BY <1>1, <2>1, <2>2, PlaceStays DEF Right, Paged, Lines, Counts, Few, SamePlace
    <2> QED  BY <2>3, <2>4, NowKeeps
  <1> QED  BY <1>2, <1>3

LEMMA CmdPageKeeps == ASSUME IInv, NEW size \in Sizes, CmdPage(size) PROVE IInv'
  <1> DEFINE d == Out(desk)
             e == [d EXCEPT !.page = TRUE, !.max_line = size, !.line_count = 0, !.current_lines = 0,
                            !.forgot = @ \/ d.buffer # <<>>]
  <1>1. Right(desk) /\ desk.kind = "chat" /\ desk.said < MaxSaid
    BY DEF IInv, Right, CmdPage
  <1>2. CASE size = 0
    BY <1>1, <1>2, PageOffIsRight, NowKeeps DEF CmdPage
  <1>3. CASE size # 0
    <2>1. Now(Or(d, Prompt(e)))
      BY <1>3 DEF CmdPage
    <2>2. Right(d)
      BY <1>1, OutIsRight DEF Open
    <2>3. /\ size \in Int /\ d \in Sessions /\ Paged(d) /\ Told(d) /\ Len(<<>>) = 0
          /\ (d.forgot \/ d.buffer # <<>>) \in BOOLEAN
      BY <2>2, DeskAssumption, EmptySeq DEF Right
    <2> HIDE DEF d
    <2>4. /\ e \in Sessions /\ SamePlace(d, e) /\ e.buffer = d.buffer /\ e.sent = d.sent /\ e.said = d.said
          /\ e.stuck = d.stuck /\ e.wild = d.wild /\ e.page = TRUE /\ e.current_lines = 0
          /\ e.forgot = (d.forgot \/ d.buffer # <<>>)
      <3> DEFINE f == [d EXCEPT !.page = TRUE, !.max_line = size, !.line_count = 0]
                 g == [f EXCEPT !.current_lines = 0, !.forgot = @ \/ f.buffer # <<>>]
      <3>1. f \in Sessions
        BY <2>3 DEF Sessions
      <3>2. /\ SamePlace(d, f) /\ f.buffer = d.buffer /\ f.sent = d.sent /\ f.said = d.said
            /\ f.stuck = d.stuck /\ f.wild = d.wild /\ f.page = TRUE /\ f.forgot = d.forgot
        BY <2>3 DEF Sessions, SamePlace
      <3>3. e = g
        BY <2>3 DEF Sessions, e
      <3> HIDE DEF f
      <3>4. g \in Sessions
        <4> DEFINE h == [f EXCEPT !.current_lines = 0]
        <4>5. 0 \in Int
          OBVIOUS
        <4>6. h \in Sessions
          BY <3>1, <4>5 DEF Sessions
        <4>1. h \in Sessions /\ h.forgot = f.forgot /\ h.buffer = f.buffer
          BY <3>1, <4>6 DEF Sessions
        <4>2. g = [h EXCEPT !.forgot = @ \/ h.buffer # <<>>]
          BY <3>1 DEF Sessions
        <4> HIDE DEF h
        <4>3. (h.forgot \/ h.buffer # <<>>) \in BOOLEAN
          OBVIOUS
        <4>4. [h EXCEPT !.forgot = @ \/ h.buffer # <<>>] \in Sessions
          BY <4>1, <4>3 DEF Sessions
        <4> QED  BY <4>2, <4>4
      <3>5. /\ SamePlace(f, g) /\ g.buffer = f.buffer /\ g.sent = f.sent /\ g.said = f.said
            /\ g.stuck = f.stuck /\ g.wild = f.wild /\ g.page = f.page
        BY <3>1 DEF Sessions, SamePlace
      <3>6. g.current_lines = 0 /\ g.forgot = (f.forgot \/ f.buffer # <<>>)
        BY <3>1 DEF Sessions
      <3> HIDE DEF g
      <3> QED  BY <3>2, <3>3, <3>4, <3>5, <3>6 DEF SamePlace
    <2> HIDE DEF e
    <2>5. Lines(e)
      <3>1. Numbered(d) => Numbered(e)
        BY <2>4 DEF Numbered
      <3> QED  BY <2>3, <2>4, <3>1 DEF Paged, Lines, SamePlace
    <2>6. Counts(e) /\ Few(e) /\ e.said <= MaxSaid
      BY <2>3, <2>4 DEF Paged, Counts, Few
    <2>7. Told(e)
      BY <2>3, <2>4, PlaceStays
    <2>8. Right(Prompt(e))
      BY <2>4, <2>5, <2>6, <2>7, PromptIsRight DEF Right, Paged
    <2> QED  BY <2>1, <2>2, <2>8, OrIsRight, NowKeeps
  <1> QED  BY <1>2, <1>3

LEMMA CmdChatKeeps == ASSUME IInv, NEW chan \in Rooms, CmdChat(chan) PROVE IInv'
  <1> DEFINE d == Out(desk)
  <1>1. Right(desk) /\ desk.kind = "chat" /\ desk.said < MaxSaid /\ chan \in Chans
    BY DeskAssumption DEF IInv, Right, CmdChat
  <1>2. Right(d) /\ (d.kind = "chat" \/ d.kind = "closed")
    BY <1>1, OutIsRight DEF Open
  <1>3. Now(Or(d, Prompt(Goes(d, chan))))
    BY DEF CmdChat
  <1> HIDE DEF d
  <1>4. d.kind # "closed" => Right(Prompt(Goes(d, chan)))
    BY <1>1, <1>2, GoesIsRight, PromptIsRight
  <1> QED  BY <1>2, <1>3, <1>4, OrIsRight, NowKeeps

LEMMA TalksKeeps == ASSUME IInv, Talks PROVE IInv'
  <1>1. Right(desk) /\ desk.kind = "chat" /\ desk.kind \in Open /\ desk.said < MaxSaid
    BY DEF IInv, Right, Talks, Open
  <1>2. Right(Out(desk))
    BY <1>1, OutIsRight
  <1>3. Right(Leaves(Out(desk)))
    BY <1>2, LeavesIsRight DEF Right, Paged
  <1>4. Right(Counted) /\ Counted.kind \in Open /\ Counted.said < MaxSaid
    BY <1>1, CountedIsRight
  <1>5. Right(Out(Counted))
    BY <1>4, OutIsRight
  <1>6. Right(Prompt(IF desk.channel = "off" THEN Out(Counted) ELSE Counted))
    BY <1>4, <1>5, PromptIsRight
  <1> QED  BY <1>3, <1>6, NowKeeps DEF Talks

LEMMA EnterKeeps == ASSUME IInv, Enter PROVE IInv'
  <1> DEFINE e == [desk EXCEPT !.sameSecond = TRUE]
  <1>1. desk \in Sessions /\ Right(desk)
    BY DEF IInv, Right
  <1>2. e \in Sessions /\ SameLines(desk, e) /\ SamePlace(desk, e) /\ e.kind = desk.kind
    BY <1>1 DEF Sessions, SameLines, SamePlace
  <1>3. Right(e)
    BY <1>1, <1>2, MovingIsRight, PlaceStays DEF Right
  <1> QED  BY <1>3, PromptIsRight, NowKeeps DEF Enter

LEMMA TickKeeps == ASSUME IInv, Tick PROVE IInv'
  <1> DEFINE e == [desk EXCEPT !.sameSecond = FALSE]
  <1>1. desk \in Sessions /\ Right(desk) /\ desk' = e
    BY DEF IInv, Right, Tick
  <1>2. e \in Sessions /\ SameLines(desk, e) /\ SamePlace(desk, e) /\ e.kind = desk.kind
    BY <1>1 DEF Sessions, SameLines, SamePlace
  <1>3. Right(e)
    BY <1>1, <1>2, MovingIsRight, PlaceStays DEF Right
  <1> HIDE DEF e
  <1> QED  BY <1>1, <1>3 DEF Right, IInv, Paged, Told, Lines, Counts, Few, Numbered, Shown, Sessions

LEMMA QuitKeeps == ASSUME IInv, Quit PROVE IInv'
  <1> DEFINE d == Out(desk)
  <1>1. Right(desk) /\ desk.kind \in Open /\ desk.said < MaxSaid
    BY DEF IInv, Right, Quit, Open
  <1>2. Right(d)
    BY <1>1, OutIsRight
  <1>3. Now(Or(d, Leaves(FlushLines(d))))
    BY DEF Quit
  <1> HIDE DEF d
  <1>4. Right(Leaves(FlushLines(d)))
    BY <1>2, FlushLinesIsRight, LeavesIsRight DEF Right, Paged
  <1> QED  BY <1>2, <1>3, <1>4, OrIsRight, NowKeeps

\* What a script does to where it is.
LEMMA SetchanIsRight ==
  ASSUME IInv, NEW chan \in Rooms, TclSetchan(chan)
  PROVE  IInv'
  <1> DEFINE e == [desk EXCEPT !.channel = chan]
  <1>1. desk \in Sessions /\ Right(desk) /\ Told(desk) /\ chan \in Chans
    BY DeskAssumption DEF IInv, Right
  <1>2. /\ e \in Sessions /\ SameLines(desk, e) /\ e.kind = desk.kind /\ e.channel = chan /\ e.seen = desk.seen
        /\ e.misled = desk.misled
    BY <1>1 DEF Sessions, SameLines
  <1>3. /\ desk.kind = "script" => Now(e)
        /\ desk.kind = "chat" /\ chan = "local" => Now(IF desk.channel \in Global THEN Part(e) ELSE e)
        /\ desk.kind = "chat" /\ chan # "local" => Now([Join(e) EXCEPT !.misled = @ \/ chan = "off"])
        /\ desk.kind \in {"chat", "script"}
    BY DEF TclSetchan
  <1> HIDE DEF e
  <1>4. CASE desk.kind = "script"
    <2>1. Told(e)
      BY <1>1, <1>2, <1>4 DEF Told, Shown
    <2> QED  BY <1>1, <1>2, <1>3, <1>4, <2>1, MovingIsRight, NowKeeps
  <1>5. CASE desk.kind = "chat" /\ chan = "local" /\ desk.channel \in Global
    <2>1. Part(e) \in Sessions /\ SameLines(e, Part(e)) /\ Part(e).seen = "" /\ Part(e).kind = e.kind
          /\ Part(e).channel = chan
      BY <1>2, PartIs
    <2>2. Told(Part(e)) /\ SameLines(desk, Part(e))
      BY <1>2, <1>5, <2>1 DEF Told, Shown, Global, SameLines
    <2>3. Right(Part(e))
      BY <1>1, <1>2, <2>1, <2>2, MovingIsRight
    <2> QED  BY <1>3, <1>5, <2>3, NowKeeps
  <1>6. CASE desk.kind = "chat" /\ chan = "local" /\ desk.channel \notin Global
    <2>1. Told(e)
      BY <1>1, <1>2, <1>6 DEF Told, Shown, Global
    <2>2. Right(e)
      BY <1>1, <1>2, <2>1, MovingIsRight
    <2> QED  BY <1>3, <1>6, <2>2, NowKeeps
  <1>7. CASE desk.kind = "chat" /\ chan # "local"
    <2> DEFINE j == Join(e)
               g == [j EXCEPT !.misled = @ \/ chan = "off"]
    <2>1. chan \in Global \cup {"off"}
      BY <1>1, <1>7 DEF Chans
    <2>2. /\ j \in Sessions /\ SameLines(e, j) /\ j.seen = (IF chan = "off" THEN e.seen ELSE chan)
          /\ j.kind = e.kind /\ j.channel = chan
      BY <1>2, <2>1, JoinIs
    <2> HIDE DEF j
    <2>3. (j.misled \/ chan = "off") \in BOOLEAN
      OBVIOUS
    <2>4. /\ g \in Sessions /\ SameLines(j, g) /\ g.seen = j.seen /\ g.kind = j.kind /\ g.channel = chan
          /\ g.misled = (j.misled \/ chan = "off")
      BY <2>2, <2>3 DEF Sessions, SameLines
    <2>5. Now(g)
      BY <1>3, <1>7 DEF g, j
    <2> HIDE DEF g
    <2>6. Told(g)
      BY <1>2, <1>7, <2>1, <2>2, <2>4 DEF Told, Shown
    <2>7. SameLines(desk, g)
      BY <1>2, <2>2, <2>4 DEF SameLines
    <2>8. Right(g)
      BY <1>1, <1>2, <2>2, <2>4, <2>6, <2>7, MovingIsRight
    <2> QED  BY <2>5, <2>8, NowKeeps
  <1> QED  BY <1>3, <1>4, <1>5, <1>6, <1>7

LEMMA TclControlKeeps == ASSUME IInv, TclControl PROVE IInv'
  <1> DEFINE f == IF desk.channel # "off" THEN Part(desk) ELSE desk
             e == [f EXCEPT !.kind = "script"]
  <1>1. desk \in Sessions /\ Right(desk) /\ Told(desk) /\ desk.kind = "chat" /\ Now(e)
    BY DEF IInv, Right, TclControl
  <1>2. f \in Sessions /\ SameLines(desk, f) /\ (f.misled \/ f.seen = "")
    <2>1. CASE desk.channel # "off"
      BY <1>1, <2>1, PartIs
    <2>2. CASE desk.channel = "off"
      BY <1>1, <2>2 DEF Told, Shown, Global, SameLines
    <2> QED  BY <2>1, <2>2
  <1> HIDE DEF f
  <1>3. e \in Sessions /\ SameLines(f, e) /\ e.kind = "script" /\ e.misled = f.misled /\ e.seen = f.seen
    BY <1>2 DEF Sessions, SameLines, Open
  <1> HIDE DEF e
  <1>4. Told(e) /\ SameLines(desk, e)
    BY <1>2, <1>3 DEF Told, Shown, SameLines
  <1>5. Right(e)
    BY <1>1, <1>3, <1>4, MovingIsRight DEF Open
  <1> QED  BY <1>1, <1>5, NowKeeps

LEMMA DccScriptKeeps == ASSUME IInv, DccScript PROVE IInv'
  <1> DEFINE e == [desk EXCEPT !.kind = "chat", !.misled = @ \/ desk.channel = "high"]
  <1>1. desk \in Sessions /\ Right(desk) /\ Told(desk) /\ desk.kind = "script" /\ Now(Returns(desk))
    BY DEF IInv, Right, DccScript
  <1>2. (desk.misled \/ desk.channel = "high") \in BOOLEAN
    OBVIOUS
  <1>3. /\ e \in Sessions /\ SameLines(desk, e) /\ e.kind = "chat" /\ e.seen = desk.seen /\ e.channel = desk.channel
        /\ e.misled = (desk.misled \/ desk.channel = "high")
    BY <1>1, <1>2 DEF Sessions, SameLines, Open
  <1>4. Returns(desk) = IF desk.channel = "party" THEN Join(e) ELSE e
    BY DEF Returns
  <1> HIDE DEF e
  <1>5. CASE desk.channel = "party"
    <2>1. Join(e) \in Sessions /\ SameLines(e, Join(e)) /\ Join(e).seen = "party" /\ Join(e).kind = "chat"
          /\ Join(e).channel = "party"
      BY <1>3, <1>5, JoinIs DEF Global
    <2>2. Told(Join(e)) /\ SameLines(desk, Join(e))
      BY <1>3, <2>1 DEF Told, Shown, Global, SameLines
    <2>3. Right(Join(e))
      BY <1>1, <2>1, <2>2, MovingIsRight DEF Open
    <2> QED  BY <1>1, <1>4, <1>5, <2>3, NowKeeps
  <1>6. CASE desk.channel # "party"
    <2>1. Told(e)
      BY <1>1, <1>3, <1>6 DEF Told, Shown, Global
    <2>2. Right(e)
      BY <1>1, <1>3, <2>1, MovingIsRight DEF Open
    <2> QED  BY <1>1, <1>4, <1>6, <2>2, NowKeeps
  <1> QED  BY <1>5, <1>6

LEMMA TclPageKeeps == ASSUME IInv, NEW size \in ScriptSizes, TclPage(size) PROVE IInv'
  <1> DEFINE e == [desk EXCEPT !.page = FALSE, !.stuck = @ \/ desk.buffer # <<>>]
             f == [desk EXCEPT !.page = TRUE, !.max_line = size]
  <1>1. /\ desk \in Sessions /\ Paged(desk) /\ Told(desk) /\ (size = 0 => Now(e)) /\ (size # 0 => Now(f))
        /\ size \in Int
    BY DeskAssumption DEF IInv, TclPage
  <1>2. (desk.stuck \/ desk.buffer # <<>>) \in BOOLEAN
    OBVIOUS
  <1>3. /\ e \in Sessions /\ SamePlace(desk, e) /\ e.buffer = desk.buffer /\ e.sent = desk.sent /\ e.said = desk.said
        /\ e.stuck = (desk.stuck \/ desk.buffer # <<>>) /\ e.wild = desk.wild /\ e.forgot = desk.forgot
        /\ e.current_lines = desk.current_lines
    BY <1>1, <1>2 DEF Sessions, SamePlace
  <1>4. /\ f \in Sessions /\ SamePlace(desk, f) /\ f.buffer = desk.buffer /\ f.sent = desk.sent /\ f.said = desk.said
        /\ f.stuck = desk.stuck /\ f.wild = desk.wild /\ f.forgot = desk.forgot /\ f.page = TRUE
        /\ f.current_lines = desk.current_lines
    BY <1>1 DEF Sessions, SamePlace
  <1> HIDE DEF e, f
  <1>5. Right(e)
    <2>1. Lines(e)
      <3>1. Numbered(desk) => Numbered(e)
        BY <1>3 DEF Numbered
      <3> QED  BY <1>1, <1>3, <3>1 DEF Paged, Lines, SamePlace
    <2> QED  BY <1>1, <1>3, <2>1, PlaceStays DEF Right, Paged, Counts, Few, SamePlace
  <1>6. Right(f)
    <2>1. Lines(f)
      <3>1. Numbered(desk) => Numbered(f)
        BY <1>4 DEF Numbered
      <3> QED  BY <1>1, <1>4, <3>1 DEF Paged, Lines, SamePlace
    <2> QED  BY <1>1, <1>4, <2>1, PlaceStays DEF Right, Paged, Counts, Few, SamePlace
  <1> QED  BY <1>1, <1>5, <1>6, NowKeeps

LEMMA CmdFilesKeeps == ASSUME IInv, CmdFiles PROVE IInv'
  <1> DEFINE d == Out(desk)
             f == PartIfShown(d)
             e == [f EXCEPT !.kind = "files"]
  <1>1. Right(desk) /\ desk.kind = "chat" /\ desk.kind \in Open /\ desk.said < MaxSaid /\ Now(Or(d, e))
    BY DEF IInv, Right, CmdFiles, Open
  <1>2. Right(d) /\ (d.kind = "chat" \/ d.kind = "closed")
    BY <1>1, OutIsRight
  <1> HIDE DEF d
  <1>3. ASSUME d.kind # "closed" PROVE Right(e)
    <2>1. d \in Sessions /\ Told(d) /\ d.kind = "chat"
      BY <1>2, <1>3 DEF Right
    <2>2. f \in Sessions /\ SameLines(d, f) /\ (f.misled \/ f.seen = "")
      BY <2>1, PartIfShownIs
    <2> HIDE DEF f
    <2>3. e \in Sessions /\ SameLines(f, e) /\ e.kind = "files" /\ e.misled = f.misled /\ e.seen = f.seen
      BY <2>2 DEF Sessions, SameLines, Open
    <2> HIDE DEF e
    <2>4. Told(e) /\ SameLines(d, e)
      BY <2>2, <2>3 DEF Told, Shown, SameLines
    <2> QED  BY <1>2, <2>1, <2>3, <2>4, MovingIsRight DEF Open
  <1> QED  BY <1>1, <1>2, <1>3, OrIsRight, NowKeeps

LEMMA FilesCommandKeeps == ASSUME IInv, FilesCommand PROVE IInv'
  <1> DEFINE d == Out(desk)
  <1>1. Right(desk) /\ desk.kind \in Open /\ desk.said < MaxSaid /\ Now(Or(d, IF d.page THEN FlushLines(d) ELSE d))
    BY DEF IInv, Right, FilesCommand, Open
  <1>2. Right(d)
    BY <1>1, OutIsRight
  <1> HIDE DEF d
  <1>3. Right(IF d.page THEN FlushLines(d) ELSE d)
    BY <1>2, FlushLinesIsRight
  <1> QED  BY <1>1, <1>2, <1>3, OrIsRight, NowKeeps

LEMMA FilesQuitKeeps == ASSUME IInv, FilesQuit PROVE IInv'
  <1> DEFINE d == FlushLines(Out(desk))
             e == [d EXCEPT !.kind = "chat"]
             u == [d EXCEPT !.kind = "undefined"]
  <1>1. /\ Right(desk) /\ desk.kind = "files" /\ desk.kind \in Open /\ desk.said < MaxSaid
        /\ Now(IF d.page \/ d.kind = "closed" THEN u ELSE IF e.channel \in Global THEN Join(e) ELSE e)
    BY DEF IInv, Right, FilesQuit, Open
  <1>2. Right(Out(desk)) /\ (Out(desk).kind = "files" \/ Out(desk).kind = "closed")
    BY <1>1, OutIsRight
  <1>3. Right(d) /\ (d.kind = "files" \/ d.kind = "closed")
    BY <1>2, FlushLinesIsRight DEF SameElse, SamePlace
  <1> HIDE DEF d
  <1>4. Right(u)
    BY <1>3, UndefinedIsRight
  <1>5. ASSUME d.kind = "files" PROVE Right(IF e.channel \in Global THEN Join(e) ELSE e)
    <2>1. d \in Sessions /\ Told(d)
      BY <1>3 DEF Right
    <2>2. /\ e \in Sessions /\ SameLines(d, e) /\ e.kind = "chat" /\ e.channel = d.channel /\ e.seen = d.seen
          /\ e.misled = d.misled
      BY <2>1 DEF Sessions, SameLines, Open
    <2> HIDE DEF e
    <2>3. CASE e.channel \in Global
      <3>1. Join(e) \in Sessions /\ SameLines(e, Join(e)) /\ Join(e).seen = e.channel /\ Join(e).kind = "chat"
            /\ Join(e).channel = e.channel
        BY <2>2, <2>3, JoinIs DEF Global
      <3>2. Told(Join(e)) /\ SameLines(d, Join(e))
        BY <2>2, <2>3, <3>1 DEF Told, Shown, SameLines
      <3>3. Right(Join(e))
        BY <1>3, <1>5, <3>1, <3>2, MovingIsRight DEF Open
      <3> QED  BY <2>3, <3>3
    <2>4. CASE e.channel \notin Global
      <3>1. Told(e)
        BY <1>5, <2>1, <2>2, <2>4 DEF Told, Shown
      <3>2. Right(e)
        BY <1>3, <1>5, <2>2, <3>1, MovingIsRight DEF Open
      <3> QED  BY <2>4, <3>2
    <2> QED  BY <2>3, <2>4
  <1> QED  BY <1>1, <1>3, <1>4, <1>5, NowKeeps

LEMMA EofDccKeeps == ASSUME IInv, EofDcc PROVE IInv'
  <1> DEFINE e == [desk EXCEPT !.kind = "chat"]
  <1>1. /\ desk \in Sessions /\ Paged(desk) /\ Told(desk)
        /\ Now(Leaves(IF desk.kind = "script" THEN e ELSE desk))
    BY DEF IInv, EofDcc
  <1>2. CASE desk.kind # "script"
    BY <1>1, <1>2, LeavesIsRight, NowKeeps DEF Paged
  <1>3. CASE desk.kind = "script"
    <2>1. /\ e \in Sessions /\ SameLines(desk, e) /\ e.kind = "chat" /\ e.channel = desk.channel
          /\ e.seen = desk.seen /\ e.misled = desk.misled
      BY <1>1 DEF Sessions, SameLines, Open
    <2> HIDE DEF e
    <2>2. Few(e) /\ e.said <= MaxSaid /\ (e.misled \/ e.seen = "")
      BY <1>1, <1>3, <2>1 DEF Paged, Few, SameLines, Told, Shown
    <2>3. CASE e.channel \in Global
      <3>1. Part(e) \in Sessions /\ SameLines(e, Part(e)) /\ Part(e).seen = ""
        BY <2>1, PartIs
      <3>2. Few(Part(e)) /\ Part(e).said <= MaxSaid
        BY <2>2, <3>1 DEF Few, SameLines
      <3>3. Right(Closed(Part(e))) /\ Leaves(e) = Closed(Part(e))
        BY <2>1, <2>3, <3>1, <3>2, ClosedIsRight DEF Leaves, PartIfShown
      <3> QED  BY <1>1, <1>3, <3>3, NowKeeps
    <2>4. CASE e.channel \notin Global
      <3>1. Right(Closed(e)) /\ Leaves(e) = Closed(e)
        BY <2>1, <2>2, <2>4, ClosedIsRight DEF Leaves, PartIfShown
      <3> QED  BY <1>1, <1>3, <3>1, NowKeeps
    <2> QED  BY <2>3, <2>4
  <1> QED  BY <1>2, <1>3

LEMMA BootKeeps == ASSUME IInv, Boot PROVE IInv'
  <1>1. Right(desk) /\ desk.kind \in Open /\ desk.said < MaxSaid /\ Now(Leaves(Out(desk)))
    BY DEF IInv, Right, Boot, Open
  <1>2. Right(Out(desk))
    BY <1>1, OutIsRight
  <1> QED  BY <1>1, <1>2, LeavesIsRight, NowKeeps DEF Right, Paged

LEMMA TclKilldccKeeps == ASSUME IInv, TclKilldcc PROVE IInv'
  BY KilldccIsRight, NowKeeps DEF IInv, Right, TclKilldcc

-----------------------------------------------------------------------------
LEMMA InitIInv == InitDesk => IInv
  <1> SUFFICES ASSUME InitDesk PROVE IInv
    OBVIOUS
  <1>1. <<>> \in Seq(Nat) /\ Len(<<>>) = 0 /\ PageAtFirst \in Nat /\ MaxSaid \in Nat /\ TooMany \in Nat
    BY EmptySeq, DeskAssumption
  <1>2. (PageAtFirst > 0) \in BOOLEAN
    OBVIOUS
  <1>3. desk \in Sessions
    BY <1>1, <1>2 DEF InitDesk, Sessions, Open, Chans, Global
  <1>4. /\ desk.buffer = <<>> /\ desk.sent = <<>> /\ desk.said = 0 /\ desk.current_lines = 0 /\ desk.kind = "chat"
        /\ desk.channel = "party" /\ desk.seen = "party"
    BY DEF InitDesk
  <1> QED  BY <1>1, <1>3, <1>4 DEF IInv, Paged, Lines, Numbered, Counts, Few, Told, Shown, Global

LEMMA NextIInv == IInv /\ [NextDesk]_deskVars => IInv'
  <1> SUFFICES ASSUME IInv, [NextDesk]_deskVars PROVE IInv'
    OBVIOUS
  <1>1. CASE UNCHANGED deskVars
    BY <1>1 DEF deskVars, IInv, Paged, Lines, Numbered, Counts, Few, Told, Shown, Sessions
  <1>2. CASE NextDesk
    <2>1. CASE Says \/ Enter \/ Talks \/ Tick \/ Quit
      BY <2>1, SaysKeeps, EnterKeeps, TalksKeeps, TickKeeps, QuitKeeps
    <2>2. CASE CmdFiles \/ FilesCommand \/ FilesQuit \/ EofDcc
      BY <2>2, CmdFilesKeeps, FilesCommandKeeps, FilesQuitKeeps, EofDccKeeps
    <2>3. CASE \E size \in Sizes : CmdPage(size)
      BY <2>3, CmdPageKeeps
    <2>4. CASE \E chan \in Rooms : CmdChat(chan) \/ TclSetchan(chan)
      BY <2>4, CmdChatKeeps, SetchanIsRight
    <2>5. CASE \E size \in ScriptSizes : TclPage(size)
      BY <2>5, TclPageKeeps
    <2>6. CASE TclControl \/ DccScript \/ Boot \/ TclKilldcc
      BY <2>6, TclControlKeeps, DccScriptKeeps, BootKeeps, TclKilldccKeeps
    <2> QED  BY <1>2, <2>1, <2>2, <2>3, <2>4, <2>5, <2>6 DEF NextDesk
  <1> QED  BY <1>1, <1>2

\* All that is said, in order.
LEMMA IInvDeskKept == IInv => DeskKept
  <1> SUFFICES ASSUME IInv PROVE DeskKept
    OBVIOUS
  <1>1. desk \in Sessions /\ Lines(desk) /\ Counts(desk) /\ Few(desk) /\ Told(desk)
    BY DEF IInv, Paged
  <1>2. DeskTypeOK
    <2>1. desk.kind \in Open \cup {"closed", "undefined"} /\ desk.channel \in Chans /\ desk.seen \in Global \cup {""}
      BY <1>1 DEF Sessions
    <2>2. desk.line_count >= 0
      BY <1>1, Fields
    <2> QED  BY <1>1, <2>1, <2>2 DEF DeskTypeOK, Counts
  <1>3. ShownInOrder
    <2> DEFINE s == desk.sent
               b == desk.buffer
    <2>1. SUFFICES ASSUME Numbered(desk)
                   PROVE  s \o b = [n \in 1..desk.said |-> n]
      BY <1>1 DEF ShownInOrder, Lines
    <2>2. s \in Seq(Nat) /\ b \in Seq(Nat) /\ Len(s) \in Nat /\ Len(b) \in Nat /\ desk.said \in Nat
      BY <1>1, Fields
    <2>3. /\ desk.said = Len(s) + Len(b)
          /\ \A i \in 1..Len(s) : s[i] = i
          /\ \A i \in 1..Len(b) : b[i] = Len(s) + i
      BY <2>1 DEF Numbered
    <2> HIDE DEF s, b
    <2>4. /\ s \o b \in Seq(Nat) /\ Len(s \o b) = Len(s) + Len(b)
          /\ \A i \in 1..(Len(s) + Len(b)) : (s \o b)[i] = IF i <= Len(s) THEN s[i] ELSE b[i - Len(s)]
      BY <2>2, ConcatProperties
    <2>5. ASSUME NEW i \in 1..(Len(s) + Len(b)) PROVE (s \o b)[i] = i
      <3>1. CASE i <= Len(s)
        BY <2>2, <2>3, <2>4, <3>1
      <3>2. CASE ~(i <= Len(s))
        <4>1. i - Len(s) \in 1..Len(b) /\ Len(s) + (i - Len(s)) = i
          BY <2>2, <3>2
        <4> QED  BY <2>3, <2>4, <3>2, <4>1
      <3> QED  BY <3>1, <3>2
    <2>6. s \o b = [i \in 1..(Len(s) + Len(b)) |-> (s \o b)[i]]
      BY <2>4, LenProperties
    <2> QED  BY <2>3, <2>5, <2>6
  <1>4. NotTooMany /\ Announced
    BY <1>1 DEF Few, Told, NotTooMany, Announced
  <1> QED  BY <1>2, <1>3, <1>4 DEF DeskKept

\* Whatever its user, other people and scripts do with paging, channels and the file area, what is said
\* to a session is shown or waits, whole and in order (but where a script took the paging away, or had
\* the session); no more waits than may, so long as nobody begins to count anew; and the other bots
\* see it on the channel where it is, and nowhere when it has gone.
THEOREM DesksAreKept == SpecDesk => []DeskKept
  <1> QED  BY InitIInv, NextIInv, IInvDeskKept, PTL DEF SpecDesk

=============================================================================
