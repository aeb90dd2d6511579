------------------------------- MODULE Match -------------------------------
(***************************************************************************)
(* What a mask matches (match.c; the copy of it for file names in           *)
(* transfer.c): the masks of binds, with words and spaces, the masks of     *)
(* hosts, which are compared from their ends, and times like crontab's.     *)
(* Each algorithm stands beside what the documentation says a mask means.   *)
(*                                                                         *)
(* Left out: upper and lower case, the score of a match, address ranges, a  *)
(* step on a range, and an empty mask, which is read before its beginning.  *)
(***************************************************************************)
EXTENDS Integers, Sequences, FiniteSets, FiniteSetsExt, SequencesExt

CONSTANTS Masks, Names,   \* of characters; QUOTE is the backslash
          Fields, Days    \* crontab's fields for day, month and weekday; <<day, month, weekday>>

VARIABLE compared
vars == <<compared>>

End == "end"
QUOTE == "\\"
At(q, i) == IF i <= Len(q) THEN q[i] ELSE End
\* The first place from i on that holds none of cs.
Past(q, i, cs) == Min({j \in i..(Len(q) + 1) : At(q, j) \notin cs})

-----------------------------------------------------------------------------
(* _wild_match_per and wild_match_file: one turn of the loop.  lsm and lsn,  *)
(* lpm and lpn are the places to fall back to behind the last star and the   *)
(* last %.                                                                 *)

Binds == {"*", "?", "%", "~", QUOTE}
Files == {"*", "?", QUOTE}

FallbackToWord(name, s) ==
  IF s.lpm # 0 THEN [s EXCEPT !.n = s.lpn + 1, !.lpn = @ + 1, !.m = s.lpm] ELSE [s EXCEPT !.out = "no"]
Fallback(name, s) ==
  CASE s.lpm # 0 -> [s EXCEPT !.n = s.lpn + 1, !.lpn = @ + 1, !.m = s.lpm,
                              !.lpm = IF At(name, s.lpn + 1) \in {" ", End} THEN 0 ELSE @]
    [] s.lpm = 0 /\ s.lsm # 0 -> [s EXCEPT !.n = s.lsn + 1, !.lsn = @ + 1, !.m = s.lsm]
    [] OTHER -> [s EXCEPT !.out = "no"]
Compare(mask, name, s, m) ==
  IF At(mask, m) = At(name, s.n) THEN [s EXCEPT !.m = m + 1, !.n = @ + 1] ELSE Fallback(name, s)

\* case 0: the last place, from the second on, that holds no ?.
Back(mask) == LET js == {j \in 2..Len(mask) : mask[j] # "?"} IN IF js = {} THEN 1 ELSE Max(js)
EndsInStar(mask) == mask[Back(mask)] = "*" /\ (Back(mask) > 1 => mask[Back(mask) - 1] # QUOTE)

Turn(mask, name, special, s) ==
  LET at    == At(mask, s.m)
      c     == IF at \in special THEN at ELSE IF at = End THEN End ELSE "plain"
      wilds == {"*", "%"} \cap special
  IN CASE c = "~" -> LET m == Past(mask, s.m + 1, {"~", " "})
                         n == Past(name, s.n, {" "})
                     IN IF n - s.n >= m - s.m THEN [s EXCEPT !.m = m, !.n = n] ELSE Fallback(name, s)
       [] c = End /\ EndsInStar(mask) -> [s EXCEPT !.out = "yes"]
       [] c = End /\ ~EndsInStar(mask) -> Compare(mask, name, s, Back(mask))
       [] c = "%" /\ At(mask, Past(mask, s.m, {"%"})) # "*" ->
            LET m == Past(mask, s.m, {"%"})
            IN IF At(name, s.n) = " " THEN [s EXCEPT !.m = m] ELSE [s EXCEPT !.m = m, !.lpm = m, !.lpn = s.n]
       [] c \in wilds /\ (c = "%" => At(mask, Past(mask, s.m, {"%"})) = "*") ->
            LET m == Past(mask, s.m, wilds) IN [s EXCEPT !.m = m, !.lsm = m, !.lsn = s.n, !.lpm = 0]
       [] c = "?" -> [s EXCEPT !.m = @ + 1, !.n = @ + 1]
       [] c = QUOTE -> Compare(mask, name, s, s.m + 1)
       [] c = "plain" -> Compare(mask, name, s, s.m)

RECURSIVE Turns(_, _, _, _)
Turns(mask, name, special, s) ==
  CASE s.out # "" -> s.out = "yes"
    [] s.out = "" /\ s.n > Len(name) -> Past(mask, s.m, {"*", "%"} \cap special) > Len(mask)
    [] OTHER -> Turns(mask, name, special, Turn(mask, name, special, s))
Start == [m |-> 1, n |-> 1, lsm |-> 0, lsn |-> 0, lpm |-> 0, lpn |-> 0, out |-> ""]
WildMatchPer(mask, name) == name # <<>> /\ Turns(mask, name, Binds, Start)
WildMatchFile(mask, name) == name # <<>> /\ Turns(mask, name, Files, Start)

-----------------------------------------------------------------------------
(* _wild_match, from the ends.                                             *)

Before(mask, m) == Max({0} \cup {j \in 1..m : mask[j] # "*"})
RECURSIVE Rest(_, _, _, _, _, _)
Rest(mask, name, m, n, lsm, lsn) ==
  CASE n = 0 -> Before(mask, m) = 0
    [] n > 0 /\ m = 0 -> lsm # 0 /\ Rest(mask, name, lsm, lsn - 1, IF lsn = 1 THEN 0 ELSE lsm, lsn - 1)
    [] n > 0 /\ m > 0 ->
         CASE mask[m] = "*" -> Before(mask, m) = 0 \/ Rest(mask, name, Before(mask, m), n, Before(mask, m), n)
           [] mask[m] \in {"?", name[n]} -> Rest(mask, name, m - 1, n - 1, lsm, lsn)
           [] OTHER -> lsm # 0 /\ Rest(mask, name, lsm, lsn - 1, IF lsn = 1 THEN 0 ELSE lsm, lsn - 1)
WildMatch(mask, name) == name # <<>> /\ Rest(mask, name, Len(mask), Len(name), 0, 0)

-----------------------------------------------------------------------------
(* cron_match.  A field is a list of values: a star, a number or a range.    *)

Star == [from |-> -1, to |-> -1, step |-> 0]
Value(v) == [from |-> v, to |-> v, step |-> 0]
Any1 == <<Star>>
\* cron_matchfld: a range that ends before it begins goes on after 60; a step is kept for what follows.
RECURSIVE CronMatchfld(_, _, _)
CronMatchfld(field, now, skip) ==
  /\ field # <<>>
  /\ LET v    == Head(field)
         step == IF v.step # 0 THEN v.step ELSE skip
         wraps == v.to < v.from
         at   == IF wraps /\ now <= v.to THEN now + 60 ELSE now
         fits(d) == step = 0 \/ d % step = 0
         hit  == CASE v = [Star EXCEPT !.step = v.step] -> fits(now)
                   [] v.from = v.to /\ v.from # -1 -> IF step = 0 THEN now = v.from ELSE fits(now - v.from)
                   [] OTHER -> at \in v.from..(IF wraps THEN v.to + 60 ELSE v.to) /\ fits(at - v.from)
     IN hit \/ CronMatchfld(Tail(field), at, step)
CronMatchAll(f, t) ==
  /\ CronMatchfld(f[1], t[1], 0) /\ CronMatchfld(f[2], t[2], 0)
  /\ CronMatchfld(f[3], t[3], 0) \/ (t[3] = 0 /\ CronMatchfld(f[3], 7, 0))
\* The fields are gone through from day on; m is what the last one said, d whether the day was met.
CronMatch(f, t) ==
  LET day     == CronMatchfld(f[1], t[1], 0)
      month   == CronMatchfld(f[2], t[2], 0)
      weekday == CronMatchfld(f[3], t[3], 0) \/ (t[3] = 0 /\ CronMatchfld(f[3], 7, 0))
      d  == f[1] # Any1 /\ day
      m1 == f[1] = Any1 \/ day
      m2 == IF f[2] = Any1 THEN m1 ELSE month
      ends == f[2] # Any1 /\ (~month \/ d)
  IN IF ends \/ f[3] = Any1 THEN m2 ELSE weekday

-----------------------------------------------------------------------------
(* What masks and times mean (doc/tcl-commands.doc: Match characters, CRON). *)

RECURSIVE Means(_, _, _)
Means(mask, name, special) ==
  IF mask = <<>> THEN name = <<>>
  ELSE LET c    == Head(mask)
           rest == Tail(mask)
           after(k) == Means(rest, SubSeq(name, k + 1, Len(name)), special)
       IN CASE c \notin special -> name # <<>> /\ Head(name) = c /\ after(1)
            [] c = "*" /\ c \in special -> \E k \in 0..Len(name) : after(k)
            [] c = "%" /\ c \in special -> \E k \in 0..Len(name) : (\A i \in 1..k : name[i] # " ") /\ after(k)
            [] c = "~" /\ c \in special -> \E k \in 1..Len(name) : (\A i \in 1..k : name[i] = " ") /\ after(k)
            [] c = "?" /\ c \in special -> name # <<>> /\ after(1)
            [] c = QUOTE /\ c \in special ->
                 rest # <<>> /\ name # <<>> /\ Head(rest) = Head(name) /\ Means(Tail(rest), Tail(name), special)

InField(field, now) ==
  \E i \in 1..Len(field) :
    LET v == field[i]
        cycle == {x \in 0..59 : IF v.from <= v.to THEN x \in v.from..v.to ELSE x >= v.from \/ x <= v.to}
    IN IF v = [Star EXCEPT !.step = v.step] THEN v.step = 0 \/ now % v.step = 0 ELSE now \in cycle
OnWeekday(field, now) == InField(field, now) \/ (now = 0 /\ InField(field, 7))
Due(f, t) ==
  /\ InField(f[2], t[2])
  /\ IF f[1] # Any1 /\ f[3] # Any1 THEN InField(f[1], t[1]) \/ OnWeekday(f[3], t[3])
     ELSE InField(f[1], t[1]) /\ OnWeekday(f[3], t[3])

-----------------------------------------------------------------------------
Init == \/ compared \in [kind : {"mask"}, mask : Masks, name : Names]
        \/ compared \in [kind : {"time"}, mask : Fields \X Fields \X Fields, name : Days]
Next == UNCHANGED compared

\* What the algorithms are right about.  Where a mask ends and the name does not, they go on from the last
\* character that is not ?: unless that is a star, names that go on as the mask ends are taken for matches,
\* and with a ? behind it others are missed.  Only the last % is gone back to.  ~ takes all the spaces there are, and leaves none for what
\* is behind it.
Separates(mask) == \A i \in 1..Len(mask) : mask[i] = "~" => At(mask, Past(mask, i, {"~", " "})) \notin Binds
OneWord(mask) == Cardinality({i \in 1..Len(mask) : mask[i] = "%"}) <= 1
Closed(mask) == EndsInStar(mask) \/ mask[Len(mask)] # "?"
Open(mask) == mask[Len(mask)] = "*" /\ (Len(mask) = 1 \/ mask[Len(mask) - 1] # QUOTE)
\* A day that is given alone with a month, or with a weekday, is not taken as documented.
Plain(f) == f[1] = Any1 \/ (f[2] = Any1) = (f[3] = Any1)

\* What a mask means it matches, whatever has to be gone back over to see it; and a host mask, a mask with
\* a star at its end and a time match nothing else.
MatchesMeant ==
  IF compared.kind = "mask"
  THEN LET mask == compared.mask
           name == compared.name
       IN /\ WildMatch(mask, name) <=> name # <<>> /\ Means(mask, name, {"*", "?"})
          /\ Closed(mask) /\ Means(mask, name, Files) /\ name # <<>> => WildMatchFile(mask, name)
          /\ Closed(mask) /\ Separates(mask) /\ OneWord(mask) /\ Means(mask, name, Binds) /\ name # <<>> => WildMatchPer(mask, name)
          /\ Open(mask) /\ WildMatchFile(mask, name) => Means(mask, name, Files)
          /\ Open(mask) /\ WildMatchPer(mask, name) => Means(mask, name, Binds)
  ELSE Plain(compared.mask) => (CronMatch(compared.mask, compared.name) <=> Due(compared.mask, compared.name))
=============================================================================
