----------------------------- MODULE Loop_proofs -----------------------------
(***************************************************************************)
(* What the main loop carries: timers and connections.                       *)
(*                                                                         *)
(* Timers are kept, run in time and as often as was asked for, for any      *)
(* number of timers, any times and counts, and whatever the scripts that    *)
(* run add and kill.  The lists are spoken of by their elements: what is in *)
(* the two lists, in the one that is gone through and with the script that   *)
(* runs, is what is asked for, and each of them has the time that is left    *)
(* until it is due.                                                         *)
(*                                                                         *)
(* Connections are read and written in order, in lines, however what comes   *)
(* is split and whatever the network takes: for any texts, any width of a    *)
(* line, any way to be killed.  Every action changes one entry of the table, *)
(* so the invariant is one of entries (Sound), and what matters is where in   *)
(* the text an entry has got to (Reads).                                     *)
(***************************************************************************)
EXTENDS Timers, Sockets, SequenceTheorems, WellFoundedInduction, TLAPS

-----------------------------------------------------------------------------
(* Timers.                                                                  *)

\* A timer, and what is said of the one that was asked for by that number.
Timer == [id : Nat, mins : Nat, interval : Nat, count : Nat]
Asking == [kind : Kinds, interval : Nat, count : Nat, last : Nat, ran : Nat, state : {"on", "killed", "done"}]

Els(s) == {s[i] : i \in 1..Len(s)}
Ids(s) == {t.id : t \in Els(s)}
Once(s) == \A i, j \in 1..Len(s) : s[i].id = s[j].id => i = j

Typed ==
  /\ lists \in [Kinds -> Seq(Timer)]
  /\ run \in [kind : Kinds \cup {"none"}, mark : Seq(Timer), old : Timer]
  /\ clock \in [now : Nat, lastmin : Nat, ticks : [Kinds -> Nat]]
  /\ wanted \in Seq(Asking)

\* The number of one that was asked for of kind k, and is still wanted.
On(k, id) == id \in 1..Len(wanted) /\ wanted[id].kind = k /\ wanted[id].state = "on"

\* Timer t of kind k: the script is run with what is left as often, and it is due in left.
Kept(k, t, left, ran) ==
  /\ On(k, t.id)
  /\ Due(t.id) = clock.ticks[k] + left
  /\ wanted[t.id].interval = AtLeastOne(t.interval)
  /\ IF wanted[t.id].count = 0 THEN t.count = 0
     ELSE t.count > 0 /\ wanted[t.id].ran + t.count = wanted[t.id].count + ran

Separate ==
  /\ \A k \in Kinds : Once(lists[k])
  /\ Once(run.mark)
  /\ \A k \in Kinds : Ids(lists[k]) \cap Ids(run.mark) = {}
  /\ InScript => /\ \A k \in Kinds : run.old.id \notin Ids(lists[k])
                 /\ run.old.id \notin Ids(run.mark)
AllKept ==
  /\ \A k \in Kinds : \A t \in Els(lists[k]) : Kept(k, t, AtLeastOne(t.mins), 0)
  /\ \A t \in Els(run.mark) : Kept(run.kind, t, AtLeastOne(t.mins) - 1, 0)
  /\ InScript => Kept(run.kind, run.old, 0, 1)
AllThere ==
  \A k \in Kinds : \A id \in 1..Len(wanted) :
    On(k, id) => \/ id \in Ids(lists[k])
                 \/ run.kind = k /\ id \in Ids(run.mark)
                 \/ run.kind = k /\ InScript /\ id = run.old.id
Done ==
  \A id \in 1..Len(wanted) :
    LET w == wanted[id]
    IN /\ w.count > 0 => w.ran <= w.count
       /\ w.state = "done" => w.count > 0 /\ w.ran = w.count
Going ==
  /\ run.kind = "none" => run.mark = <<>> /\ ~InScript
  /\ clock.ticks["timer"] = clock.lastmin /\ clock.lastmin <= Minute
  /\ run.kind = "none" => clock.lastmin = Minute

TimersInv == Typed /\ Separate /\ AllKept /\ AllThere /\ Done /\ Going

-----------------------------------------------------------------------------
(* Lists.                                                                   *)

LEMMA ListFacts ==
  ASSUME NEW s \in Seq(Timer)
  PROVE  /\ Els(s) \subseteq Timer /\ Len(s) \in Nat
         /\ \A i \in 1..Len(s) : s[i] \in Els(s) /\ s[i] \in Timer /\ s[i].id \in Ids(s)
  BY DEF Els, Ids

LEMMA NoList == Els(<<>>) = {} /\ Ids(<<>>) = {} /\ Once(<<>>) /\ <<>> \in Seq(Timer)
  BY DEF Els, Ids, Once

LEMMA Putting ==
  ASSUME NEW s \in Seq(Timer), NEW t \in Timer
  PROVE  /\ <<t>> \o s \in Seq(Timer)
         /\ Els(<<t>> \o s) = {t} \cup Els(s)
         /\ Ids(<<t>> \o s) = {t.id} \cup Ids(s)
         /\ Once(s) /\ t.id \notin Ids(s) => Once(<<t>> \o s)
  <1> DEFINE r == <<t>> \o s
  <1>1. r \in Seq(Timer) /\ Len(r) = Len(s) + 1 /\ Len(s) \in Nat
    OBVIOUS
  <1>2. r[1] = t /\ \A i \in 1..Len(s) : r[i + 1] = s[i]
    OBVIOUS
  <1>3. \A i \in 2..Len(r) : i - 1 \in 1..Len(s) /\ r[i] = s[i - 1]
    BY <1>1
  <1> HIDE DEF r
  <1>4. Els(r) \subseteq {t} \cup Els(s)
    <2> SUFFICES ASSUME NEW i \in 1..Len(r) PROVE r[i] \in {t} \cup Els(s)
      BY DEF Els
    <2>1. CASE i = 1
      BY <2>1, <1>2
    <2>2. CASE i # 1
      BY <2>2, <1>1, <1>3 DEF Els
    <2> QED  BY <2>1, <2>2
  <1>5. {t} \cup Els(s) \subseteq Els(r)
    <2>1. t \in Els(r)
      BY <1>1, <1>2 DEF Els
    <2>2. ASSUME NEW i \in 1..Len(s) PROVE s[i] \in Els(r)
      BY <1>1, <1>2 DEF Els
    <2> QED  BY <2>1, <2>2 DEF Els
  <1>6. Els(r) = {t} \cup Els(s)
    BY <1>4, <1>5
  <1>7. Ids(r) = {t.id} \cup Ids(s)
    BY <1>6 DEF Ids
  <1>8. ASSUME Once(s), t.id \notin Ids(s) PROVE Once(r)
    <2>1. \A i \in 1..Len(s) : s[i].id # t.id
      BY <1>8 DEF Ids, Els
    <2> SUFFICES ASSUME NEW i \in 1..Len(r), NEW j \in 1..Len(r), r[i].id = r[j].id PROVE i = j
      BY DEF Once
    <2>2. CASE i = 1 /\ j = 1
      BY <2>2
    <2>3. CASE i = 1 /\ j # 1
      BY <2>1, <2>3, <1>1, <1>2, <1>3
    <2>4. CASE i # 1 /\ j = 1
      BY <2>1, <2>4, <1>1, <1>2, <1>3
    <2>5. CASE i # 1 /\ j # 1
      <3>1. i \in 2..Len(r) /\ j \in 2..Len(r)
        BY <2>5, <1>1
      <3>2. s[i - 1].id = s[j - 1].id /\ i - 1 \in 1..Len(s) /\ j - 1 \in 1..Len(s)
        BY <3>1, <1>3
      <3> QED  BY <3>1, <3>2, <1>8 DEF Once
    <2> QED  BY <2>2, <2>3, <2>4, <2>5
  <1>9. Once(s) /\ t.id \notin Ids(s) => Once(r)
    BY <1>8
  <1>10. r = <<t>> \o s
    BY DEF r
  <1>11. r \in Seq(Timer)
    BY <1>1
  <1> QED  BY <1>6, <1>7, <1>9, <1>10, <1>11

LEMMA Rest ==
  ASSUME NEW s \in Seq(Timer), s # <<>>
  PROVE  /\ Tail(s) \in Seq(Timer) /\ Head(s) \in Timer
         /\ Els(s) = {Head(s)} \cup Els(Tail(s))
         /\ Ids(s) = {Head(s).id} \cup Ids(Tail(s))
         /\ Once(s) => Once(Tail(s)) /\ Head(s).id \notin Ids(Tail(s))
  <1>1. Head(s) = s[1] /\ 1 \in 1..Len(s) /\ Len(Tail(s)) = Len(s) - 1 /\ Len(s) \in Nat
    OBVIOUS
  <1>2. \A i \in 1..Len(Tail(s)) : i + 1 \in 1..Len(s) /\ Tail(s)[i] = s[i + 1]
    BY <1>1
  <1>3. \A i \in 2..Len(s) : i - 1 \in 1..Len(Tail(s)) /\ Tail(s)[i - 1] = s[i]
    BY <1>1
  <1>4. Tail(s) \in Seq(Timer) /\ Head(s) \in Timer
    OBVIOUS
  <1>5. Els(s) = {Head(s)} \cup Els(Tail(s))
    <2>1. Els(Tail(s)) \subseteq Els(s)
      BY <1>2 DEF Els
    <2>2. Head(s) \in Els(s)
      BY <1>1 DEF Els
    <2>3. ASSUME NEW i \in 1..Len(s) PROVE s[i] \in {Head(s)} \cup Els(Tail(s))
      <3>1. CASE i = 1
        BY <3>1, <1>1
      <3>2. CASE i # 1
        BY <3>2, <1>1, <1>3 DEF Els
      <3> QED  BY <3>1, <3>2
    <2> QED  BY <2>1, <2>2, <2>3 DEF Els
  <1>6. Ids(s) = {Head(s).id} \cup Ids(Tail(s))
    BY <1>5 DEF Ids
  <1>7. ASSUME Once(s) PROVE Once(Tail(s)) /\ Head(s).id \notin Ids(Tail(s))
    <2>1. Once(Tail(s))
      <3> SUFFICES ASSUME NEW i \in 1..Len(Tail(s)), NEW j \in 1..Len(Tail(s)), Tail(s)[i].id = Tail(s)[j].id
                   PROVE  i = j
        BY DEF Once
      <3>1. i + 1 = j + 1
        BY <1>2, <1>7 DEF Once
      <3> QED  BY <3>1, <1>1
    <2>2. ASSUME NEW i \in 1..Len(Tail(s)) PROVE Tail(s)[i].id # Head(s).id
      BY <1>1, <1>2, <1>7 DEF Once
    <2> QED  BY <2>1, <2>2 DEF Ids, Els
  <1> QED  BY <1>4, <1>5, <1>6, <1>7

LEMMA Removing ==
  ASSUME NEW s \in Seq(Timer), NEW id, Once(s), \E i \in 1..Len(s) : s[i].id = id
  PROVE  /\ Without(s, id) \in Seq(Timer)
         /\ Els(Without(s, id)) = {t \in Els(s) : t.id # id}
         /\ Ids(Without(s, id)) = Ids(s) \ {id}
         /\ Once(Without(s, id))
  <1> DEFINE k == CHOOSE i \in 1..Len(s) : s[i].id = id
             a == SubSeq(s, 1, k - 1)
             b == SubSeq(s, k + 1, Len(s))
             r == a \o b
  <1>1. k \in 1..Len(s) /\ s[k].id = id /\ Len(s) \in Nat
    OBVIOUS
  <1>2. Without(s, id) = r
    BY DEF Without, RemoveAt
  <1> HIDE DEF k
  <1>3. a \in Seq(Timer) /\ Len(a) = k - 1 /\ \A i \in 1..(k - 1) : a[i] = s[i]
    BY <1>1
  <1>4. b \in Seq(Timer) /\ Len(b) = Len(s) - k /\ \A i \in 1..(Len(s) - k) : b[i] = s[k + i]
    BY <1>1
  <1> HIDE DEF a, b
  <1>5. r \in Seq(Timer) /\ Len(r) = Len(s) - 1
    <2>1. r \in Seq(Timer) /\ Len(r) = Len(a) + Len(b)
      BY <1>3, <1>4, ConcatProperties
    <2>2. Len(a) + Len(b) = Len(s) - 1
      BY <1>1, <1>3, <1>4
    <2> QED  BY <2>1, <2>2
  <1>6. \A i \in 1..Len(r) : r[i] = IF i < k THEN s[i] ELSE s[i + 1]
    <2> SUFFICES ASSUME NEW i \in 1..Len(r) PROVE r[i] = IF i < k THEN s[i] ELSE s[i + 1]
      OBVIOUS
    <2>1. CASE i < k
      BY <2>1, <1>1, <1>3, <1>4, <1>5
    <2>2. CASE ~(i < k)
      <3>1. i - (k - 1) \in 1..(Len(s) - k) /\ r[i] = b[i - (k - 1)] /\ k + (i - (k - 1)) = i + 1
        BY <2>2, <1>1, <1>3, <1>4, <1>5
      <3> QED  BY <2>2, <3>1, <1>4
    <2> QED  BY <2>1, <2>2
  <1> HIDE DEF r
  <1>7. \A i \in 1..Len(s) : s[i].id = id => i = k
    BY <1>1 DEF Once
  <1>8. Els(r) \subseteq {t \in Els(s) : t.id # id}
    <2> SUFFICES ASSUME NEW i \in 1..Len(r) PROVE r[i] \in Els(s) /\ r[i].id # id
      BY DEF Els
    <2>1. CASE i < k
      BY <2>1, <1>1, <1>5, <1>6, <1>7 DEF Els
    <2>2. CASE ~(i < k)
      BY <2>2, <1>1, <1>5, <1>6, <1>7 DEF Els
    <2> QED  BY <2>1, <2>2
  <1>9. {t \in Els(s) : t.id # id} \subseteq Els(r)
    <2> SUFFICES ASSUME NEW i \in 1..Len(s), s[i].id # id PROVE s[i] \in Els(r)
      BY DEF Els
    <2>1. i # k
      BY <1>1
    <2>2. CASE i < k
      BY <2>2, <1>1, <1>5, <1>6 DEF Els
    <2>3. CASE i > k
      <3>1. i - 1 \in 1..Len(r) /\ ~(i - 1 < k) /\ (i - 1) + 1 = i
        BY <2>3, <1>1, <1>5
      <3> QED  BY <3>1, <1>6 DEF Els
    <2> QED  BY <2>1, <2>2, <2>3, <1>1
  <1>10. Els(r) = {t \in Els(s) : t.id # id}
    BY <1>8, <1>9
  <1>11. Ids(r) = Ids(s) \ {id}
    BY <1>10 DEF Ids
  <1>12. Once(r)
    <2> SUFFICES ASSUME NEW i \in 1..Len(r), NEW j \in 1..Len(r), r[i].id = r[j].id PROVE i = j
      BY DEF Once
    <2>1. i \in 1..Len(s) /\ j \in 1..Len(s) /\ i + 1 \in 1..Len(s) /\ j + 1 \in 1..Len(s)
      BY <1>1, <1>5
    <2>2. (IF i < k THEN i ELSE i + 1) = (IF j < k THEN j ELSE j + 1)
      BY <2>1, <1>6 DEF Once
    <2> QED  BY <2>1, <2>2, <1>1
  <1> QED  BY <1>2, <1>5, <1>10, <1>11, <1>12

-----------------------------------------------------------------------------
(* Facts about a state.                                                     *)

\* What is said of a timer stays true while its own entry and its clock stay.
LEMMA KeptSame ==
  ASSUME NEW k, NEW t, NEW left, NEW ran, Kept(k, t, left, ran), Typed, wanted' \in Seq(Asking),
         t.id \in 1..Len(wanted'), wanted'[t.id] = wanted[t.id], clock'.ticks[k] = clock.ticks[k]
  PROVE  Kept(k, t, left, ran)'
  BY DEF Kept, On, Due

\* Nothing is asked for twice by a number, nor of two kinds.
LEMMA Numbers ==
  ASSUME TimersInv
  PROVE  /\ \A k \in Kinds : \A id \in Ids(lists[k]) : On(k, id)
         /\ \A id \in Ids(run.mark) : On(run.kind, id)
         /\ InScript => On(run.kind, run.old.id)
         /\ \A k \in Kinds : lists[k] \in Seq(Timer) /\ Els(lists[k]) \subseteq Timer
         /\ run.mark \in Seq(Timer) /\ Els(run.mark) \subseteq Timer
         /\ Len(wanted) \in Nat
  BY ListFacts DEF TimersInv, Typed, AllKept, Kept, Ids

LEMMA Small == \A n \in Nat : AtLeastOne(n) \in Nat \ {0} /\ (n > 0 => AtLeastOne(n) = n) /\ (n = 0 => AtLeastOne(n) = 1)
  BY DEF AtLeastOne

-----------------------------------------------------------------------------
LEMMA InitKept == InitTimers => TimersInv
  <1> SUFFICES ASSUME InitTimers PROVE TimersInv
    OBVIOUS
  <1> USE DEF InitTimers, Kinds
  <1>1. Typed
    BY NoList DEF Typed, Timer, NoTimer, Asking
  <1>2. Separate
    BY NoList DEF Separate, InScript
  <1>3. AllKept
    BY NoList DEF AllKept, InScript
  <1>4. AllThere /\ Done
    BY DEF AllThere, Done
  <1>5. Going
    <2>1. 0 \div PerMinute = 0
      BY TimersAssumption
    <2> QED  BY <2>1 DEF Going, InScript, Minute
  <1> QED  BY <1>1, <1>2, <1>3, <1>4, <1>5 DEF TimersInv

LEMMA Same == TimersInv /\ UNCHANGED timerVars => TimersInv'
  <1> SUFFICES ASSUME TimersInv, UNCHANGED timerVars PROVE TimersInv'
    OBVIOUS
  <1> USE DEF timerVars
  <1>1. Typed' /\ Separate'
    BY DEF TimersInv, Typed, Separate, InScript
  <1>2. AllKept'
    BY DEF TimersInv, AllKept, Kept, On, Due, InScript
  <1>3. AllThere' /\ Done' /\ Going'
    BY DEF TimersInv, AllThere, Done, Going, On, InScript, Minute
  <1> QED  BY <1>1, <1>2, <1>3 DEF TimersInv

\* A timer is asked for: it has a number that no other had, and comes first.
LEMMA TclTimerKeeps ==
  ASSUME TimersInv, NEW k \in Kinds, NEW elapse \in Times, NEW count \in Counts, TclTimer(k, elapse, count)
  PROVE  TimersInv'
  <1>1. elapse \in Nat /\ count \in Nat /\ Len(wanted) \in Nat
    BY TimersAssumption, Numbers
  <1>2. PICK n \in Nat : n = Len(wanted) + 1
    BY <1>1
  <1>3. PICK w : w = Asked(k, elapse, count)
    OBVIOUS
  <1>4. w \in Asking /\ w.kind = k /\ w.state = "on" /\ w.interval = AtLeastOne(elapse) /\ w.count = count
        /\ w.ran = 0 /\ w.last = clock.ticks[k]
    BY <1>1, <1>3, Small DEF Asked, Asking, TimersInv, Typed
  <1>5. PICK t \in Timer : t = [id |-> n, mins |-> elapse, interval |-> elapse, count |-> count]
    BY <1>1 DEF Timer
  <1>5a. t.id = n /\ t.mins = elapse /\ t.interval = elapse /\ t.count = count
    BY <1>5
  <1>6. /\ wanted' = Append(wanted, w) /\ lists' = [lists EXCEPT ![k] = <<t>> \o lists[k]]
        /\ UNCHANGED <<run, clock>>
    BY <1>2, <1>3, <1>5 DEF TclTimer, Added
  <1>6a. /\ wanted' \in Seq(Asking) /\ Len(wanted') = n /\ wanted'[n] = w
         /\ \A id \in 1..Len(wanted) : wanted'[id] = wanted[id]
    BY <1>2, <1>4, <1>6 DEF TimersInv, Typed
  <1>7. Len(wanted') = Len(wanted) + 1 /\ n = Len(wanted) + 1
    BY <1>2, <1>6a
  <1>8. \A j \in Kinds : \A id : On(j, id) => id # n /\ id \in 1..Len(wanted) /\ id \in 1..Len(wanted')
    BY <1>1, <1>2, <1>7 DEF On
  <1>9. \A j \in Kinds : n \notin Ids(lists[j])
    BY <1>8, Numbers
  <1>10. n \notin Ids(run.mark) /\ (InScript => run.old.id # n)
    BY <1>8, <1>7, <1>1, Numbers DEF On
  <1>11. /\ lists'[k] \in Seq(Timer) /\ Els(lists'[k]) = {t} \cup Els(lists[k])
         /\ Ids(lists'[k]) = {n} \cup Ids(lists[k]) /\ Once(lists'[k])
    <2>1. lists'[k] = <<t>> \o lists[k] /\ lists[k] \in Seq(Timer)
      BY <1>6 DEF TimersInv, Typed
    <2>2. Once(lists[k])
      BY DEF TimersInv, Separate
    <2> QED  BY <1>5, <1>5a, <1>9, <2>1, <2>2, Putting
  <1>12. \A j \in Kinds : j # k => lists'[j] = lists[j]
    BY <1>6 DEF TimersInv, Typed
  <1>13. Typed'
    BY <1>6, <1>6a, <1>11 DEF TimersInv, Typed
  <1>14. Separate'
    <2>1. \A j \in Kinds : Once(lists'[j]) /\ Ids(lists'[j]) \cap Ids(run.mark) = {}
      BY <1>10, <1>11, <1>12 DEF TimersInv, Separate
    <2>2. InScript => \A j \in Kinds : run.old.id \notin Ids(lists'[j])
      BY <1>10, <1>11, <1>12 DEF TimersInv, Separate
    <2> QED  BY <1>6, <2>1, <2>2 DEF TimersInv, Separate, InScript
  <1>15. \A j, s, left, ran : Kept(j, s, left, ran) => Kept(j, s, left, ran)'
    <2> SUFFICES ASSUME NEW j, NEW s, NEW left, NEW ran, Kept(j, s, left, ran) PROVE Kept(j, s, left, ran)'
      OBVIOUS
    <2>1. s.id \in 1..Len(wanted') /\ wanted'[s.id] = wanted[s.id]
      BY <1>1, <1>6a, <1>7 DEF Kept, On
    <2> QED  BY <2>1, <1>6, <1>6a, KeptSame DEF TimersInv
  <1>16. AllKept'
    <2>1. Kept(k, t, AtLeastOne(t.mins), 0)'
      <3>1. On(k, t.id)'
        BY <1>1, <1>2, <1>4, <1>5a, <1>6a, <1>7 DEF On
      <3>2. Due(t.id)' = clock'.ticks[k] + AtLeastOne(t.mins)
        BY <1>4, <1>6, <1>5a, <1>6a DEF Due
      <3>3. /\ wanted'[t.id].interval = AtLeastOne(t.interval)
            /\ IF wanted'[t.id].count = 0 THEN t.count = 0
               ELSE t.count > 0 /\ wanted'[t.id].ran + t.count = wanted'[t.id].count + 0
        BY <1>1, <1>4, <1>5a, <1>6a
      <3> QED  BY <3>1, <3>2, <3>3 DEF Kept
    <2>2. \A j \in Kinds : \A s \in Els(lists'[j]) : Kept(j, s, AtLeastOne(s.mins), 0)'
      BY <1>11, <1>12, <1>15, <2>1 DEF TimersInv, AllKept
    <2> QED  BY <1>6, <1>15, <2>2 DEF TimersInv, AllKept, InScript
  <1>17. AllThere'
    <2> SUFFICES ASSUME NEW j \in Kinds, NEW id \in 1..Len(wanted'), On(j, id)'
                 PROVE  \/ id \in Ids(lists'[j])
                        \/ run.kind = j /\ id \in Ids(run.mark)
                        \/ run.kind = j /\ InScript /\ id = run.old.id
      BY <1>6 DEF AllThere, InScript
    <2>1. CASE id = n
      BY <2>1, <1>4, <1>6a, <1>11 DEF On
    <2>2. CASE id # n
      <3>1. id \in 1..Len(wanted) /\ On(j, id)
        BY <2>2, <1>1, <1>6a, <1>7 DEF On
      <3> QED  BY <3>1, <1>11, <1>12 DEF TimersInv, AllThere
    <2> QED  BY <2>1, <2>2
  <1>18. Done'
    <2> SUFFICES ASSUME NEW id \in 1..Len(wanted')
                 PROVE  /\ wanted'[id].count > 0 => wanted'[id].ran <= wanted'[id].count
                        /\ wanted'[id].state = "done" => wanted'[id].count > 0 /\ wanted'[id].ran = wanted'[id].count
      BY DEF Done
    <2>1. CASE id = n
      BY <2>1, <1>1, <1>4, <1>6a
    <2>2. CASE id # n
      BY <2>2, <1>1, <1>6a, <1>7 DEF TimersInv, Done
    <2> QED  BY <2>1, <2>2
  <1>19. Going'
    BY <1>6 DEF TimersInv, Going, InScript, Minute
  <1> QED  BY <1>13, <1>14, <1>16, <1>17, <1>18, <1>19 DEF TimersInv

\* An entry that is killed.
LEMMA Killing ==
  ASSUME NEW w \in Asking
  PROVE  /\ [w EXCEPT !.state = "killed"] \in Asking
         /\ [w EXCEPT !.state = "killed"].state = "killed"
         /\ [w EXCEPT !.state = "killed"].count = w.count
         /\ [w EXCEPT !.state = "killed"].ran = w.ran
  BY DEF Asking

\* What one entry's state becomes: what is said of all the others stays.
LEMMA OthersStay ==
  ASSUME TimersInv, wanted' \in Seq(Asking), NEW id \in 1..Len(wanted), Len(wanted') = Len(wanted),
         \A i \in 1..Len(wanted) : i # id => wanted'[i] = wanted[i],
         clock'.ticks = clock.ticks
  PROVE  \A j, s, left, ran : Kept(j, s, left, ran) /\ s.id # id => Kept(j, s, left, ran)'
  <1> SUFFICES ASSUME NEW j, NEW s, NEW left, NEW ran, Kept(j, s, left, ran), s.id # id PROVE Kept(j, s, left, ran)'
    OBVIOUS
  <1>1. s.id \in 1..Len(wanted') /\ wanted'[s.id] = wanted[s.id]
    BY DEF Kept, On
  <1> QED  BY <1>1, KeptSame DEF TimersInv

LEMMA TclKilltimerKeeps ==
  ASSUME TimersInv, NEW k \in Kinds, NEW id, TclKilltimer(k, id)
  PROVE  TimersInv'
  <1>1. /\ lists' = [lists EXCEPT ![k] = Without(lists[k], id)]
        /\ wanted' = [wanted EXCEPT ![id].state = "killed"]
        /\ UNCHANGED <<run, clock>>
        /\ \E i \in 1..Len(lists[k]) : lists[k][i].id = id
    BY DEF TclKilltimer
  <1>2. lists[k] \in Seq(Timer) /\ Once(lists[k])
    BY DEF TimersInv, Typed, Separate
  <1>3. id \in Ids(lists[k]) /\ On(k, id)
    BY <1>1, <1>2, ListFacts, Numbers
  <1>4. /\ lists'[k] \in Seq(Timer) /\ Els(lists'[k]) = {t \in Els(lists[k]) : t.id # id}
        /\ Ids(lists'[k]) = Ids(lists[k]) \ {id} /\ Once(lists'[k])
    <2>1. lists'[k] = Without(lists[k], id)
      BY <1>1 DEF TimersInv, Typed
    <2> QED  BY <1>1, <1>2, <2>1, Removing
  <1>5. \A j \in Kinds : j # k => lists'[j] = lists[j]
    BY <1>1 DEF TimersInv, Typed
  <1>6. \A j \in Kinds : j # k => id \notin Ids(lists[j])
    BY <1>3, Numbers DEF On
  <1>7. id \notin Ids(run.mark) /\ (InScript => run.old.id # id)
    BY <1>3 DEF TimersInv, Separate
  <1>8. /\ wanted' \in Seq(Asking) /\ Len(wanted') = Len(wanted) /\ id \in 1..Len(wanted)
        /\ \A i \in 1..Len(wanted) : i # id => wanted'[i] = wanted[i]
        /\ wanted'[id] = [wanted[id] EXCEPT !.state = "killed"] /\ wanted[id] \in Asking
    <2>1. wanted \in Seq(Asking) /\ id \in 1..Len(wanted)
      BY <1>3 DEF TimersInv, Typed, On
    <2>2. [wanted[id] EXCEPT !.state = "killed"] \in Asking
      BY <2>1, Killing
    <2> QED  BY <1>1, <2>1, <2>2
  <1>9. \A j, s, left, ran : Kept(j, s, left, ran) /\ s.id # id => Kept(j, s, left, ran)'
    BY <1>1, <1>8, OthersStay
  <1>10. Typed'
    BY <1>1, <1>4, <1>8 DEF TimersInv, Typed
  <1>11. Separate'
    <2>1. \A j \in Kinds : Once(lists'[j]) /\ Ids(lists'[j]) \subseteq Ids(lists[j])
      BY <1>4, <1>5 DEF TimersInv, Separate
    <2> QED  BY <1>1, <2>1 DEF TimersInv, Separate, InScript
  <1>12. AllKept'
    <2>1. \A j \in Kinds : \A s \in Els(lists'[j]) : s \in Els(lists[j]) /\ s.id # id
      BY <1>4, <1>5, <1>6 DEF Ids
    <2>2. \A s \in Els(run.mark) : s.id # id
      BY <1>7 DEF Ids
    <2>3. \A j \in Kinds : \A s \in Els(lists'[j]) : Kept(j, s, AtLeastOne(s.mins), 0)'
      BY <2>1, <1>9 DEF TimersInv, AllKept
    <2>4. \A s \in Els(run.mark) : Kept(run.kind, s, AtLeastOne(s.mins) - 1, 0)'
      BY <2>2, <1>1, <1>9 DEF TimersInv, AllKept
    <2>5. InScript => Kept(run.kind, run.old, 0, 1)'
      BY <1>1, <1>7, <1>9 DEF TimersInv, AllKept
    <2> QED  BY <1>1, <2>3, <2>4, <2>5 DEF AllKept, InScript
  <1>13. AllThere'
    <2> SUFFICES ASSUME NEW j \in Kinds, NEW i \in 1..Len(wanted), On(j, i)'
                 PROVE  \/ i \in Ids(lists'[j])
                        \/ run.kind = j /\ i \in Ids(run.mark)
                        \/ run.kind = j /\ InScript /\ i = run.old.id
      BY <1>1, <1>8 DEF AllThere, InScript
    <2>1. i # id
      BY <1>8, Killing DEF On
    <2>2. On(j, i)
      BY <1>8, <2>1 DEF On
    <2> QED  BY <1>4, <1>5, <2>1, <2>2 DEF TimersInv, AllThere
  <1>14. Done'
    <2> SUFFICES ASSUME NEW i \in 1..Len(wanted)
                 PROVE  /\ wanted'[i].count > 0 => wanted'[i].ran <= wanted'[i].count
                        /\ wanted'[i].state = "done" => wanted'[i].count > 0 /\ wanted'[i].ran = wanted'[i].count
      BY <1>8 DEF Done
    <2>1. CASE i = id
      <3>1. wanted'[i].count = wanted[i].count /\ wanted'[i].ran = wanted[i].ran /\ wanted'[i].state # "done"
        BY <2>1, <1>8, Killing
      <3> QED  BY <3>1 DEF TimersInv, Done
    <2>2. CASE i # id
      BY <2>2, <1>8 DEF TimersInv, Done
    <2> QED  BY <2>1, <2>2
  <1>15. Going'
    BY <1>1 DEF TimersInv, Going, InScript, Minute
  <1> QED  BY <1>10, <1>11, <1>12, <1>13, <1>14, <1>15 DEF TimersInv

LEMMA WipeTimersKeeps ==
  ASSUME TimersInv, WipeTimers
  PROVE  TimersInv'
  <1> DEFINE Listed(id) == \E k \in Kinds : id \in Ids(lists[k])
  <1>1. lists' = [k \in Kinds |-> <<>>] /\ UNCHANGED <<run, clock>>
    BY DEF WipeTimers
  <1>2. \A id : Listed(id) <=> \E k \in Kinds : \E i \in 1..Len(lists[k]) : lists[k][i].id = id
    BY DEF Ids, Els
  <1>3. wanted' = [id \in DOMAIN wanted |-> IF Listed(id) THEN [wanted[id] EXCEPT !.state = "killed"] ELSE wanted[id]]
    BY <1>2 DEF WipeTimers
  <1> HIDE DEF Listed
  <1>4. \A i \in 1..Len(wanted) : wanted[i] \in Asking /\ [wanted[i] EXCEPT !.state = "killed"] \in Asking
    BY Killing DEF TimersInv, Typed
  <1>5. /\ wanted' \in Seq(Asking) /\ Len(wanted') = Len(wanted) /\ DOMAIN wanted = 1..Len(wanted)
        /\ \A i \in 1..Len(wanted) : ~Listed(i) => wanted'[i] = wanted[i]
        /\ \A i \in 1..Len(wanted) : Listed(i) => wanted'[i] = [wanted[i] EXCEPT !.state = "killed"]
    <2>1. wanted \in Seq(Asking) /\ DOMAIN wanted = 1..Len(wanted) /\ Len(wanted) \in Nat
      BY DEF TimersInv, Typed
    <2>2. wanted' = [id \in 1..Len(wanted) |-> IF Listed(id) THEN [wanted[id] EXCEPT !.state = "killed"] ELSE wanted[id]]
      BY <1>3, <2>1
    <2>3. wanted' \in [1..Len(wanted) -> Asking]
      BY <1>4, <2>1, <2>2
    <2>4. wanted' \in Seq(Asking) /\ Len(wanted') = Len(wanted)
      BY <2>1, <2>3
    <2> QED  BY <2>1, <2>2, <2>4
  <1>6. \A k \in Kinds : lists'[k] = <<>>
    BY <1>1
  <1>7. \A id \in Ids(run.mark) : ~Listed(id)
    BY DEF Listed, TimersInv, Separate
  <1>8. InScript => ~Listed(run.old.id)
    BY DEF Listed, TimersInv, Separate
  <1>9. \A j, s, left, ran : Kept(j, s, left, ran) /\ ~Listed(s.id) => Kept(j, s, left, ran)'
    <2> SUFFICES ASSUME NEW j, NEW s, NEW left, NEW ran, Kept(j, s, left, ran), ~Listed(s.id) PROVE Kept(j, s, left, ran)'
      OBVIOUS
    <2>1. s.id \in 1..Len(wanted') /\ wanted'[s.id] = wanted[s.id]
      BY <1>5 DEF Kept, On
    <2> QED  BY <2>1, <1>1, <1>5, KeptSame DEF TimersInv
  <1>10. Typed'
    BY <1>1, <1>5, NoList DEF TimersInv, Typed
  <1>11. Separate'
    BY <1>1, <1>6, NoList DEF TimersInv, Separate, InScript
  <1>12. AllKept'
    <2>1. \A s \in Els(run.mark) : Kept(run.kind, s, AtLeastOne(s.mins) - 1, 0)'
      BY <1>1, <1>7, <1>9 DEF TimersInv, AllKept, Ids
    <2>2. InScript => Kept(run.kind, run.old, 0, 1)'
      BY <1>1, <1>8, <1>9 DEF TimersInv, AllKept
    <2> QED  BY <1>1, <1>6, <2>1, <2>2, NoList DEF AllKept, InScript
  <1>13. AllThere'
    <2> SUFFICES ASSUME NEW j \in Kinds, NEW i \in 1..Len(wanted), On(j, i)'
                 PROVE  \/ run.kind = j /\ i \in Ids(run.mark)
                        \/ run.kind = j /\ InScript /\ i = run.old.id
      BY <1>1, <1>5, <1>6 DEF AllThere, InScript
    <2>1. ~Listed(i)
      BY <1>4, <1>5, Killing DEF On
    <2>2. On(j, i)
      BY <1>5, <2>1 DEF On
    <2> QED  BY <2>1, <2>2 DEF TimersInv, AllThere, Listed
  <1>14. Done'
    <2> SUFFICES ASSUME NEW i \in 1..Len(wanted)
                 PROVE  /\ wanted'[i].count > 0 => wanted'[i].ran <= wanted'[i].count
                        /\ wanted'[i].state = "done" => wanted'[i].count > 0 /\ wanted'[i].ran = wanted'[i].count
      BY <1>5 DEF Done
    <2>1. CASE Listed(i)
      <3>1. wanted'[i].count = wanted[i].count /\ wanted'[i].ran = wanted[i].ran /\ wanted'[i].state # "done"
        BY <2>1, <1>4, <1>5, Killing
      <3> QED  BY <3>1 DEF TimersInv, Done
    <2>2. CASE ~Listed(i)
      BY <2>2, <1>5 DEF TimersInv, Done
    <2> QED  BY <2>1, <2>2
  <1>15. Going'
    BY <1>1 DEF TimersInv, Going, InScript, Minute
  <1> QED  BY <1>10, <1>11, <1>12, <1>13, <1>14, <1>15 DEF TimersInv

-----------------------------------------------------------------------------
(* Going through.                                                           *)

LEMMA LessFacts ==
  ASSUME NEW t \in Timer
  PROVE  /\ Less(t) \in Timer /\ Less(t).id = t.id /\ Less(t).interval = t.interval /\ Less(t).count = t.count
         /\ Less(t).mins > 0 => AtLeastOne(Less(t).mins) = AtLeastOne(t.mins) - 1
         /\ Less(t).mins = 0 => AtLeastOne(t.mins) = 1
  <1>1. Less(t) = [t EXCEPT !.mins = IF t.mins > 0 THEN t.mins - 1 ELSE 0]
    BY DEF Less
  <1>2. t.mins \in Nat
    BY DEF Timer
  <1>3. Less(t) \in Timer /\ Less(t).id = t.id /\ Less(t).interval = t.interval /\ Less(t).count = t.count
    BY <1>1, <1>2 DEF Timer
  <1>4. Less(t).mins = IF t.mins > 0 THEN t.mins - 1 ELSE 0
    BY <1>1 DEF Timer
  <1> QED  BY <1>2, <1>3, <1>4 DEF AtLeastOne

\* The first of those still to be gone through.
LEMMA FirstFacts ==
  ASSUME TimersInv, run.mark # <<>>
  PROVE  /\ run.kind \in Kinds
         /\ Head(run.mark) \in Timer /\ Tail(run.mark) \in Seq(Timer) /\ Once(Tail(run.mark))
         /\ Els(run.mark) = {Head(run.mark)} \cup Els(Tail(run.mark))
         /\ Ids(run.mark) = {Head(run.mark).id} \cup Ids(Tail(run.mark))
         /\ Head(run.mark).id \notin Ids(Tail(run.mark))
         /\ Kept(run.kind, Head(run.mark), AtLeastOne(Head(run.mark).mins) - 1, 0)
         /\ \A k \in Kinds : Head(run.mark).id \notin Ids(lists[k])
         /\ Head(run.mark).id \in 1..Len(wanted)
  <1>1. run.mark \in Seq(Timer) /\ Once(run.mark) /\ run.kind \in Kinds
    BY DEF TimersInv, Typed, Separate, Going
  <1>2. Kept(run.kind, Head(run.mark), AtLeastOne(Head(run.mark).mins) - 1, 0)
    BY <1>1, Rest DEF TimersInv, AllKept
  <1>3. \A k \in Kinds : Head(run.mark).id \notin Ids(lists[k])
    BY <1>1, Rest DEF TimersInv, Separate
  <1>4. Head(run.mark).id \in 1..Len(wanted)
    BY <1>2 DEF Kept, On
  <1> QED  BY <1>1, <1>2, <1>3, <1>4, Rest

LEMMA GoesBackKeeps ==
  ASSUME TimersInv, GoesBack
  PROVE  TimersInv'
  <1>1. PICK k : k = run.kind
    OBVIOUS
  <1>2. PICK h : h = Head(run.mark)
    OBVIOUS
  <1>3. PICK t : t = Less(h)
    OBVIOUS
  <1>4. PICK r : r = Tail(run.mark)
    OBVIOUS
  <1>5. run.mark # <<>> /\ ~InScript /\ t.mins > 0
    BY <1>2, <1>3 DEF GoesBack
  <1>6. /\ lists' = [lists EXCEPT ![k] = <<t>> \o lists[k]]
        /\ run' = [run EXCEPT !.mark = r]
        /\ UNCHANGED <<clock, wanted>>
    BY <1>1, <1>2, <1>3, <1>4 DEF GoesBack, Back
  <1>7. k \in Kinds /\ h \in Timer /\ r \in Seq(Timer) /\ Once(r) /\ Els(run.mark) = {h} \cup Els(r)
        /\ Ids(run.mark) = {h.id} \cup Ids(r) /\ h.id \notin Ids(r)
        /\ Kept(k, h, AtLeastOne(h.mins) - 1, 0) /\ \A j \in Kinds : h.id \notin Ids(lists[j])
    BY <1>1, <1>2, <1>4, <1>5, FirstFacts
  <1>8. t \in Timer /\ t.id = h.id /\ t.interval = h.interval /\ t.count = h.count
        /\ AtLeastOne(t.mins) = AtLeastOne(h.mins) - 1
    BY <1>3, <1>5, <1>7, LessFacts
  <1>9. lists \in [Kinds -> Seq(Timer)] /\ run \in [kind : Kinds \cup {"none"}, mark : Seq(Timer), old : Timer]
    BY DEF TimersInv, Typed
  <1>10. run'.kind = run.kind /\ run'.old = run.old /\ run'.mark = r
    BY <1>6, <1>9
  <1>11. ~InScript'
    BY <1>5, <1>10 DEF InScript
  <1>12. /\ lists'[k] \in Seq(Timer) /\ Els(lists'[k]) = {t} \cup Els(lists[k])
         /\ Ids(lists'[k]) = {h.id} \cup Ids(lists[k]) /\ Once(lists'[k])
    <2>1. lists'[k] = <<t>> \o lists[k] /\ lists[k] \in Seq(Timer) /\ Once(lists[k])
      BY <1>6, <1>7, <1>9 DEF TimersInv, Separate
    <2> QED  BY <1>7, <1>8, <2>1, Putting
  <1>13. \A j \in Kinds : j # k => lists'[j] = lists[j]
    BY <1>6, <1>9
  <1>14. Typed'
    BY <1>6, <1>7, <1>9, <1>12 DEF TimersInv, Typed
  <1>15. Separate'
    <2>1. \A j \in Kinds : Once(lists'[j]) /\ Ids(lists'[j]) \cap Ids(r) = {}
      BY <1>7, <1>12, <1>13 DEF TimersInv, Separate
    <2> QED  BY <1>7, <1>10, <1>11, <2>1 DEF Separate
  <1>16. \A j, s, left, ran : Kept(j, s, left, ran) => Kept(j, s, left, ran)'
    BY <1>6 DEF Kept, On, Due
  <1>17. AllKept'
    <2>1. Kept(k, t, AtLeastOne(t.mins), 0)
      BY <1>7, <1>8 DEF Kept
    <2>2. \A j \in Kinds : \A s \in Els(lists'[j]) : Kept(j, s, AtLeastOne(s.mins), 0)'
      BY <1>12, <1>13, <1>16, <2>1 DEF TimersInv, AllKept
    <2>3. \A s \in Els(r) : Kept(k, s, AtLeastOne(s.mins) - 1, 0)
      BY <1>1, <1>7 DEF TimersInv, AllKept
    <2> QED  BY <1>1, <1>10, <1>11, <1>16, <2>2, <2>3 DEF AllKept
  <1>18. AllThere'
    <2> SUFFICES ASSUME NEW j \in Kinds, NEW id \in 1..Len(wanted), On(j, id)
                 PROVE  id \in Ids(lists'[j]) \/ (run.kind = j /\ id \in Ids(r))
      BY <1>6, <1>10 DEF AllThere, On
    <2> QED  BY <1>1, <1>5, <1>7, <1>12, <1>13 DEF TimersInv, AllThere
  <1>19. Done' /\ Going'
    <2>1. Done'
      BY <1>6 DEF TimersInv, Done
    <2>2. run'.kind # "none"
      BY <1>1, <1>7, <1>10 DEF Kinds
    <2> QED  BY <1>6, <2>1, <2>2 DEF TimersInv, Going, Minute
  <1> QED  BY <1>14, <1>15, <1>17, <1>18, <1>19 DEF TimersInv

LEMMA FiresKeeps ==
  ASSUME TimersInv, Fires
  PROVE  TimersInv'
  <1>1. PICK k : k = run.kind
    OBVIOUS
  <1>2. PICK h : h = Head(run.mark)
    OBVIOUS
  <1>3. PICK t : t = Less(h)
    OBVIOUS
  <1>4. PICK r : r = Tail(run.mark)
    OBVIOUS
  <1>5. run.mark # <<>> /\ ~InScript /\ t.mins = 0
    BY <1>2, <1>3 DEF Fires
  <1>6. /\ run' = [run EXCEPT !.mark = r, !.old = t]
        /\ wanted' = [wanted EXCEPT ![h.id].ran = @ + 1]
        /\ UNCHANGED <<lists, clock>>
    BY <1>1, <1>2, <1>3, <1>4 DEF Fires
  <1>7. k \in Kinds /\ h \in Timer /\ r \in Seq(Timer) /\ Once(r) /\ Els(run.mark) = {h} \cup Els(r)
        /\ Ids(run.mark) = {h.id} \cup Ids(r) /\ h.id \notin Ids(r)
        /\ Kept(k, h, AtLeastOne(h.mins) - 1, 0) /\ \A j \in Kinds : h.id \notin Ids(lists[j])
    BY <1>1, <1>2, <1>4, <1>5, FirstFacts
  <1>8. t \in Timer /\ t.id = h.id /\ t.interval = h.interval /\ t.count = h.count
        /\ AtLeastOne(h.mins) = 1
    BY <1>3, <1>5, <1>7, LessFacts
  <1>9. run \in [kind : Kinds \cup {"none"}, mark : Seq(Timer), old : Timer]
    BY DEF TimersInv, Typed
  <1>10. run'.kind = run.kind /\ run'.old = t /\ run'.mark = r
    BY <1>6, <1>9
  <1>11. h.id \in 1..Len(wanted) /\ wanted[h.id] \in Asking
    BY <1>7 DEF Kept, On, TimersInv, Typed
  <1>12. PICK w : w = [wanted[h.id] EXCEPT !.ran = @ + 1]
    OBVIOUS
  <1>13. w \in Asking /\ w.kind = wanted[h.id].kind /\ w.state = wanted[h.id].state /\ w.last = wanted[h.id].last
         /\ w.interval = wanted[h.id].interval /\ w.count = wanted[h.id].count /\ w.ran = wanted[h.id].ran + 1
    BY <1>11, <1>12 DEF Asking
  <1>14. /\ wanted' \in Seq(Asking) /\ Len(wanted') = Len(wanted) /\ wanted'[h.id] = w
         /\ \A i \in 1..Len(wanted) : i # h.id => wanted'[i] = wanted[i]
    <2>1. wanted \in Seq(Asking)
      BY DEF TimersInv, Typed
    <2>2. wanted' = [wanted EXCEPT ![h.id] = w]
      BY <1>6, <1>12
    <2> QED  BY <1>11, <1>13, <2>1, <2>2
  <1>15. Typed'
    BY <1>6, <1>7, <1>8, <1>9, <1>14 DEF TimersInv, Typed
  <1>16. Separate'
    BY <1>6, <1>7, <1>8, <1>10 DEF TimersInv, Separate
  <1>17. \A j, s, left, ran : Kept(j, s, left, ran) /\ s.id # h.id => Kept(j, s, left, ran)'
    BY <1>6, <1>11, <1>14, OthersStay
  <1>18. AllKept'
    <2>1. Kept(k, t, 0, 1)'
      <3>1. On(k, t.id)'
        BY <1>7, <1>8, <1>11, <1>13, <1>14 DEF Kept, On
      <3>2. wanted[h.id].last + wanted[h.id].interval = clock.ticks[k] + (1 - 1)
        BY <1>7, <1>8 DEF Kept, Due
      <3>3. Due(t.id)' = clock'.ticks[k] + 0
        <4>1. clock.ticks[k] \in Nat
          BY <1>7 DEF TimersInv, Typed
        <4> QED  BY <3>2, <4>1, <1>6, <1>8, <1>13, <1>14 DEF Due
      <3>4. /\ wanted'[t.id].interval = AtLeastOne(t.interval)
            /\ IF wanted'[t.id].count = 0 THEN t.count = 0
               ELSE t.count > 0 /\ wanted'[t.id].ran + t.count = wanted'[t.id].count + 1
        <4>1. /\ wanted[h.id].interval = AtLeastOne(h.interval)
              /\ IF wanted[h.id].count = 0 THEN h.count = 0
                 ELSE h.count > 0 /\ wanted[h.id].ran + h.count = wanted[h.id].count + 0
          BY <1>7 DEF Kept
        <4>2. wanted[h.id].ran \in Nat /\ wanted[h.id].count \in Nat /\ h.count \in Nat
          BY <1>7, <1>11 DEF Asking, Timer
        <4>3. wanted'[t.id].ran = wanted[h.id].ran + 1 /\ wanted'[t.id].count = wanted[h.id].count
              /\ wanted'[t.id].interval = wanted[h.id].interval
          BY <1>8, <1>13, <1>14
        <4> QED  BY <4>1, <4>2, <4>3, <1>8
      <3> QED  BY <3>1, <3>3, <3>4 DEF Kept
    <2>2. \A j \in Kinds : \A s \in Els(lists[j]) : s.id # h.id
      BY <1>7 DEF Ids
    <2>3. \A j \in Kinds : \A s \in Els(lists'[j]) : Kept(j, s, AtLeastOne(s.mins), 0)'
      BY <1>6, <1>17, <2>2 DEF TimersInv, AllKept
    <2>4. \A s \in Els(r) : s.id # h.id /\ Kept(k, s, AtLeastOne(s.mins) - 1, 0)
      BY <1>1, <1>7 DEF TimersInv, AllKept, Ids
    <2> QED  BY <1>1, <1>10, <1>17, <2>1, <2>3, <2>4 DEF AllKept
  <1>19. AllThere'
    <2>1. InScript'
      BY <1>8, <1>10, <1>11 DEF InScript, NoTimer
    <2>2. \A j : \A id \in 1..Len(wanted) : On(j, id)' => On(j, id)
      BY <1>13, <1>14 DEF On
    <2> SUFFICES ASSUME NEW j \in Kinds, NEW id \in 1..Len(wanted), On(j, id)
                 PROVE  \/ id \in Ids(lists[j]) \/ (run.kind = j /\ id \in Ids(r)) \/ (run.kind = j /\ id = h.id)
      BY <2>1, <2>2, <1>6, <1>8, <1>10, <1>14 DEF AllThere
    <2> QED  BY <1>1, <1>5, <1>7 DEF TimersInv, AllThere
  <1>20. Done'
    <2> SUFFICES ASSUME NEW i \in 1..Len(wanted)
                 PROVE  /\ wanted'[i].count > 0 => wanted'[i].ran <= wanted'[i].count
                        /\ wanted'[i].state = "done" => wanted'[i].count > 0 /\ wanted'[i].ran = wanted'[i].count
      BY <1>14 DEF Done
    <2>1. CASE i = h.id
      <3>1. wanted[h.id].state = "on" /\ (wanted[h.id].count # 0 => h.count > 0 /\ wanted[h.id].ran + h.count = wanted[h.id].count + 0)
        BY <1>7 DEF Kept, On
      <3>2. wanted[h.id].ran \in Nat /\ wanted[h.id].count \in Nat /\ h.count \in Nat
        BY <1>7, <1>11 DEF Asking, Timer
      <3>3. wanted'[i].ran = wanted[h.id].ran + 1 /\ wanted'[i].count = wanted[h.id].count /\ wanted'[i].state = "on"
        BY <2>1, <3>1, <1>13, <1>14
      <3> QED  BY <3>1, <3>2, <3>3
    <2>2. CASE i # h.id
      BY <2>2, <1>14 DEF TimersInv, Done
    <2> QED  BY <2>1, <2>2
  <1>21. Going'
    <2>1. run'.kind # "none"
      BY <1>1, <1>7, <1>10 DEF Kinds
    <2> QED  BY <1>6, <2>1 DEF TimersInv, Going, Minute
  <1> QED  BY <1>15, <1>16, <1>18, <1>19, <1>20, <1>21 DEF TimersInv

\* The one whose script runs.
LEMMA OldFacts ==
  ASSUME TimersInv, InScript
  PROVE  /\ run.kind \in Kinds /\ run.old \in Timer /\ Kept(run.kind, run.old, 0, 1)
         /\ run.old.id \in 1..Len(wanted) /\ wanted[run.old.id] \in Asking
         /\ run.old.id \notin Ids(run.mark) /\ \A k \in Kinds : run.old.id \notin Ids(lists[k])
  <1>1. run.kind \in Kinds /\ run.old \in Timer
    BY DEF TimersInv, Typed, Going
  <1>2. Kept(run.kind, run.old, 0, 1)
    BY DEF TimersInv, AllKept
  <1>3. run.old.id \notin Ids(run.mark) /\ \A k \in Kinds : run.old.id \notin Ids(lists[k])
    BY DEF TimersInv, Separate
  <1> QED  BY <1>1, <1>2, <1>3 DEF Kept, On, TimersInv, Typed

\* It is done.
LEMMA DoneKeeps ==
  ASSUME TimersInv, InScript, run.old.count = 1, HasRun
  PROVE  TimersInv'
  <1>1. PICK k : k = run.kind
    OBVIOUS
  <1>2. PICK t : t = run.old
    OBVIOUS
  <1>3. run' = [run EXCEPT !.old = NoTimer] /\ wanted' = [wanted EXCEPT ![t.id].state = "done"] /\ UNCHANGED <<lists, clock>>
    BY <1>2 DEF HasRun
  <1>4. k \in Kinds /\ t \in Timer /\ Kept(k, t, 0, 1) /\ t.id \in 1..Len(wanted) /\ wanted[t.id] \in Asking
        /\ t.id \notin Ids(run.mark) /\ \A j \in Kinds : t.id \notin Ids(lists[j])
    BY <1>1, <1>2, OldFacts
  <1>5. run \in [kind : Kinds \cup {"none"}, mark : Seq(Timer), old : Timer]
    BY DEF TimersInv, Typed
  <1>6. run'.kind = k /\ run'.mark = run.mark /\ run'.old = NoTimer
    BY <1>1, <1>3, <1>5
  <1>7. ~InScript'
    BY <1>6 DEF InScript
  <1>8. PICK w : w = [wanted[t.id] EXCEPT !.state = "done"]
    OBVIOUS
  <1>9. w \in Asking /\ w.state = "done" /\ w.count = wanted[t.id].count /\ w.ran = wanted[t.id].ran
    BY <1>4, <1>8 DEF Asking
  <1>10. /\ wanted' \in Seq(Asking) /\ Len(wanted') = Len(wanted) /\ wanted'[t.id] = w
         /\ \A i \in 1..Len(wanted) : i # t.id => wanted'[i] = wanted[i]
    <2>1. wanted \in Seq(Asking)
      BY DEF TimersInv, Typed
    <2>2. wanted' = [wanted EXCEPT ![t.id] = w]
      BY <1>3, <1>8
    <2> QED  BY <1>4, <1>9, <2>1, <2>2
  <1>11. Typed'
    <2>1. NoTimer \in Timer
      BY DEF NoTimer, Timer
    <2> QED  BY <1>3, <1>5, <1>10, <2>1 DEF TimersInv, Typed
  <1>12. Separate'
    BY <1>3, <1>6, <1>7 DEF TimersInv, Separate
  <1>13. \A j, s, left, ran : Kept(j, s, left, ran) /\ s.id # t.id => Kept(j, s, left, ran)'
    BY <1>3, <1>4, <1>10, OthersStay
  <1>14. AllKept'
    <2>1. \A j \in Kinds : \A s \in Els(lists[j]) : s.id # t.id
      BY <1>4 DEF Ids
    <2>2. \A s \in Els(run.mark) : s.id # t.id
      BY <1>4 DEF Ids
    <2>3. \A j \in Kinds : \A s \in Els(lists'[j]) : Kept(j, s, AtLeastOne(s.mins), 0)'
      BY <1>3, <1>13, <2>1 DEF TimersInv, AllKept
    <2>4. \A s \in Els(run.mark) : Kept(k, s, AtLeastOne(s.mins) - 1, 0)
      BY <1>1 DEF TimersInv, AllKept
    <2> QED  BY <1>6, <1>7, <1>13, <2>2, <2>3, <2>4 DEF AllKept
  <1>15. AllThere'
    <2> SUFFICES ASSUME NEW j \in Kinds, NEW id \in 1..Len(wanted), On(j, id)'
                 PROVE  id \in Ids(lists[j]) \/ (run.kind = j /\ id \in Ids(run.mark))
      BY <1>1, <1>3, <1>6, <1>10 DEF AllThere
    <2>1. id # t.id
      BY <1>9, <1>10 DEF On
    <2>2. On(j, id)
      BY <2>1, <1>10 DEF On
    <2> QED  BY <1>2, <2>1, <2>2 DEF TimersInv, AllThere
  <1>16. Done'
    <2> SUFFICES ASSUME NEW i \in 1..Len(wanted)
                 PROVE  /\ wanted'[i].count > 0 => wanted'[i].ran <= wanted'[i].count
                        /\ wanted'[i].state = "done" => wanted'[i].count > 0 /\ wanted'[i].ran = wanted'[i].count
      BY <1>10 DEF Done
    <2>1. CASE i = t.id
      <3>1. t.count = 1
        BY <1>2
      <3>2. wanted[t.id].count # 0 /\ wanted[t.id].ran + t.count = wanted[t.id].count + 1
        BY <1>4, <3>1 DEF Kept
      <3>3. wanted[t.id].ran \in Nat /\ wanted[t.id].count \in Nat
        BY <1>4 DEF Asking
      <3>4. wanted'[i].ran = wanted[t.id].ran /\ wanted'[i].count = wanted[t.id].count
        BY <2>1, <1>9, <1>10
      <3> QED  BY <3>1, <3>2, <3>3, <3>4
    <2>2. CASE i # t.id
      BY <2>2, <1>10 DEF TimersInv, Done
    <2> QED  BY <2>1, <2>2
  <1>17. Going'
    <2>1. run'.kind # "none"
      BY <1>4, <1>6 DEF Kinds
    <2> QED  BY <1>3, <2>1 DEF TimersInv, Going, Minute
  <1> QED  BY <1>11, <1>12, <1>14, <1>15, <1>16, <1>17 DEF TimersInv

\* It begins anew.
LEMMA AgainKeeps ==
  ASSUME TimersInv, InScript, run.old.count # 1, HasRun
  PROVE  TimersInv'
  <1>1. PICK k : k = run.kind
    OBVIOUS
  <1>2. PICK t : t = run.old
    OBVIOUS
  <1>3. PICK u : u = [t EXCEPT !.mins = t.interval, !.count = IF t.count > 1 THEN t.count - 1 ELSE t.count]
    OBVIOUS
  <1>4. /\ run' = [run EXCEPT !.old = NoTimer]
        /\ lists' = [lists EXCEPT ![k] = <<u>> \o lists[k]]
        /\ wanted' = [wanted EXCEPT ![t.id].last = clock.ticks[k]]
        /\ UNCHANGED clock
    BY <1>1, <1>2, <1>3 DEF HasRun, Back
  <1>5. k \in Kinds /\ t \in Timer /\ Kept(k, t, 0, 1) /\ t.id \in 1..Len(wanted) /\ wanted[t.id] \in Asking
        /\ t.id \notin Ids(run.mark) /\ \A j \in Kinds : t.id \notin Ids(lists[j])
    BY <1>1, <1>2, OldFacts
  <1>6. u \in Timer /\ u.id = t.id /\ u.mins = t.interval /\ u.interval = t.interval
        /\ u.count = IF t.count > 1 THEN t.count - 1 ELSE t.count
    <2>1. t.count \in Nat
      BY <1>5 DEF Timer
    <2>2. (IF t.count > 1 THEN t.count - 1 ELSE t.count) \in Nat
      BY <2>1
    <2> QED  BY <1>3, <1>5, <2>2 DEF Timer
  <1>7. run \in [kind : Kinds \cup {"none"}, mark : Seq(Timer), old : Timer] /\ lists \in [Kinds -> Seq(Timer)]
    BY DEF TimersInv, Typed
  <1>8. run'.kind = k /\ run'.mark = run.mark /\ run'.old = NoTimer
    BY <1>1, <1>4, <1>7
  <1>9. ~InScript'
    BY <1>8 DEF InScript
  <1>10. PICK w : w = [wanted[t.id] EXCEPT !.last = clock.ticks[k]]
    OBVIOUS
  <1>11. w \in Asking /\ w.state = wanted[t.id].state /\ w.count = wanted[t.id].count /\ w.ran = wanted[t.id].ran
         /\ w.kind = wanted[t.id].kind /\ w.interval = wanted[t.id].interval /\ w.last = clock.ticks[k]
    <2>1. clock.ticks[k] \in Nat
      BY <1>5 DEF TimersInv, Typed
    <2> QED  BY <1>5, <1>10, <2>1 DEF Asking
  <1>12. /\ wanted' \in Seq(Asking) /\ Len(wanted') = Len(wanted) /\ wanted'[t.id] = w
         /\ \A i \in 1..Len(wanted) : i # t.id => wanted'[i] = wanted[i]
    <2>1. wanted \in Seq(Asking)
      BY DEF TimersInv, Typed
    <2>2. wanted' = [wanted EXCEPT ![t.id] = w]
      BY <1>4, <1>10
    <2> QED  BY <1>5, <1>11, <2>1, <2>2
  <1>13. /\ lists'[k] \in Seq(Timer) /\ Els(lists'[k]) = {u} \cup Els(lists[k])
         /\ Ids(lists'[k]) = {t.id} \cup Ids(lists[k]) /\ Once(lists'[k])
    <2>1. lists'[k] = <<u>> \o lists[k] /\ lists[k] \in Seq(Timer) /\ Once(lists[k])
      BY <1>4, <1>5, <1>7 DEF TimersInv, Separate
    <2> QED  BY <1>5, <1>6, <2>1, Putting
  <1>14. \A j \in Kinds : j # k => lists'[j] = lists[j]
    BY <1>4, <1>7
  <1>15. Typed'
    <2>1. NoTimer \in Timer
      BY DEF NoTimer, Timer
    <2> QED  BY <1>4, <1>7, <1>12, <1>13, <2>1 DEF TimersInv, Typed
  <1>16. Separate'
    <2>1. \A j \in Kinds : Once(lists'[j]) /\ Ids(lists'[j]) \cap Ids(run.mark) = {}
      BY <1>5, <1>13, <1>14 DEF TimersInv, Separate
    <2> QED  BY <1>8, <1>9, <2>1 DEF TimersInv, Separate
  <1>17. \A j, s, left, ran : Kept(j, s, left, ran) /\ s.id # t.id => Kept(j, s, left, ran)'
    BY <1>4, <1>5, <1>12, OthersStay
  <1>18. Kept(k, u, AtLeastOne(u.mins), 0)'
    <2>1. On(k, u.id)'
      BY <1>5, <1>6, <1>11, <1>12 DEF Kept, On
    <2>2. wanted[t.id].interval = AtLeastOne(t.interval)
      BY <1>5 DEF Kept
    <2>3. Due(u.id)' = clock'.ticks[k] + AtLeastOne(u.mins)
      BY <2>2, <1>4, <1>6, <1>11, <1>12 DEF Due
    <2>4. /\ wanted'[u.id].interval = AtLeastOne(u.interval)
          /\ IF wanted'[u.id].count = 0 THEN u.count = 0
             ELSE u.count > 0 /\ wanted'[u.id].ran + u.count = wanted'[u.id].count + 0
      <3>1. /\ IF wanted[t.id].count = 0 THEN t.count = 0
               ELSE t.count > 0 /\ wanted[t.id].ran + t.count = wanted[t.id].count + 1
        BY <1>5 DEF Kept
      <3>2. wanted[t.id].ran \in Nat /\ wanted[t.id].count \in Nat /\ t.count \in Nat /\ t.count # 1
        BY <1>2, <1>5 DEF Asking, Timer
      <3>3. wanted'[u.id].ran = wanted[t.id].ran /\ wanted'[u.id].count = wanted[t.id].count
            /\ wanted'[u.id].interval = wanted[t.id].interval
        BY <1>6, <1>11, <1>12
      <3> QED  BY <2>2, <3>1, <3>2, <3>3, <1>6
    <2> QED  BY <2>1, <2>3, <2>4 DEF Kept
  <1>19. AllKept'
    <2>1. \A j \in Kinds : \A s \in Els(lists[j]) : s.id # t.id
      BY <1>5 DEF Ids
    <2>2. \A s \in Els(run.mark) : s.id # t.id
      BY <1>5 DEF Ids
    <2>3. \A j \in Kinds : \A s \in Els(lists'[j]) : Kept(j, s, AtLeastOne(s.mins), 0)'
      BY <1>13, <1>14, <1>17, <1>18, <2>1 DEF TimersInv, AllKept
    <2>4. \A s \in Els(run.mark) : Kept(k, s, AtLeastOne(s.mins) - 1, 0)
      BY <1>1 DEF TimersInv, AllKept
    <2> QED  BY <1>8, <1>9, <1>17, <2>2, <2>3, <2>4 DEF AllKept
  <1>20. AllThere'
    <2> SUFFICES ASSUME NEW j \in Kinds, NEW id \in 1..Len(wanted), On(j, id)'
                 PROVE  id \in Ids(lists'[j]) \/ (run.kind = j /\ id \in Ids(run.mark))
      BY <1>1, <1>8, <1>12 DEF AllThere
    <2>1. On(j, id)
      BY <1>11, <1>12 DEF On
    <2> QED  BY <1>1, <1>2, <1>13, <1>14, <2>1 DEF TimersInv, AllThere
  <1>21. Done'
    <2> SUFFICES ASSUME NEW i \in 1..Len(wanted)
                 PROVE  /\ wanted'[i].count > 0 => wanted'[i].ran <= wanted'[i].count
                        /\ wanted'[i].state = "done" => wanted'[i].count > 0 /\ wanted'[i].ran = wanted'[i].count
      BY <1>12 DEF Done
    <2>1. CASE i = t.id
      BY <2>1, <1>11, <1>12 DEF TimersInv, Done
    <2>2. CASE i # t.id
      BY <2>2, <1>12 DEF TimersInv, Done
    <2> QED  BY <2>1, <2>2
  <1>22. Going'
    <2>1. run'.kind # "none"
      BY <1>5, <1>8 DEF Kinds
    <2> QED  BY <1>4, <2>1 DEF TimersInv, Going, Minute
  <1> QED  BY <1>15, <1>16, <1>19, <1>20, <1>21, <1>22 DEF TimersInv

-----------------------------------------------------------------------------
(* The clock.                                                               *)

\* A list is taken away to be gone through, and its clock goes on.
LEMMA BegunKeeps ==
  ASSUME TimersInv, NEW k \in Kinds, run.mark = <<>>, ~InScript, Begun(k), UNCHANGED wanted,
         clock' \in [now : Nat, lastmin : Nat, ticks : [Kinds -> Nat]],
         clock'.ticks = [clock.ticks EXCEPT ![k] = @ + 1]
  PROVE  Typed' /\ Separate' /\ AllKept' /\ AllThere' /\ Done' /\ run'.kind = k
  <1>1. run' = [kind |-> k, mark |-> lists[k], old |-> NoTimer] /\ lists' = [lists EXCEPT ![k] = <<>>]
    BY DEF Begun
  <1>2. lists \in [Kinds -> Seq(Timer)] /\ clock.ticks \in [Kinds -> Nat]
    BY DEF TimersInv, Typed
  <1>3. run'.kind = k /\ run'.mark = lists[k] /\ ~InScript' /\ NoTimer \in Timer
    BY <1>1 DEF InScript, NoTimer, Timer
  <1>4. lists'[k] = <<>> /\ \A j \in Kinds : j # k => lists'[j] = lists[j] /\ clock'.ticks[j] = clock.ticks[j]
    BY <1>1, <1>2
  <1>5. clock'.ticks[k] = clock.ticks[k] + 1 /\ clock.ticks[k] \in Nat
    BY <1>2
  <1>6. Typed'
    BY <1>1, <1>2, <1>3, NoList DEF TimersInv, Typed
  <1>7. \A j \in Kinds : j # k => Ids(lists[j]) \cap Ids(lists[k]) = {}
    <2> SUFFICES ASSUME NEW j \in Kinds, j # k, NEW id \in Ids(lists[j]), id \in Ids(lists[k]) PROVE FALSE
      OBVIOUS
    <2>1. On(j, id) /\ On(k, id)
      BY Numbers
    <2> QED  BY <2>1 DEF On
  <1>8. Separate'
    <2>1. \A j \in Kinds : Once(lists'[j]) /\ Ids(lists'[j]) \cap Ids(lists[k]) = {}
      BY <1>4, <1>7, NoList DEF TimersInv, Separate
    <2>2. Once(lists[k])
      BY DEF TimersInv, Separate
    <2> QED  BY <1>3, <2>1, <2>2 DEF Separate
  <1>9. AllKept'
    <2>1. ASSUME NEW j \in Kinds, NEW s \in Els(lists'[j]) PROVE Kept(j, s, AtLeastOne(s.mins), 0)'
      <3>1. j # k /\ s \in Els(lists[j])
        BY <1>4, NoList
      <3>2. Kept(j, s, AtLeastOne(s.mins), 0)
        BY <3>1 DEF TimersInv, AllKept
      <3> QED  BY <3>1, <3>2, <1>4 DEF Kept, On, Due
    <2>2. ASSUME NEW s \in Els(lists[k]) PROVE Kept(k, s, AtLeastOne(s.mins) - 1, 0)'
      <3>1. Kept(k, s, AtLeastOne(s.mins), 0)
        BY DEF TimersInv, AllKept
      <3>2. s.mins \in Nat
        BY Numbers DEF Timer
      <3>3. AtLeastOne(s.mins) \in Nat
        BY <3>2, Small
      <3>4. Due(s.id)' = Due(s.id)
        BY DEF Due
      <3>5. Due(s.id)' = clock'.ticks[k] + (AtLeastOne(s.mins) - 1)
        <4>1. Due(s.id) = clock.ticks[k] + AtLeastOne(s.mins)
          BY <3>1 DEF Kept
        <4>2. \A c, n \in Nat : c + n = (c + 1) + (n - 1)
          OBVIOUS
        <4>3. clock.ticks[k] + AtLeastOne(s.mins) = (clock.ticks[k] + 1) + (AtLeastOne(s.mins) - 1)
          BY <3>3, <4>2, <1>5
        <4> QED  BY <3>4, <4>1, <4>3, <1>5
      <3> QED  BY <3>1, <3>5 DEF Kept, On
    <2> QED  BY <1>3, <2>1, <2>2 DEF AllKept
  <1>10. AllThere'
    <2> SUFFICES ASSUME NEW j \in Kinds, NEW id \in 1..Len(wanted), On(j, id)
                 PROVE  id \in Ids(lists'[j]) \/ (k = j /\ id \in Ids(lists[k]))
      BY <1>3 DEF AllThere, On
    <2>1. id \in Ids(lists[j])
      BY NoList DEF TimersInv, AllThere
    <2> QED  BY <2>1, <1>4
  <1>11. Done'
    BY DEF TimersInv, Done
  <1> QED  BY <1>3, <1>6, <1>8, <1>9, <1>10, <1>11

LEMMA DivFacts ==
  ASSUME NEW a \in Nat
  PROVE  a \div PerMinute \in Nat
  BY TimersAssumption

LEMMA DivGrows ==
  ASSUME NEW a \in Nat, NEW b \in Nat
  PROVE  a \div PerMinute <= (a + b) \div PerMinute
  <1>1. PerMinute \in Nat /\ PerMinute > 0
    BY TimersAssumption
  <1>2. PICK q \in Nat : q = a \div PerMinute
    BY DivFacts
  <1>3. PICK p \in Nat : p = (a + b) \div PerMinute
    BY DivFacts
  <1>4. PerMinute * q <= a
    BY <1>1, <1>2
  <1>5. a + b < PerMinute * (p + 1)
    BY <1>1, <1>3
  <1>6. PerMinute * q < PerMinute * (p + 1)
    BY <1>1, <1>4, <1>5
  <1>7. q < p + 1
    BY <1>1, <1>6
  <1> QED  BY <1>2, <1>3, <1>7

LEMMA CoreSecondlyKeeps ==
  ASSUME TimersInv, NEW n \in Leaps, CoreSecondly(n)
  PROVE  TimersInv'
  <1>1. run.mark = <<>> /\ ~InScript /\ clock.lastmin = Minute /\ run.kind = "none"
    BY DEF CoreSecondly, TimersInv, Going
  <1>2. clock \in [now : Nat, lastmin : Nat, ticks : [Kinds -> Nat]] /\ n \in Nat
    BY TimersAssumption DEF TimersInv, Typed
  <1>3. PICK c : c = clock.now + n
    OBVIOUS
  <1>4. PICK x : x = [clock.ticks EXCEPT !["utimer"] = @ + 1]
    OBVIOUS
  <1>5. clock' = [clock EXCEPT !.now = c, !.ticks = x]
    BY <1>2, <1>3, <1>4 DEF CoreSecondly
  <1>6. c \in Nat /\ x \in [Kinds -> Nat] /\ x["timer"] = clock.ticks["timer"]
    BY <1>2, <1>3, <1>4 DEF Kinds
  <1>7. /\ clock' \in [now : Nat, lastmin : Nat, ticks : [Kinds -> Nat]]
        /\ clock'.now = c /\ clock'.lastmin = clock.lastmin /\ clock'.ticks = x
    BY <1>2, <1>5, <1>6
  <1>8. Typed' /\ Separate' /\ AllKept' /\ AllThere' /\ Done' /\ run'.kind = "utimer"
    BY <1>1, <1>4, <1>7, BegunKeeps DEF CoreSecondly, Kinds
  <1>9. Going'
    <2>1. clock.now \div PerMinute <= c \div PerMinute
      BY <1>2, <1>3, DivGrows
    <2>2. clock.lastmin <= c \div PerMinute /\ clock.ticks["timer"] = clock.lastmin
      BY <1>1, <2>1 DEF TimersInv, Going, Minute
    <2> QED  BY <1>6, <1>7, <1>8, <2>2 DEF Going, Minute
  <1> QED  BY <1>8, <1>9 DEF TimersInv

LEMMA CoreMinutelyKeeps ==
  ASSUME TimersInv, CoreMinutely
  PROVE  TimersInv'
  <1>1. run.mark = <<>> /\ ~InScript /\ clock.lastmin < Minute /\ clock.ticks["timer"] = clock.lastmin
    BY DEF CoreMinutely, AtEnd, TimersInv, Going
  <1>2. clock \in [now : Nat, lastmin : Nat, ticks : [Kinds -> Nat]]
    BY DEF TimersInv, Typed
  <1>3. PICK m : m = clock.lastmin + 1
    OBVIOUS
  <1>4. PICK x : x = [clock.ticks EXCEPT !["timer"] = @ + 1]
    OBVIOUS
  <1>5. clock' = [clock EXCEPT !.lastmin = m, !.ticks = x]
    BY <1>2, <1>3, <1>4 DEF CoreMinutely
  <1>6. m \in Nat /\ x \in [Kinds -> Nat] /\ x["timer"] = m
    BY <1>1, <1>2, <1>3, <1>4 DEF Kinds
  <1>7. /\ clock' \in [now : Nat, lastmin : Nat, ticks : [Kinds -> Nat]]
        /\ clock'.now = clock.now /\ clock'.lastmin = m /\ clock'.ticks = x
    BY <1>2, <1>5, <1>6
  <1>8. Typed' /\ Separate' /\ AllKept' /\ AllThere' /\ Done' /\ run'.kind = "timer"
    BY <1>1, <1>4, <1>7, BegunKeeps DEF CoreMinutely, Kinds
  <1>9. Going'
    <2>1. clock.now \div PerMinute \in Nat
      BY <1>2, DivFacts
    <2>2. m <= clock.now \div PerMinute
      BY <1>1, <1>2, <1>3, <2>1 DEF Minute
    <2> QED  BY <1>6, <1>7, <1>8, <2>2 DEF Going, Minute
  <1> QED  BY <1>8, <1>9 DEF TimersInv

LEMMA AllDoneKeeps ==
  ASSUME TimersInv, AllDone
  PROVE  TimersInv'
  <1>1. /\ run.mark = <<>> /\ ~InScript /\ Minute <= clock.lastmin
        /\ run' = [run EXCEPT !.kind = "none"] /\ UNCHANGED <<lists, clock, wanted>>
    BY DEF AllDone, AtEnd
  <1>2. run \in [kind : Kinds \cup {"none"}, mark : Seq(Timer), old : Timer]
    BY DEF TimersInv, Typed
  <1>3. run'.kind = "none" /\ run'.mark = <<>> /\ run'.old = run.old /\ ~InScript'
    BY <1>1, <1>2 DEF InScript
  <1>4. Typed'
    BY <1>1, <1>2 DEF TimersInv, Typed
  <1>5. Separate' /\ Done'
    BY <1>1, <1>3, NoList DEF TimersInv, Separate, Done
  <1>6. AllKept'
    <2>1. \A k \in Kinds : \A s \in Els(lists'[k]) : Kept(k, s, AtLeastOne(s.mins), 0)'
      BY <1>1 DEF TimersInv, AllKept, Kept, On, Due
    <2> QED  BY <1>3, <2>1, NoList DEF AllKept
  <1>7. AllThere'
    <2> SUFFICES ASSUME NEW j \in Kinds, NEW id \in 1..Len(wanted), On(j, id) PROVE id \in Ids(lists[j])
      BY <1>1 DEF AllThere, On
    <2> QED  BY <1>1, NoList DEF TimersInv, AllThere
  <1>8. Going'
    <2>1. clock.now \div PerMinute \in Nat /\ clock.lastmin \in Nat
      BY DivFacts DEF TimersInv, Typed
    <2>2. clock.lastmin = clock.now \div PerMinute
      BY <1>1, <2>1 DEF TimersInv, Going, Minute
    <2> QED  BY <1>1, <1>3, <2>2 DEF TimersInv, Going, Minute
  <1> QED  BY <1>4, <1>5, <1>6, <1>7, <1>8 DEF TimersInv

LEMMA TimersKeep == TimersInv /\ [NextTimers]_timerVars => TimersInv'
  <1> SUFFICES ASSUME TimersInv, [NextTimers]_timerVars PROVE TimersInv'
    OBVIOUS
  <1>1. CASE UNCHANGED timerVars
    BY <1>1, Same
  <1>2. ASSUME NEW k \in Kinds, NEW elapse \in Times, NEW count \in Counts, TclTimer(k, elapse, count) PROVE TimersInv'
    BY <1>2, TclTimerKeeps
  <1>3. ASSUME NEW k \in Kinds, NEW id \in 1..Len(wanted), TclKilltimer(k, id) PROVE TimersInv'
    BY <1>3, TclKilltimerKeeps
  <1>4. CASE WipeTimers
    BY <1>4, WipeTimersKeeps
  <1>5. CASE GoesBack
    BY <1>5, GoesBackKeeps
  <1>6. CASE Fires
    BY <1>6, FiresKeeps
  <1>7. CASE HasRun
    <2>1. InScript
      BY <1>7 DEF HasRun
    <2> QED  BY <1>7, <2>1, DoneKeeps, AgainKeeps
  <1>8. CASE CoreMinutely
    BY <1>8, CoreMinutelyKeeps
  <1>9. CASE AllDone
    BY <1>9, AllDoneKeeps
  <1>10. ASSUME NEW n \in Leaps, CoreSecondly(n) PROVE TimersInv'
    BY <1>10, CoreSecondlyKeeps
  <1> QED  BY <1>1, <1>2, <1>3, <1>4, <1>5, <1>6, <1>7, <1>8, <1>9, <1>10 DEF NextTimers

-----------------------------------------------------------------------------
(* What follows.                                                            *)

LEMMA Joining ==
  ASSUME NEW a \in Seq(Timer), NEW b \in Seq(Timer), Once(a), Once(b), Ids(a) \cap Ids(b) = {}
  PROVE  a \o b \in Seq(Timer) /\ Once(a \o b) /\ Ids(a \o b) = Ids(a) \cup Ids(b)
  <1>1. PICK r : r = a \o b
    OBVIOUS
  <1>2. r \in Seq(Timer) /\ Len(r) = Len(a) + Len(b) /\ Len(a) \in Nat /\ Len(b) \in Nat
        /\ \A i \in 1..(Len(a) + Len(b)) : r[i] = IF i <= Len(a) THEN a[i] ELSE b[i - Len(a)]
    BY <1>1, ConcatProperties
  <1>3. \A i \in 1..Len(r) : IF i <= Len(a) THEN i \in 1..Len(a) /\ r[i] = a[i] /\ r[i].id \in Ids(a)
                              ELSE i - Len(a) \in 1..Len(b) /\ r[i] = b[i - Len(a)] /\ r[i].id \in Ids(b)
    BY <1>2, ListFacts
  <1>4. Once(r)
    <2> SUFFICES ASSUME NEW i \in 1..Len(r), NEW j \in 1..Len(r), r[i].id = r[j].id PROVE i = j
      BY DEF Once
    <2>1. CASE i <= Len(a) /\ j <= Len(a)
      BY <2>1, <1>3 DEF Once
    <2>2. CASE ~(i <= Len(a)) /\ ~(j <= Len(a))
      <3>1. i - Len(a) = j - Len(a)
        BY <2>2, <1>3 DEF Once
      <3> QED  BY <3>1, <1>2
    <2>3. CASE i <= Len(a) /\ ~(j <= Len(a))
      BY <2>3, <1>3
    <2>4. CASE ~(i <= Len(a)) /\ j <= Len(a)
      BY <2>4, <1>3
    <2> QED  BY <2>1, <2>2, <2>3, <2>4
  <1>5. Ids(r) \subseteq Ids(a) \cup Ids(b)
    <2>1. \A i \in 1..Len(r) : r[i].id \in Ids(a) \cup Ids(b)
      BY <1>3
    <2>2. Ids(r) = {r[i].id : i \in 1..Len(r)}
      BY DEF Ids, Els
    <2> QED  BY <2>1, <2>2
  <1>6. Ids(a) \subseteq Ids(r)
    <2> SUFFICES ASSUME NEW i \in 1..Len(a) PROVE a[i].id \in Ids(r)
      BY DEF Ids, Els
    <2>1. i \in 1..Len(r) /\ r[i] = a[i]
      BY <1>2
    <2> QED  BY <2>1 DEF Ids, Els
  <1>7. Ids(b) \subseteq Ids(r)
    <2> SUFFICES ASSUME NEW i \in 1..Len(b) PROVE b[i].id \in Ids(r)
      BY DEF Ids, Els
    <2>1. i + Len(a) \in 1..Len(r) /\ ~(i + Len(a) <= Len(a)) /\ (i + Len(a)) - Len(a) = i
      BY <1>2
    <2>2. r[i + Len(a)] = b[i]
      BY <2>1, <1>2
    <2> QED  BY <2>1, <2>2 DEF Ids, Els
  <1> QED  BY <1>1, <1>2, <1>4, <1>5, <1>6, <1>7

LEMMA OnesList ==
  ASSUME NEW t \in Timer
  PROVE  <<t>> \in Seq(Timer) /\ Once(<<t>>) /\ Ids(<<t>>) = {t.id}
  <1>1. <<t>> \in Seq(Timer) /\ Len(<<t>>) = 1 /\ <<t>>[1] = t
    OBVIOUS
  <1> QED  BY <1>1 DEF Once, Ids, Els

\* All of a kind, wherever they are.
LEMMA AllOfFacts ==
  ASSUME TimersInv, NEW k \in Kinds
  PROVE  /\ AllOf(k) \in Seq(Timer) /\ Once(AllOf(k))
         /\ Ids(AllOf(k)) = {id \in DOMAIN wanted : wanted[id].kind = k /\ wanted[id].state = "on"}
  <1>1. PICK m : m = IF run.kind = k THEN Old \o run.mark ELSE <<>>
    OBVIOUS
  <1>2. m \in Seq(Timer) /\ Once(m) /\ Ids(lists[k]) \cap Ids(m) = {}
        /\ \A id : id \in Ids(m) <=> run.kind = k /\ (id \in Ids(run.mark) \/ (InScript /\ id = run.old.id))
    <2>1. CASE run.kind # k
      BY <1>1, <2>1, NoList
    <2>2. CASE run.kind = k /\ ~InScript
      <3>1. m = run.mark
        BY <1>1, <2>2 DEF Old, TimersInv, Typed
      <3> QED  BY <2>2, <3>1 DEF TimersInv, Typed, Separate
    <2>3. CASE run.kind = k /\ InScript
      <3>1. m = <<run.old>> \o run.mark /\ run.old \in Timer /\ run.mark \in Seq(Timer)
        BY <1>1, <2>3 DEF Old, TimersInv, Typed
      <3>2. Once(run.mark) /\ run.old.id \notin Ids(run.mark)
        BY <2>3 DEF TimersInv, Separate
      <3>3. m \in Seq(Timer) /\ Once(m) /\ Ids(m) = {run.old.id} \cup Ids(run.mark)
        BY <3>1, <3>2, Putting
      <3> QED  BY <2>3, <3>3 DEF TimersInv, Separate
    <2> QED  BY <2>1, <2>2, <2>3
  <1>3. lists[k] \in Seq(Timer) /\ Once(lists[k])
    BY DEF TimersInv, Typed, Separate
  <1>4. AllOf(k) = lists[k] \o m
    BY <1>1 DEF AllOf
  <1>5. AllOf(k) \in Seq(Timer) /\ Once(AllOf(k)) /\ Ids(AllOf(k)) = Ids(lists[k]) \cup Ids(m)
    BY <1>2, <1>3, <1>4, Joining
  <1>6. \A id : id \in Ids(lists[k]) \cup Ids(m) <=> On(k, id)
    <2>1. \A id : id \in Ids(lists[k]) \cup Ids(m) => On(k, id)
      BY <1>2, Numbers
    <2>2. \A id : On(k, id) => id \in Ids(lists[k]) \cup Ids(m)
      BY <1>2 DEF TimersInv, AllThere, On
    <2> QED  BY <2>1, <2>2
  <1>7. DOMAIN wanted = 1..Len(wanted)
    BY DEF TimersInv, Typed
  <1> QED  BY <1>5, <1>6, <1>7 DEF On

LEMMA Follows == TimersInv => TimersKept
  <1> SUFFICES ASSUME TimersInv PROVE TimersKept
    OBVIOUS
  <1>1. NoneLost
    <2> SUFFICES ASSUME NEW k \in Kinds
                 PROVE  /\ IsInjective([i \in 1..Len(AllOf(k)) |-> AllOf(k)[i].id])
                        /\ {AllOf(k)[i].id : i \in 1..Len(AllOf(k))}
                             = {id \in DOMAIN wanted : wanted[id].kind = k /\ wanted[id].state = "on"}
      BY DEF NoneLost
    <2>1. {AllOf(k)[i].id : i \in 1..Len(AllOf(k))} = Ids(AllOf(k))
      BY DEF Ids, Els
    <2>2. IsInjective([i \in 1..Len(AllOf(k)) |-> AllOf(k)[i].id])
      BY AllOfFacts DEF Once, IsInjective
    <2> QED  BY <2>1, <2>2, AllOfFacts
  <1>2. OnTime
    <2>1. InScript => Due(run.old.id) = clock.ticks[run.kind]
      <3> SUFFICES ASSUME InScript PROVE Due(run.old.id) = clock.ticks[run.kind]
        OBVIOUS
      <3>1. Due(run.old.id) = clock.ticks[run.kind] + 0 /\ run.kind \in Kinds
        BY OldFacts DEF Kept
      <3>2. clock.ticks[run.kind] \in Nat
        BY <3>1 DEF TimersInv, Typed
      <3> QED  BY <3>1, <3>2
    <2>2. \A k \in Kinds : \A i \in 1..Len(lists[k]) : Due(lists[k][i].id) = clock.ticks[k] + AtLeastOne(lists[k][i].mins)
      BY Numbers, ListFacts DEF TimersInv, AllKept, Kept
    <2> QED  BY <2>1, <2>2 DEF OnTime
  <1>3. CountKept
    BY DEF CountKept, TimersInv, Done, Typed
  <1>4. MinutesKept
    BY DEF MinutesKept, TimersInv, Going
  <1> QED  BY <1>1, <1>2, <1>3, <1>4 DEF TimersKept

\* A timer is kept, once, until it has run as often as was asked for or is killed; it runs when it
\* is due, and the minutes are all made up for (do_check_timers, core_minutely): for any number of
\* timers, any times and counts, and whatever scripts do while the lists are gone through.
THEOREM TimersAreKept == SpecTimers => []TimersKept
  <1>1. TimersInv /\ [NextTimers]_timerVars => TimersInv'
    BY TimersKeep
  <1> QED  BY InitKept, <1>1, Follows, PTL DEF SpecTimers

-----------------------------------------------------------------------------
(* Connections.                                                             *)

Line == [line : Seq(Nat), fake : BOOLEAN]
Entries ==
  [flags : SUBSET {"UNUSED", "BUFFER", "CONNECT", "STRONGCONN", "EOFD"},
   text : Seq(Nat), coming : Seq(Nat), inbuf : Seq(Int), got : Seq(Line), cut : BOOLEAN,
   outbuf : Seq(Int), put : Nat, taken : Seq(Nat), known : BOOLEAN]

\* s are the characters of the text behind the nth.
Piece(s, text, n) ==
  /\ s \in Seq(Nat) /\ n \in Nat /\ n + Len(s) <= Len(text)
  /\ \A k \in 1..Len(s) : s[k] = text[n + k]
IsText(text) == text \in Seq(Nat) /\ \A p \in 1..Len(text) : text[p] \in {EOL, p}
IsBuffer(buf) == buf = Null \/ (buf \in Seq(Nat) /\ buf # <<>>)

Flagged(e) ==
  /\ "UNUSED" \in e.flags => e.flags = {"UNUSED"} /\ e.inbuf = Null /\ e.outbuf = Null
  /\ "STRONGCONN" \in e.flags => "CONNECT" \in e.flags
  /\ "CONNECT" \in e.flags => e.got = <<>> /\ e.inbuf = Null /\ "BUFFER" \notin e.flags
\* What was given on ends at the nth character, and the buffer goes on from there.
Reads(e, n) ==
  /\ GivenOn(e.got, e.text, e.cut, n)
  /\ Piece(Held(e.inbuf), e.text, n)
  /\ Piece(e.coming, e.text, n + Len(Held(e.inbuf)))
  /\ n + Len(Held(e.inbuf)) + Len(e.coming) = Len(e.text)
\* LinesTrue, of a line l.
LineTrue(l, text, cut) ==
  /\ \A k \in 1..Len(l.line) - 1 : l.line[k + 1] = l.line[k] + 1
  /\ l.line # <<>> => IF l.fake THEN Len(l.line) >= Width
                     ELSE text[l.line[Len(l.line)] + 1] = EOL \/ (cut /\ Len(l.line) = Width)
Lines(e) == \A j \in 1..Len(e.got) : LineTrue(e.got[j], e.text, e.cut)
Writes(e) ==
  /\ Len(e.taken) + Len(Held(e.outbuf)) = e.put
  /\ \A j \in 1..Len(e.taken) : e.taken[j] = j
  /\ \A j \in 1..Len(Held(e.outbuf)) : Held(e.outbuf)[j] = Len(e.taken) + j

Sound(e) ==
  /\ e \in Entries /\ IsText(e.text) /\ IsBuffer(e.inbuf) /\ IsBuffer(e.outbuf)
  /\ Flagged(e) /\ Lines(e)
  /\ "UNUSED" \notin e.flags => (\E n \in Nat : Reads(e, n)) /\ Writes(e)

\* The inductive invariant.
SocketsInv == socklist = [i \in Socks |-> socklist[i]] /\ \A i \in Socks : Sound(socklist[i])

-----------------------------------------------------------------------------
(* Numbers and sequences.                                                   *)

LEMMA Least ==
  ASSUME NEW S, S \subseteq Nat, S # {}
  PROVE  Min(S) \in S /\ \A x \in S : Min(S) <= x
  <1>1. PICK x \in S : \A y \in S : ~(<<y, x>> \in OpToRel(<, Nat))
    BY NatLessThanWellFounded, WFMin
  <1>2. \A y \in S : x <= y
    <2> SUFFICES ASSUME NEW y \in S PROVE x <= y
      OBVIOUS
    <2>1. ~(y < x)
      BY <1>1 DEF OpToRel
    <2> QED  BY <2>1
  <1>3. \E z \in S : \A y \in S : z <= y
    BY <1>2
  <1> QED  BY <1>3 DEF Min

LEMMA LessOf ==
  ASSUME NEW a \in Nat, NEW b \in Nat
  PROVE  /\ Min({a, b}) \in {a, b} /\ Min({a, b}) <= a /\ Min({a, b}) <= b
  <1>1. {a, b} \subseteq Nat /\ {a, b} # {}
    OBVIOUS
  <1>2. Min({a, b}) \in {a, b} /\ \A x \in {a, b} : Min({a, b}) <= x
    BY <1>1, Least
  <1> QED  BY <1>2

LEMMA NullFacts == Held(Null) = <<>> /\ Null \in Seq(Int) /\ Null \notin Seq(Nat) /\ <<>> \in Seq(Nat) /\ Len(<<>>) = 0
  <1>1. Null[1] = -1 /\ Len(Null) = 1
    BY DEF Null
  <1>2. ASSUME NEW s \in Seq(Nat), Len(s) = 1 PROVE s[1] \in Nat
    <2>1. 1 \in 1..Len(s)
      BY <1>2
    <2> QED  BY <2>1, ElementOfSeq
  <1> QED  BY <1>1, <1>2 DEF Held, Null

LEMMA HeldFacts ==
  ASSUME NEW buf, IsBuffer(buf)
  PROVE  /\ Held(buf) \in Seq(Nat) /\ Len(Held(buf)) \in Nat /\ buf # <<>>
         /\ buf # Null => Held(buf) = buf /\ Held(buf) # <<>> /\ Len(buf) > 0
         /\ Held(buf) = <<>> => buf = Null
         /\ buf \in Seq(Int)
  <1>1. CASE buf = Null
    <2>1. Null # <<>>
      BY DEF Null
    <2> QED  BY <1>1, <2>1, NullFacts
  <1>2. CASE buf # Null
    <2>1. buf \in Seq(Nat) /\ buf # <<>>
      BY <1>2 DEF IsBuffer
    <2>2. buf \in Seq(Int)
      BY <2>1
    <2> QED  BY <1>2, <2>1 DEF Held
  <1> QED  BY <1>1, <1>2

LEMMA OrNullFacts ==
  ASSUME NEW s \in Seq(Nat)
  PROVE  IsBuffer(OrNull(s)) /\ Held(OrNull(s)) = s /\ OrNull(s) \in Seq(Int)
  <1>1. IsBuffer(OrNull(s))
    BY DEF IsBuffer, OrNull
  <1>2. Held(OrNull(s)) = s
    BY NullFacts DEF Held, OrNull
  <1> QED  BY <1>1, <1>2, HeldFacts

-----------------------------------------------------------------------------
(* Where in the text an entry is.                                           *)

\* What follows after the ends that stand at p: q is the last of them.
LEMMA Following ==
  ASSUME NEW s \in Seq(Nat), NEW p \in 1..Len(s), s[p] = EOL
  PROVE  \E q \in p..Len(s) :
           /\ AfterEnds(s, p) \in Seq(Nat) /\ Len(AfterEnds(s, p)) = Len(s) - q
           /\ \A k \in 1..Len(s) - q : AfterEnds(s, p)[k] = s[q + k]
           /\ \A k \in p..q : s[k] = EOL
  <1> DEFINE next == {i \in p..Len(s) : s[i] # EOL}
  <1>1. CASE next = {}
    <2>1. AfterEnds(s, p) = <<>>
      BY <1>1 DEF AfterEnds
    <2>2. Len(s) \in p..Len(s) /\ Len(s) - Len(s) = 0
      OBVIOUS
    <2>3. \A k \in p..Len(s) : s[k] = EOL
      BY <1>1
    <2> QED  BY <2>1, <2>2, <2>3, NullFacts
  <1>2. CASE next # {}
    <2>1. next \subseteq Nat
      OBVIOUS
    <2>2. Min(next) \in next /\ \A x \in next : Min(next) <= x
      BY <1>2, <2>1, Least
    <2>3. AfterEnds(s, p) = SubSeq(s, Min(next), Len(s))
      BY <1>2 DEF AfterEnds
    <2> DEFINE q == Min(next) - 1
    <2>4. Min(next) \in p..Len(s) /\ Min(next) # p
      BY <2>2
    <2>5. q \in p..Len(s) /\ q + 1 = Min(next) /\ q + 1 \in 1..Len(s)
      BY <2>4
    <2>6. ASSUME NEW k \in p..q PROVE s[k] = EOL
      <3>1. k < Min(next) /\ k \in p..Len(s)
        BY <2>5
      <3> QED  BY <3>1, <2>2
    <2> HIDE DEF next, q
    <2>7. \A i \in q + 1..Len(s) : s[i] \in Nat
      BY <2>5, ElementOfSeq
    <2>8. /\ SubSeq(s, q + 1, Len(s)) \in Seq(Nat)
          /\ Len(SubSeq(s, q + 1, Len(s))) = Len(s) - q
          /\ \A k \in 1..Len(s) - q : SubSeq(s, q + 1, Len(s))[k] = s[q + k]
      <3>1. q + 1 \in Int /\ Len(s) \in Int /\ q + 1 <= Len(s)
        BY <2>5
      <3>2. /\ SubSeq(s, q + 1, Len(s)) \in Seq(Nat)
            /\ Len(SubSeq(s, q + 1, Len(s))) = IF q + 1 <= Len(s) THEN Len(s) - (q + 1) + 1 ELSE 0
            /\ \A i \in 1..Len(s) - (q + 1) + 1 : SubSeq(s, q + 1, Len(s))[i] = s[q + 1 + i - 1]
        BY <3>1, <2>7, SubSeqProperties
      <3>3. Len(s) - (q + 1) + 1 = Len(s) - q /\ \A i \in 1..Len(s) - q : q + 1 + i - 1 = q + i
        BY <3>1, <2>5
      <3> QED  BY <3>1, <3>2, <3>3
    <2> QED  BY <2>3, <2>5, <2>6, <2>8
  <1> QED  BY <1>1, <1>2

\* The first k of a sequence and the others.
LEMMA Cutting ==
  ASSUME NEW s \in Seq(Nat), NEW k \in 0..Len(s)
  PROVE  /\ SubSeq(s, 1, k) \in Seq(Nat) /\ Len(SubSeq(s, 1, k)) = k
         /\ \A i \in 1..k : SubSeq(s, 1, k)[i] = s[i]
         /\ SubSeq(s, k + 1, Len(s)) \in Seq(Nat) /\ Len(SubSeq(s, k + 1, Len(s))) = Len(s) - k
         /\ \A i \in 1..Len(s) - k : SubSeq(s, k + 1, Len(s))[i] = s[k + i]
  <1>1. \A i \in 1..Len(s) : s[i] \in Nat
    BY ElementOfSeq
  <1>2. k \in Nat /\ Len(s) \in Nat /\ k <= Len(s)
    OBVIOUS
  <1>3. /\ SubSeq(s, 1, k) \in Seq(Nat)
        /\ Len(SubSeq(s, 1, k)) = IF 1 <= k THEN k - 1 + 1 ELSE 0
        /\ \A i \in 1..k - 1 + 1 : SubSeq(s, 1, k)[i] = s[1 + i - 1]
    BY <1>1, <1>2, SubSeqProperties
  <1>4. /\ SubSeq(s, k + 1, Len(s)) \in Seq(Nat)
        /\ Len(SubSeq(s, k + 1, Len(s))) = IF k + 1 <= Len(s) THEN Len(s) - (k + 1) + 1 ELSE 0
        /\ \A i \in 1..Len(s) - (k + 1) + 1 : SubSeq(s, k + 1, Len(s))[i] = s[k + 1 + i - 1]
    BY <1>1, <1>2, SubSeqProperties
  <1>5. /\ k - 1 + 1 = k /\ Len(s) - (k + 1) + 1 = Len(s) - k
        /\ \A i \in Nat : 1 + i - 1 = i /\ k + 1 + i - 1 = k + i
    BY <1>2
  <1>6. \A i \in 1..k : SubSeq(s, 1, k)[i] = s[i]
    BY <1>3, <1>5
  <1>7. \A i \in 1..Len(s) - k : SubSeq(s, k + 1, Len(s))[i] = s[k + i]
    <2> SUFFICES ASSUME NEW i \in 1..Len(s) - k PROVE SubSeq(s, k + 1, Len(s))[i] = s[k + i]
      OBVIOUS
    <2>1. i \in Nat /\ i \in 1..Len(s) - (k + 1) + 1
      BY <1>5
    <2>2. SubSeq(s, k + 1, Len(s))[i] = s[k + 1 + i - 1]
      BY <1>4, <2>1
    <2> QED  BY <1>5, <2>1, <2>2
  <1>8. Len(SubSeq(s, 1, k)) = k /\ Len(SubSeq(s, k + 1, Len(s))) = Len(s) - k
    BY <1>2, <1>3, <1>4
  <1> QED  BY <1>3, <1>4, <1>6, <1>7, <1>8

LEMMA CutPiece ==
  ASSUME NEW s, NEW text, NEW n, IsText(text), Piece(s, text, n), NEW k \in 0..Len(s)
  PROVE  Piece(SubSeq(s, 1, k), text, n) /\ Piece(SubSeq(s, k + 1, Len(s)), text, n + k)
  <1>1. s \in Seq(Nat) /\ n \in Nat /\ Len(text) \in Nat /\ Len(s) \in Nat /\ n + Len(s) <= Len(text)
    BY DEF Piece, IsText
  <1>2. \A i \in 1..Len(s) : s[i] = text[n + i]
    BY DEF Piece
  <1>3. /\ SubSeq(s, 1, k) \in Seq(Nat) /\ Len(SubSeq(s, 1, k)) = k
        /\ \A i \in 1..k : SubSeq(s, 1, k)[i] = s[i]
        /\ SubSeq(s, k + 1, Len(s)) \in Seq(Nat) /\ Len(SubSeq(s, k + 1, Len(s))) = Len(s) - k
        /\ \A i \in 1..Len(s) - k : SubSeq(s, k + 1, Len(s))[i] = s[k + i]
    BY <1>1, Cutting
  <1>4. Piece(SubSeq(s, 1, k), text, n)
    BY <1>1, <1>2, <1>3 DEF Piece
  <1>5. ASSUME NEW i \in 1..Len(s) - k PROVE SubSeq(s, k + 1, Len(s))[i] = text[n + k + i]
    <2>1. k + i \in 1..Len(s) /\ n + (k + i) = n + k + i
      BY <1>1
    <2> QED  BY <2>1, <1>2, <1>3
  <1>6. n + k \in Nat /\ n + k + (Len(s) - k) <= Len(text)
    BY <1>1
  <1> QED  BY <1>3, <1>4, <1>5, <1>6 DEF Piece

LEMMA JoinPieces ==
  ASSUME NEW s, NEW r, NEW text, NEW n, IsText(text), Piece(s, text, n), Piece(r, text, n + Len(s))
  PROVE  Piece(s \o r, text, n) /\ Len(s \o r) = Len(s) + Len(r)
  <1>1. /\ s \in Seq(Nat) /\ r \in Seq(Nat) /\ n \in Nat /\ Len(text) \in Nat /\ Len(s) \in Nat /\ Len(r) \in Nat
        /\ n + Len(s) + Len(r) <= Len(text)
    BY DEF Piece, IsText
  <1>2. /\ s \o r \in Seq(Nat) /\ Len(s \o r) = Len(s) + Len(r)
        /\ \A i \in 1..Len(s) + Len(r) : (s \o r)[i] = IF i <= Len(s) THEN s[i] ELSE r[i - Len(s)]
    BY <1>1, ConcatProperties
  <1>3. ASSUME NEW i \in 1..Len(s) + Len(r) PROVE (s \o r)[i] = text[n + i]
    <2>1. CASE i <= Len(s)
      <3>1. i \in 1..Len(s)
        BY <2>1, <1>1
      <3> QED  BY <3>1, <2>1, <1>2 DEF Piece
    <2>2. CASE ~(i <= Len(s))
      <3>1. i - Len(s) \in 1..Len(r) /\ n + Len(s) + (i - Len(s)) = n + i
        BY <2>2, <1>1
      <3> QED  BY <3>1, <2>2, <1>2 DEF Piece
    <2> QED  BY <2>1, <2>2
  <1>4. n + (Len(s) + Len(r)) <= Len(text)
    BY <1>1
  <1> QED  BY <1>1, <1>2, <1>3, <1>4 DEF Piece

LEMMA FirstEnd ==
  ASSUME NEW s \in Seq(Nat)
  PROVE  /\ HasLine(s) => /\ LineEnd(s) \in 1..Len(s) /\ s[LineEnd(s)] = EOL
                          /\ \A i \in 1..LineEnd(s) - 1 : s[i] # EOL
         /\ ~HasLine(s) => \A i \in 1..Len(s) : s[i] # EOL
  <1>1. DOMAIN s = 1..Len(s)
    BY LenProperties
  <1>2. HasLine(s) <=> \E i \in 1..Len(s) : s[i] = EOL
    BY <1>1 DEF HasLine, Range
  <1>3. ASSUME HasLine(s)
        PROVE  /\ LineEnd(s) \in 1..Len(s) /\ s[LineEnd(s)] = EOL
               /\ \A i \in 1..LineEnd(s) - 1 : s[i] # EOL
    <2> DEFINE ends == {i \in 1..Len(s) : s[i] = EOL}
    <2>1. ends \subseteq Nat /\ ends # {}
      BY <1>2, <1>3
    <2>2. Min(ends) \in ends /\ \A x \in ends : Min(ends) <= x
      BY <2>1, Least
    <2>3. LineEnd(s) = Min(ends)
      BY DEF LineEnd
    <2>4. ASSUME NEW i \in 1..LineEnd(s) - 1 PROVE s[i] # EOL
      <3>1. i \in 1..Len(s) /\ ~(LineEnd(s) <= i)
        BY <2>2, <2>3
      <3> QED  BY <3>1, <2>2, <2>3
    <2> QED  BY <2>2, <2>3, <2>4
  <1> QED  BY <1>2, <1>3

-----------------------------------------------------------------------------
(* A line is given on.                                                      *)

\* The line l is of the characters behind the nth, and up to the mth, unless a part is thrown away,
\* only ends of lines follow.
IsNext(l, text, n, m, cut) ==
  /\ l \in Line /\ n \in Nat /\ m \in Nat /\ n + Len(l.line) <= m /\ m <= Len(text)
  /\ \A k \in 1..Len(l.line) : l.line[k] = n + k /\ text[n + k] = n + k
  /\ ~cut => \A p \in n + Len(l.line) + 1..m : text[p] = EOL

LEMMA GivesOn ==
  ASSUME NEW e, NEW d, NEW l, NEW n, NEW m, e.got \in Seq(Line), GivenOn(e.got, e.text, e.cut, n), IsText(e.text),
         IsNext(l, e.text, n, m, d.cut), d.text = e.text, d.got = Append(e.got, l), e.cut => d.cut
  PROVE  GivenOn(d.got, d.text, d.cut, m)
  <1> DEFINE g == e.got
             h == d.got
             text == e.text
  <1>1. /\ h = Append(g, l) /\ g \in Seq(Line) /\ l \in Line /\ Len(g) \in Nat
        /\ Len(l.line) \in Nat /\ n \in Nat /\ m \in Nat /\ n + Len(l.line) <= m
    BY DEF IsNext, Line
  <1>2. h \in Seq(Line) /\ Len(h) = Len(g) + 1 /\ h[Len(g) + 1] = l /\ \A j \in 1..Len(g) : h[j] = g[j]
    BY <1>1, AppendProperties
  <1>3. \A j \in 1..Len(h) : j \in 1..Len(g) \/ j = Len(g) + 1
    BY <1>1, <1>2
  <1>4. \A j \in 1..Len(g) : \A k \in 1..Len(g[j].line) :
          g[j].line[k] \in 1..n /\ text[g[j].line[k]] = g[j].line[k]
    BY DEF GivenOn
  <1>5. \A k \in 1..Len(l.line) : l.line[k] = n + k /\ text[n + k] = n + k /\ n + k \in 1..m
    BY <1>1 DEF IsNext
  <1>6. \A i, j \in 1..Len(g) : i < j =>
          \A k \in 1..Len(g[i].line), x \in 1..Len(g[j].line) : g[i].line[k] < g[j].line[x]
    BY DEF GivenOn
  <1>7. ~d.cut => \A p \in 1..n : text[p] # EOL => \E j \in 1..Len(g) : p \in Range(g[j].line)
    <2>1. ~d.cut => ~e.cut
      OBVIOUS
    <2> QED  BY <2>1 DEF GivenOn
  <1>8. ~d.cut => \A p \in n + Len(l.line) + 1..m : text[p] = EOL
    BY DEF IsNext
  <1>9. DOMAIN l.line = 1..Len(l.line)
    BY <1>1 DEF Line
  <1> HIDE DEF g, h, text
  <1>10. \A j \in 1..Len(h) : \A k \in 1..Len(h[j].line) : h[j].line[k] \in 1..m /\ text[h[j].line[k]] = h[j].line[k]
    <2> SUFFICES ASSUME NEW j \in 1..Len(h), NEW k \in 1..Len(h[j].line)
                 PROVE  h[j].line[k] \in 1..m /\ text[h[j].line[k]] = h[j].line[k]
      OBVIOUS
    <2>1. CASE j \in 1..Len(g)
      <3>1. h[j] = g[j] /\ g[j].line[k] \in 1..n /\ text[g[j].line[k]] = g[j].line[k]
        BY <2>1, <1>2, <1>4
      <3> QED  BY <3>1, <1>1
    <2>2. CASE j = Len(g) + 1
      <3>1. h[j] = l /\ l.line[k] = n + k /\ text[n + k] = n + k /\ n + k \in 1..m
        BY <2>2, <1>2, <1>5
      <3> QED  BY <3>1
    <2> QED  BY <2>1, <2>2, <1>3
  <1>11. \A i, j \in 1..Len(h) : i < j =>
           \A k \in 1..Len(h[i].line), x \in 1..Len(h[j].line) : h[i].line[k] < h[j].line[x]
    <2> SUFFICES ASSUME NEW i \in 1..Len(h), NEW j \in 1..Len(h), i < j,
                        NEW k \in 1..Len(h[i].line), NEW x \in 1..Len(h[j].line)
                 PROVE  h[i].line[k] < h[j].line[x]
      OBVIOUS
    <2>1. i \in 1..Len(g) /\ h[i] = g[i]
      BY <1>1, <1>2
    <2>2. CASE j \in 1..Len(g)
      BY <2>1, <2>2, <1>2, <1>6
    <2>3. CASE j = Len(g) + 1
      <3>1. h[j] = l
        BY <2>3, <1>2
      <3>2. x \in 1..Len(l.line) /\ h[j].line[x] = l.line[x]
        BY <3>1
      <3>4. h[j].line[x] = n + x /\ x \in Nat /\ x > 0
        BY <3>2, <1>1, <1>5
      <3>3. h[i].line[k] \in 1..n
        BY <2>1, <1>4
      <3>5. \A a \in 1..n : a < n + x
        BY <3>4, <1>1
      <3> QED  BY <3>3, <3>4, <3>5
    <2> QED  BY <2>2, <2>3, <1>3
  <1>12. ASSUME ~d.cut, NEW p \in 1..m, text[p] # EOL PROVE \E j \in 1..Len(h) : p \in Range(h[j].line)
    <2>1. CASE p \in 1..n
      <3>1. PICK j \in 1..Len(g) : p \in Range(g[j].line)
        BY <1>7, <1>12, <2>1
      <3>2. j \in 1..Len(h) /\ h[j] = g[j]
        BY <1>1, <1>2
      <3> QED  BY <3>1, <3>2
    <2>2. CASE p \notin 1..n
      <3>1. p \notin n + Len(l.line) + 1..m
        BY <1>8, <1>12
      <3>2. p - n \in 1..Len(l.line)
        BY <3>1, <2>2, <1>1
      <3>3. l.line[p - n] = n + (p - n)
        BY <3>2, <1>5
      <3>4. n + (p - n) = p
        BY <1>1
      <3>5. p \in Range(l.line)
        BY <3>2, <3>3, <3>4, <1>9 DEF Range
      <3>6. Len(g) + 1 \in 1..Len(h)
        BY <1>1, <1>2
      <3> QED  BY <3>5, <3>6, <1>2
    <2> QED  BY <2>1, <2>2
  <1>13. GivenOn(h, text, d.cut, m)
    BY <1>10, <1>11, <1>12 DEF GivenOn
  <1>14. d.text = text /\ d.got = h
    BY DEF text, h
  <1> QED  BY <1>13, <1>14

LEMMA LinesOn ==
  ASSUME NEW e, NEW d, NEW l, e.got \in Seq(Line), l \in Line, Lines(e), LineTrue(l, e.text, d.cut),
         d.text = e.text, d.got = Append(e.got, l), e.cut => d.cut
  PROVE  Lines(d) /\ d.got \in Seq(Line)
  <1>1. Len(e.got) \in Nat
    OBVIOUS
  <1>2. /\ d.got \in Seq(Line) /\ Len(d.got) = Len(e.got) + 1 /\ d.got[Len(e.got) + 1] = l
        /\ \A j \in 1..Len(e.got) : d.got[j] = e.got[j]
    BY <1>1, AppendProperties
  <1>3. ASSUME NEW j \in 1..Len(d.got) PROVE LineTrue(d.got[j], d.text, d.cut)
    <2>1. CASE j \in 1..Len(e.got)
      <3>1. d.got[j] = e.got[j] /\ LineTrue(e.got[j], e.text, e.cut)
        BY <2>1, <1>2 DEF Lines
      <3> QED  BY <3>1 DEF LineTrue
    <2>2. CASE j = Len(e.got) + 1
      BY <2>2, <1>2
    <2> QED  BY <2>1, <2>2, <1>1, <1>2
  <1> QED  BY <1>2, <1>3 DEF Lines

-----------------------------------------------------------------------------
(* Entries.                                                                 *)

LEMMA Fields ==
  ASSUME NEW e \in Entries
  PROVE  /\ e.flags \subseteq {"UNUSED", "BUFFER", "CONNECT", "STRONGCONN", "EOFD"}
         /\ e.text \in Seq(Nat) /\ e.coming \in Seq(Nat) /\ e.inbuf \in Seq(Int) /\ e.got \in Seq(Line)
         /\ e.cut \in BOOLEAN /\ e.outbuf \in Seq(Int) /\ e.put \in Nat /\ e.taken \in Seq(Nat)
         /\ e.known \in BOOLEAN
  BY DEF Entries

\* What reading changes of an entry: what is to come, the buffer, the lines and whether one was cut.
LEMMA Reread ==
  ASSUME NEW e \in Entries, NEW coming \in Seq(Nat), NEW inbuf, IsBuffer(inbuf), NEW got \in Seq(Line),
         NEW cut \in BOOLEAN, NEW known \in BOOLEAN,
         NEW flags \in SUBSET {"UNUSED", "BUFFER", "CONNECT", "STRONGCONN", "EOFD"},
         NEW d, d = [e EXCEPT !.coming = coming, !.inbuf = inbuf, !.got = got, !.cut = cut, !.known = known, !.flags = flags]
  PROVE  /\ d \in Entries
         /\ d.coming = coming /\ d.inbuf = inbuf /\ d.got = got /\ d.cut = cut /\ d.flags = flags
         /\ d.text = e.text /\ d.outbuf = e.outbuf /\ d.put = e.put /\ d.taken = e.taken
  <1>1. inbuf \in Seq(Int)
    BY HeldFacts
  <1> QED  BY <1>1 DEF Entries

LEMMA KilledSound == ASSUME NEW e, Sound(e) PROVE Sound(Killed(e))
  <1> DEFINE d == Killed(e)
  <1>1. e \in Entries /\ Null \in Seq(Int)
    BY NullFacts DEF Sound
  <1>2. /\ d \in Entries /\ d.text = e.text /\ d.got = e.got /\ d.cut = e.cut
        /\ d.flags = {"UNUSED"} /\ d.inbuf = Null /\ d.outbuf = Null
    BY <1>1 DEF Killed, Entries
  <1> HIDE DEF d
  <1>3. IsText(d.text) /\ IsBuffer(d.inbuf) /\ IsBuffer(d.outbuf) /\ Lines(d)
    BY <1>2 DEF Sound, IsBuffer, Lines
  <1>4. Flagged(d)
    BY <1>2 DEF Flagged
  <1>5. "UNUSED" \in d.flags
    BY <1>2
  <1>6. Sound(d)
    BY <1>2, <1>3, <1>4, <1>5 DEF Sound
  <1> QED  BY <1>6 DEF d

\* Only the flags change, and what is known.
LEMMA FlagsSound ==
  ASSUME NEW e, Sound(e), "UNUSED" \notin e.flags, NEW d, d \in Entries, "UNUSED" \notin d.flags, Flagged(d),
         d.text = e.text, d.coming = e.coming, d.inbuf = e.inbuf, d.got = e.got, d.cut = e.cut,
         d.outbuf = e.outbuf, d.put = e.put, d.taken = e.taken
  PROVE  Sound(d)
  <1>1. /\ IsText(d.text) /\ IsBuffer(d.inbuf) /\ IsBuffer(d.outbuf)
    BY DEF Sound
  <1>2. Lines(d)
    BY DEF Sound, Lines
  <1>3. PICK n \in Nat : Reads(e, n)
    BY DEF Sound
  <1>4. Reads(d, n)
    BY <1>3 DEF Reads
  <1>5. Writes(d)
    BY DEF Sound, Writes
  <1> QED  BY <1>1, <1>2, <1>3, <1>4, <1>5 DEF Sound

LEMMA UnbufferSound ==
  ASSUME NEW e, Sound(e), "BUFFER" \in e.flags PROVE Sound([e EXCEPT !.flags = @ \ {"BUFFER"}])
  <1> DEFINE d == [e EXCEPT !.flags = @ \ {"BUFFER"}]
  <1>1. e \in Entries /\ Flagged(e)
    BY DEF Sound
  <1>2. "UNUSED" \notin e.flags
    BY <1>1 DEF Flagged
  <1>3. /\ d \in Entries /\ d.flags = e.flags \ {"BUFFER"} /\ d.text = e.text /\ d.coming = e.coming
        /\ d.inbuf = e.inbuf /\ d.got = e.got /\ d.cut = e.cut /\ d.outbuf = e.outbuf /\ d.put = e.put
        /\ d.taken = e.taken
    BY <1>1 DEF Entries
  <1> HIDE DEF d
  <1>4. Flagged(d)
    BY <1>1, <1>2, <1>3 DEF Flagged
  <1>5. "UNUSED" \notin d.flags
    BY <1>2, <1>3
  <1>6. Sound(d)
    BY <1>2, <1>3, <1>4, <1>5, FlagsSound
  <1> QED  BY <1>6 DEF d

LEMMA ConnectedSound ==
  ASSUME NEW e, Sound(e), "UNUSED" \notin e.flags, {"CONNECT", "STRONGCONN"} \cap e.flags = {"CONNECT"}
  PROVE  Sound([e EXCEPT !.flags = @ \ {"CONNECT"}, !.known = TRUE])
  <1> DEFINE d == [e EXCEPT !.flags = @ \ {"CONNECT"}, !.known = TRUE]
  <1>1. e \in Entries /\ Flagged(e) /\ "STRONGCONN" \notin e.flags
    BY DEF Sound
  <1>2. /\ d \in Entries /\ d.flags = e.flags \ {"CONNECT"} /\ d.text = e.text /\ d.coming = e.coming
        /\ d.inbuf = e.inbuf /\ d.got = e.got /\ d.cut = e.cut /\ d.outbuf = e.outbuf /\ d.put = e.put
        /\ d.taken = e.taken
    BY <1>1 DEF Entries
  <1> HIDE DEF d
  <1>3. Flagged(d) /\ "UNUSED" \notin d.flags
    BY <1>1, <1>2 DEF Flagged
  <1>4. Sound(d)
    BY <1>2, <1>3, FlagsSound
  <1> QED  BY <1>4 DEF d

LEMMA FailsSound ==
  ASSUME NEW e, Sound(e), "UNUSED" \notin e.flags
  PROVE  Sound([e EXCEPT !.flags = @ \cup {"EOFD"}])
  <1> DEFINE d == [e EXCEPT !.flags = @ \cup {"EOFD"}]
  <1>1. e \in Entries /\ Flagged(e)
    BY DEF Sound
  <1>2. /\ d \in Entries /\ d.flags = e.flags \cup {"EOFD"} /\ d.text = e.text /\ d.coming = e.coming
        /\ d.inbuf = e.inbuf /\ d.got = e.got /\ d.cut = e.cut /\ d.outbuf = e.outbuf /\ d.put = e.put
        /\ d.taken = e.taken
    BY <1>1 DEF Entries
  <1> HIDE DEF d
  <1>3. Flagged(d) /\ "UNUSED" \notin d.flags
    BY <1>1, <1>2 DEF Flagged
  <1>4. Sound(d)
    BY <1>2, <1>3, FlagsSound
  <1> QED  BY <1>4 DEF d

-----------------------------------------------------------------------------
(* Reading.                                                                 *)

\* l is the line that ends in s, or as much of it as is not thrown away.
LineOf(l, s, cut) ==
  /\ l \in Line /\ ~l.fake /\ Len(l.line) <= LineEnd(s) - 1
  /\ \A i \in 1..Len(l.line) : l.line[i] = s[i]
  /\ Len(l.line) = LineEnd(s) - 1 \/ (cut /\ Len(l.line) = Width)

\* After l is given on, s goes on behind the ends of lines that follow it.
GoesPast(l, s, text, n, cut) ==
  \E q \in 0..Len(s) :
    /\ IsNext(l, text, n, n + q, cut)
    /\ Piece(AfterEnds(s, LineEnd(s)), text, n + q)
    /\ Len(AfterEnds(s, LineEnd(s))) = Len(s) - q

LEMMA NextLine ==
  ASSUME NEW text, NEW n, NEW s, NEW l, NEW cut, IsText(text), Piece(s, text, n), HasLine(s), LineOf(l, s, cut)
  PROVE  LineTrue(l, text, cut) /\ GoesPast(l, s, text, n, cut)
  <1> DEFINE p == LineEnd(s)
             w == Len(l.line)
  <1>1. /\ s \in Seq(Nat) /\ n \in Nat /\ text \in Seq(Nat) /\ Len(s) \in Nat /\ Len(text) \in Nat
        /\ n + Len(s) <= Len(text)
    BY DEF Piece, IsText
  <1>2. p \in 1..Len(s) /\ s[p] = EOL /\ \A i \in 1..p - 1 : s[i] # EOL
    BY <1>1, FirstEnd
  <1>3. p \in Nat /\ p >= 1 /\ p <= Len(s)
    BY <1>1, <1>2
  <1>4. l \in Line /\ w \in Nat /\ w <= p - 1 /\ \A i \in 1..w : l.line[i] = s[i]
    BY DEF LineOf, Line
  <1>5. w = p - 1 \/ (cut /\ w = Width)
    BY DEF LineOf
  <1>6. ~l.fake
    BY DEF LineOf
  <1>7. \A i \in 1..Len(s) : s[i] = text[n + i]
    BY DEF Piece
  <1>8. PICK q \in p..Len(s) :
          /\ AfterEnds(s, p) \in Seq(Nat) /\ Len(AfterEnds(s, p)) = Len(s) - q
          /\ \A k \in 1..Len(s) - q : AfterEnds(s, p)[k] = s[q + k]
          /\ \A k \in p..q : s[k] = EOL
    BY <1>1, <1>2, Following
  <1> HIDE DEF p, w
  <1>9. q \in Nat /\ p <= q /\ q <= Len(s)
    BY <1>1, <1>3, <1>8
  <1>10. ASSUME NEW i \in 1..p - 1 PROVE s[i] = n + i /\ text[n + i] = n + i
    <2>1. i \in 1..Len(s) /\ n + i \in 1..Len(text)
      BY <1>1, <1>3
    <2>2. s[i] = text[n + i] /\ text[n + i] \in {EOL, n + i} /\ s[i] # EOL
      BY <2>1, <1>2, <1>7 DEF IsText
    <2> QED  BY <2>2
  <1>11. ASSUME NEW i \in 1..w PROVE l.line[i] = n + i /\ text[n + i] = n + i
    <2>1. i \in 1..p - 1
      BY <1>3, <1>4
    <2> QED  BY <2>1, <1>4, <1>10
  <1>12. q \in 0..Len(s) /\ n + q \in Nat /\ n + w <= n + q /\ n + q <= Len(text)
    BY <1>1, <1>3, <1>4, <1>9
  <1>13. ASSUME ~cut, NEW x \in n + w + 1..n + q PROVE text[x] = EOL
    <2>1. w = p - 1
      BY <1>5, <1>13
    <2>2. x - n \in p..q /\ x - n \in 1..Len(s) /\ n + (x - n) = x
      BY <2>1, <1>1, <1>3, <1>9
    <2>3. s[x - n] = EOL /\ s[x - n] = text[n + (x - n)]
      BY <2>2, <1>7, <1>8
    <2> QED  BY <2>2, <2>3
  <1>14. IsNext(l, text, n, n + q, cut)
    BY <1>1, <1>4, <1>11, <1>12, <1>13 DEF IsNext, w
  <1>15. Piece(AfterEnds(s, p), text, n + q)
    <2>1. ASSUME NEW k \in 1..Len(s) - q PROVE AfterEnds(s, p)[k] = text[n + q + k]
      <3>1. q + k \in 1..Len(s) /\ n + (q + k) = n + q + k
        BY <1>1, <1>9
      <3> QED  BY <3>1, <1>7, <1>8
    <2>2. n + q + (Len(s) - q) <= Len(text)
      BY <1>1, <1>9
    <2> QED  BY <2>1, <2>2, <1>8, <1>12 DEF Piece
  <1>16. ASSUME NEW k \in 1..w - 1 PROVE l.line[k + 1] = l.line[k] + 1
    <2>1. k \in 1..w /\ k + 1 \in 1..w /\ n + (k + 1) = n + k + 1
      BY <1>1, <1>4
    <2> QED  BY <2>1, <1>11
  <1>17. ASSUME l.line # <<>>, w = p - 1 PROVE text[l.line[w] + 1] = EOL
    <2>1. w # 0
      BY <1>4, <1>17, EmptySeq DEF w, Line
    <2>2. w \in 1..w /\ n + w + 1 = n + p
      BY <2>1, <1>1, <1>3, <1>4, <1>17
    <2>3. l.line[w] = n + w
      BY <2>2, <1>11
    <2>4. text[n + p] = EOL
      BY <1>2, <1>7
    <2> QED  BY <2>2, <2>3, <2>4
  <1>18. LineTrue(l, text, cut)
    BY <1>5, <1>6, <1>16, <1>17 DEF LineTrue, w
  <1> QED  BY <1>8, <1>12, <1>14, <1>15, <1>18 DEF p, GoesPast

\* What is too long, taken for a line.
LEMMA LongLine ==
  ASSUME NEW text, NEW n, NEW s, IsText(text), Piece(s, text, n), ~HasLine(s), Len(s) >= Width, NEW cut,
         NEW l \in Line, l.line = s, l.fake = TRUE
  PROVE  LineTrue(l, text, cut) /\ IsNext(l, text, n, n + Len(s), cut)
  <1>1. /\ s \in Seq(Nat) /\ n \in Nat /\ text \in Seq(Nat) /\ Len(s) \in Nat /\ Len(text) \in Nat
        /\ n + Len(s) <= Len(text)
    BY DEF Piece, IsText
  <1>2. l.line = s /\ l.fake = TRUE
    OBVIOUS
  <1>3. ASSUME NEW i \in 1..Len(s) PROVE s[i] = n + i /\ text[n + i] = n + i
    <2>1. n + i \in 1..Len(text)
      BY <1>1
    <2>2. s[i] = text[n + i]
      BY DEF Piece
    <2>3. text[n + i] \in {EOL, n + i}
      BY <2>1 DEF IsText
    <2>4. s[i] # EOL
      BY <1>1, FirstEnd
    <2> QED  BY <2>2, <2>3, <2>4
  <1>4. ASSUME NEW k \in 1..Len(s) - 1 PROVE l.line[k + 1] = l.line[k] + 1
    <2>1. k \in 1..Len(s) /\ k + 1 \in 1..Len(s) /\ n + (k + 1) = n + k + 1
      BY <1>1
    <2> QED  BY <2>1, <1>2, <1>3
  <1>5. LineTrue(l, text, cut)
    BY <1>2, <1>4 DEF LineTrue
  <1>6. n + Len(s) + 1..n + Len(s) = {}
    BY <1>1
  <1>7. IsNext(l, text, n, n + Len(s), cut)
    BY <1>1, <1>2, <1>3, <1>6 DEF IsNext
  <1> QED  BY <1>5, <1>7

\* What reading may do to an entry: give on l, and go on behind it.
GivesOnTo(d, e, l, n, m) ==
  /\ d.got = Append(e.got, l) /\ IsNext(l, e.text, n, m, d.cut) /\ LineTrue(l, e.text, d.cut)
  /\ d.text = e.text /\ (e.cut => d.cut)

\* The part of Reads and Lines about what is given on.
LEMMA GoesOn ==
  ASSUME NEW e, NEW d, NEW l, NEW n, NEW m, e.got \in Seq(Line), IsText(e.text), GivenOn(e.got, e.text, e.cut, n),
         Lines(e), GivesOnTo(d, e, l, n, m)
  PROVE  GivenOn(d.got, d.text, d.cut, m) /\ Lines(d) /\ d.got \in Seq(Line)
  <1>1. /\ d.got = Append(e.got, l) /\ IsNext(l, e.text, n, m, d.cut) /\ LineTrue(l, e.text, d.cut)
        /\ d.text = e.text /\ (e.cut => d.cut)
    BY DEF GivesOnTo
  <1>2. l \in Line
    BY <1>1 DEF IsNext
  <1> QED  BY <1>1, <1>2, GivesOn, LinesOn

\* What is in the buffer and what is read then, as one piece; it is taken apart at Width when it is
\* too long.
Fits(all) == Len(all) < Width + 2
HeadOf(all) == IF Fits(all) THEN all ELSE SubSeq(all, 1, Width)
RestOf(all) == IF Fits(all) THEN <<>> ELSE SubSeq(all, Width + 1, Len(all))

LEMMA EmptyPiece ==
  ASSUME NEW text, NEW n \in Nat, IsText(text), n <= Len(text)
  PROVE  Piece(<<>>, text, n)
  <1>1. Len(<<>>) = 0 /\ <<>> \in Seq(Nat)
    BY NullFacts
  <1> QED  BY <1>1 DEF Piece

LEMMA HeadAndRest ==
  ASSUME NEW all, NEW text, NEW n, IsText(text), Piece(all, text, n)
  PROVE  /\ Piece(HeadOf(all), text, n) /\ Piece(RestOf(all), text, n + Len(HeadOf(all)))
         /\ Len(HeadOf(all)) + Len(RestOf(all)) = Len(all)
         /\ RestOf(all) # <<>> => Len(HeadOf(all)) >= Width
  <1>1. /\ all \in Seq(Nat) /\ n \in Nat /\ Len(text) \in Nat /\ Len(all) \in Nat /\ n + Len(all) <= Len(text)
        /\ Width \in Nat
    BY SocketsAssumption DEF Piece, IsText
  <1>2. CASE Fits(all)
    <2>1. HeadOf(all) = all /\ RestOf(all) = <<>> /\ Len(<<>>) = 0
      BY <1>2, NullFacts DEF HeadOf, RestOf
    <2>2. n + Len(all) \in Nat
      BY <1>1
    <2>3. Piece(<<>>, text, n + Len(all))
      BY <1>1, <2>2, EmptyPiece
    <2>4. Len(all) + 0 = Len(all)
      BY <1>1
    <2> QED  BY <2>1, <2>3, <2>4
  <1>3. CASE ~Fits(all)
    <2>1. HeadOf(all) = SubSeq(all, 1, Width) /\ RestOf(all) = SubSeq(all, Width + 1, Len(all))
      BY <1>3 DEF HeadOf, RestOf
    <2>2. ~(Len(all) < Width + 2)
      BY <1>3 DEF Fits
    <2>3. Width \in 0..Len(all)
      BY <2>2, <1>1
    <2>4. Piece(SubSeq(all, 1, Width), text, n) /\ Piece(SubSeq(all, Width + 1, Len(all)), text, n + Width)
      BY <2>3, CutPiece
    <2>5. Len(SubSeq(all, 1, Width)) = Width /\ Len(SubSeq(all, Width + 1, Len(all))) = Len(all) - Width
      BY <2>3, <1>1, Cutting
    <2>6. Width + (Len(all) - Width) = Len(all) /\ Width >= Width
      BY <1>1
    <2>7. Len(HeadOf(all)) = Width /\ Len(RestOf(all)) = Len(all) - Width
      BY <2>1, <2>5
    <2>8. Piece(HeadOf(all), text, n) /\ Piece(RestOf(all), text, n + Len(HeadOf(all)))
      BY <2>1, <2>4, <2>7
    <2> QED  BY <2>6, <2>7, <2>8
  <1> QED  BY <1>2, <1>3

\* What is left of the head, and how far the entry has got then.
LeftOf(head) == IF HasLine(head) THEN AfterEnds(head, LineEnd(head)) ELSE IF Len(head) >= Width THEN <<>> ELSE head

\* The cases of Taken: l is given on, or nothing.
Gives(head) == HasLine(head) \/ Len(head) >= Width
LineIn(head) ==
  IF HasLine(head) THEN [line |-> SubSeq(head, 1, LineEnd(head) - 1), fake |-> FALSE] ELSE [line |-> head, fake |-> TRUE]

LEMMA HeadGives ==
  ASSUME NEW head, NEW text, NEW n, NEW cut, IsText(text), Piece(head, text, n), Gives(head)
  PROVE  /\ LineTrue(LineIn(head), text, cut)
         /\ \E m \in Nat : /\ IsNext(LineIn(head), text, n, m, cut) /\ Piece(LeftOf(head), text, m)
                           /\ m + Len(LeftOf(head)) = n + Len(head)
  <1>1. head \in Seq(Nat) /\ n \in Nat /\ Len(head) \in Nat /\ n + Len(head) <= Len(text) /\ Len(text) \in Nat
    BY DEF Piece, IsText
  <1>2. CASE HasLine(head)
    <2> DEFINE p == LineEnd(head)
               l == LineIn(head)
    <2>1. p \in 1..Len(head)
      BY <1>1, <1>2, FirstEnd
    <2>2. p \in Nat /\ p >= 1 /\ p - 1 \in 0..Len(head)
      BY <2>1, <1>1
    <2>3. l.line = SubSeq(head, 1, p - 1) /\ l.fake = FALSE
      BY <1>2 DEF LineIn
    <2>4. /\ SubSeq(head, 1, p - 1) \in Seq(Nat) /\ Len(SubSeq(head, 1, p - 1)) = p - 1
          /\ \A i \in 1..p - 1 : SubSeq(head, 1, p - 1)[i] = head[i]
      BY <2>2, <1>1, Cutting
    <2>5. l \in Line
      BY <1>2, <2>4 DEF LineIn, Line
    <2>6. p - 1 <= p - 1
      BY <2>2
    <2> HIDE DEF l
    <2>7. LineOf(l, head, cut)
      BY <2>3, <2>4, <2>5, <2>6 DEF LineOf
    <2>8. LineTrue(l, text, cut) /\ GoesPast(l, head, text, n, cut)
      BY <1>2, <2>7, NextLine
    <2>9. PICK q \in 0..Len(head) :
               /\ IsNext(l, text, n, n + q, cut)
               /\ Piece(AfterEnds(head, p), text, n + q)
               /\ Len(AfterEnds(head, p)) = Len(head) - q
      BY <2>8 DEF GoesPast
    <2>10. LeftOf(head) = AfterEnds(head, p)
      BY <1>2 DEF LeftOf
    <2>11. n + q \in Nat /\ n + q + (Len(head) - q) = n + Len(head)
      BY <1>1
    <2> QED  BY <2>8, <2>9, <2>10, <2>11 DEF l
  <1>3. CASE ~HasLine(head)
    <2>1. Len(head) >= Width
      BY <1>3 DEF Gives
    <2>2. LineIn(head) = [line |-> head, fake |-> TRUE] /\ LeftOf(head) = <<>>
      BY <1>3, <2>1 DEF LineIn, LeftOf
    <2>3. LineIn(head) \in Line /\ LineIn(head).line = head /\ LineIn(head).fake = TRUE
      BY <2>2, <1>1 DEF Line
    <2>4. LineTrue(LineIn(head), text, cut) /\ IsNext(LineIn(head), text, n, n + Len(head), cut)
      BY <1>3, <2>1, <2>3, LongLine
    <2>5. n + Len(head) \in Nat /\ n + Len(head) + 0 = n + Len(head)
      BY <1>1
    <2>6. Piece(<<>>, text, n + Len(head)) /\ Len(<<>>) = 0
      BY <2>5, <1>1, EmptyPiece, NullFacts
    <2> QED  BY <2>2, <2>4, <2>5, <2>6
  <1> QED  BY <1>2, <1>3

\* An entry is sound after what changes only what was read of it.
LEMMA ReadSound ==
  ASSUME NEW e, Sound(e), "UNUSED" \notin e.flags, NEW d, d \in Entries, "UNUSED" \notin d.flags, Flagged(d),
         IsBuffer(d.inbuf), Lines(d), d.text = e.text, d.outbuf = e.outbuf, d.put = e.put, d.taken = e.taken,
         NEW m \in Nat, Reads(d, m)
  PROVE  Sound(d)
  <1>1. IsText(d.text) /\ IsBuffer(d.outbuf)
    BY DEF Sound
  <1>2. Writes(d)
    BY DEF Sound, Writes
  <1> QED  BY <1>1, <1>2 DEF Sound

\* d is e after xx is taken, behind what it held.
Takes(d, e, xx, all) == d = Taken(e, xx) /\ all = Held(e.inbuf) \o xx

LEMMA TakenIs ==
  ASSUME NEW e \in Entries, NEW xx \in Seq(Nat), IsBuffer(e.inbuf), NEW text, NEW n, IsText(text),
         NEW all, Piece(all, text, n), NEW d, Takes(d, e, xx, all)
  PROVE  /\ d \in Entries /\ d.text = e.text /\ d.outbuf = e.outbuf /\ d.put = e.put /\ d.taken = e.taken
         /\ d.coming = e.coming /\ d.cut = e.cut /\ d.flags = e.flags
         /\ d.inbuf = OrNull(LeftOf(HeadOf(all)) \o RestOf(all))
         /\ d.got = IF Gives(HeadOf(all)) THEN Append(e.got, LineIn(HeadOf(all))) ELSE e.got
  <1> DEFINE head == HeadOf(all)
             rest == RestOf(all)
             left == LeftOf(head)
             c == [e EXCEPT !.inbuf = OrNull(left \o rest)]
  <1>1. Piece(head, text, n) /\ Piece(rest, text, n + Len(head))
    BY HeadAndRest
  <1>2. head \in Seq(Nat) /\ rest \in Seq(Nat) /\ n \in Nat
    BY <1>1 DEF Piece
  <1>3. left \in Seq(Nat)
    <2>1. CASE Gives(head)
      <3>1. PICK m \in Nat : Piece(LeftOf(head), text, m)
        BY <1>1, <2>1, HeadGives
      <3> QED  BY <3>1 DEF Piece
    <2>2. CASE ~Gives(head)
      BY <1>2, <2>2 DEF LeftOf, Gives
    <2> QED  BY <2>1, <2>2
  <1>4. left \o rest \in Seq(Nat)
    BY <1>2, <1>3, ConcatProperties
  <1>5. OrNull(left \o rest) \in Seq(Int)
    BY <1>4, OrNullFacts
  <1>6. d = CASE HasLine(head) -> Given(c, SubSeq(head, 1, LineEnd(head) - 1), FALSE)
              [] ~HasLine(head) /\ Len(head) >= Width -> Given(c, head, TRUE)
              [] OTHER -> c
    BY DEF Takes, Taken, HeadOf, RestOf, Fits, LeftOf
  <1>7. /\ c \in Entries /\ c.text = e.text /\ c.outbuf = e.outbuf /\ c.put = e.put /\ c.taken = e.taken
        /\ c.coming = e.coming /\ c.cut = e.cut /\ c.flags = e.flags /\ c.inbuf = OrNull(left \o rest) /\ c.got = e.got
    BY <1>5 DEF Entries
  <1> HIDE DEF c, head, rest, left
  <1>8. CASE Gives(head)
    <2>1. d = [c EXCEPT !.got = Append(c.got, LineIn(head))]
      <3>1. CASE HasLine(head)
        BY <3>1, <1>6 DEF Given, LineIn
      <3>2. CASE ~HasLine(head)
        BY <3>2, <1>6, <1>8 DEF Given, LineIn, Gives
      <3> QED  BY <3>1, <3>2
    <2>2. LineIn(head) \in Line
      <3>1. PICK m \in Nat : IsNext(LineIn(head), text, n, m, TRUE)
        BY <1>1, <1>8, HeadGives
      <3> QED  BY <3>1 DEF IsNext
    <2>3. Append(c.got, LineIn(head)) \in Seq(Line)
      BY <2>2, <1>7, Fields, AppendProperties
    <2>4. /\ d \in Entries /\ d.text = c.text /\ d.outbuf = c.outbuf /\ d.put = c.put /\ d.taken = c.taken
          /\ d.coming = c.coming /\ d.cut = c.cut /\ d.flags = c.flags /\ d.inbuf = c.inbuf
          /\ d.got = Append(c.got, LineIn(head))
      BY <2>1, <2>3, <1>7 DEF Entries
    <2> QED  BY <2>4, <1>7, <1>8 DEF head, rest, left
  <1>9. CASE ~Gives(head)
    <2>1. d = c
      BY <1>6, <1>9 DEF Gives
    <2> QED  BY <2>1, <1>7, <1>9 DEF head, rest, left
  <1> QED  BY <1>8, <1>9

\* An entry has read all up to the xth character: what it gave on and what it stores.
GotTo(d, x) ==
  \E m \in Nat : /\ GivenOn(d.got, d.text, d.cut, m) /\ Piece(Held(d.inbuf), d.text, m)
                 /\ m + Len(Held(d.inbuf)) = x

LEMMA TakenReads ==
  ASSUME NEW e \in Entries, NEW xx \in Seq(Nat), IsBuffer(e.inbuf), Lines(e), IsText(e.text),
         NEW n, GivenOn(e.got, e.text, e.cut, n),
         NEW all, Piece(all, e.text, n), NEW d, Takes(d, e, xx, all)
  PROVE  Lines(d) /\ IsBuffer(d.inbuf) /\ GotTo(d, n + Len(all))
  <1> DEFINE text == e.text
             head == HeadOf(all)
             rest == RestOf(all)
             left == LeftOf(head)
  <1>1. /\ d.text = text /\ d.cut = e.cut /\ d.inbuf = OrNull(left \o rest)
        /\ d.got = IF Gives(head) THEN Append(e.got, LineIn(head)) ELSE e.got
    <2>1. /\ d.text = e.text /\ d.cut = e.cut /\ d.inbuf = OrNull(LeftOf(HeadOf(all)) \o RestOf(all))
          /\ d.got = IF Gives(HeadOf(all)) THEN Append(e.got, LineIn(HeadOf(all))) ELSE e.got
      BY TakenIs
    <2> QED  BY <2>1
  <1>2. /\ Piece(head, text, n) /\ Piece(rest, text, n + Len(head)) /\ Len(head) + Len(rest) = Len(all)
        /\ rest # <<>> => Len(head) >= Width
    BY HeadAndRest
  <1>3. e.got \in Seq(Line)
    BY Fields
  <1>4. /\ n \in Nat /\ Len(head) \in Nat /\ Len(rest) \in Nat /\ Len(all) \in Nat /\ head \in Seq(Nat) /\ rest \in Seq(Nat)
    BY <1>2 DEF Piece
  <1> HIDE DEF head, rest, left, text
  <1>5. Lines(e) /\ IsText(text) /\ GivenOn(e.got, text, e.cut, n) /\ text = e.text
    BY DEF text
  <1>6. \E m \in Nat : /\ GivenOn(d.got, d.text, d.cut, m) /\ Lines(d) /\ Piece(left, text, m)
                       /\ m + Len(left) = n + Len(head)
    <2>1. CASE Gives(head)
      <3> DEFINE l == LineIn(head)
      <3>1. PICK m \in Nat : /\ IsNext(l, text, n, m, d.cut) /\ Piece(LeftOf(head), text, m)
                             /\ m + Len(LeftOf(head)) = n + Len(head)
        BY <1>2, <1>5, <2>1, HeadGives
      <3>2. LineTrue(l, text, d.cut)
        BY <1>2, <1>5, <2>1, HeadGives
      <3>3. d.got = Append(e.got, l)
        BY <1>1, <2>1
      <3> HIDE DEF l
      <3>4. GivesOnTo(d, e, l, n, m)
        BY <1>1, <1>5, <3>1, <3>2, <3>3 DEF GivesOnTo
      <3>5. GivenOn(d.got, d.text, d.cut, m) /\ Lines(d)
        BY <1>3, <1>5, <3>4, GoesOn
      <3> QED  BY <3>1, <3>5 DEF left
    <2>2. CASE ~Gives(head)
      <3>1. d.got = e.got /\ left = head
        BY <1>1, <2>2 DEF left, LeftOf, Gives
      <3>2. Lines(d)
        BY <1>1, <1>5, <3>1 DEF Lines
      <3> QED  BY <1>1, <1>2, <1>4, <1>5, <3>1, <3>2
    <2> QED  BY <2>1, <2>2
  <1>7. PICK m \in Nat : /\ GivenOn(d.got, d.text, d.cut, m) /\ Lines(d) /\ Piece(left, text, m)
                         /\ m + Len(left) = n + Len(head)
    BY <1>6
  <1>8. Piece(left \o rest, text, m) /\ Len(left \o rest) = Len(left) + Len(rest)
    BY <1>2, <1>5, <1>7, JoinPieces
  <1>9. left \o rest \in Seq(Nat) /\ Len(left) \in Nat
    BY <1>7, <1>8 DEF Piece
  <1>10. IsBuffer(d.inbuf) /\ Held(d.inbuf) = left \o rest
    BY <1>1, <1>9, OrNullFacts
  <1>11. m + (Len(left) + Len(rest)) = n + Len(all)
    <2>1. Len(head) + Len(rest) = Len(all) /\ m + Len(left) = n + Len(head)
      BY <1>2, <1>7
    <2>2. m \in Nat /\ n \in Nat /\ Len(left) \in Nat /\ Len(rest) \in Nat /\ Len(head) \in Nat /\ Len(all) \in Nat
      BY <1>4, <1>9
    <2>3. m + (Len(left) + Len(rest)) = (m + Len(left)) + Len(rest)
      BY <2>2
    <2>4. (n + Len(head)) + Len(rest) = n + (Len(head) + Len(rest))
      BY <2>2
    <2> QED  BY <2>1, <2>3, <2>4
  <1> QED  BY <1>1, <1>5, <1>7, <1>8, <1>10, <1>11 DEF GotTo

\* What sockread does to an entry, by the three cases of it.
ReadOn(e, k) == [e EXCEPT !.coming = SubSeq(@, k + 1, Len(@)), !.flags = @ \ {"CONNECT", "STRONGCONN"}]
First(e, k) == SubSeq(e.coming, 1, k)
AfterRead(e, k) ==
  CASE "STRONGCONN" \in e.flags -> [ReadOn(e, k) EXCEPT !.known = TRUE, !.inbuf = First(e, k)]
    [] "BUFFER" \in e.flags -> [ReadOn(e, k) EXCEPT !.inbuf = Held(@) \o First(e, k)]
    [] OTHER -> Taken(ReadOn(e, k), First(e, k))

LEMMA ReadOnIs ==
  ASSUME NEW e, Sound(e), "UNUSED" \notin e.flags, NEW k \in 0..Len(e.coming), NEW n \in Nat, Reads(e, n)
  PROVE  /\ ReadOn(e, k) \in Entries /\ ReadOn(e, k).text = e.text /\ ReadOn(e, k).inbuf = e.inbuf
         /\ ReadOn(e, k).got = e.got /\ ReadOn(e, k).cut = e.cut /\ ReadOn(e, k).outbuf = e.outbuf
         /\ ReadOn(e, k).put = e.put /\ ReadOn(e, k).taken = e.taken
         /\ ReadOn(e, k).flags = e.flags \ {"CONNECT", "STRONGCONN"}
         /\ First(e, k) \in Seq(Nat) /\ Len(First(e, k)) = k
         /\ Piece(First(e, k), e.text, n + Len(Held(e.inbuf)))
         /\ Piece(ReadOn(e, k).coming, e.text, n + Len(Held(e.inbuf)) + k)
         /\ n + Len(Held(e.inbuf)) + k + Len(ReadOn(e, k).coming) = Len(e.text)
         /\ Piece(Held(e.inbuf) \o First(e, k), e.text, n)
         /\ Len(Held(e.inbuf) \o First(e, k)) = Len(Held(e.inbuf)) + k
  <1> DEFINE b == ReadOn(e, k)
             xx == First(e, k)
             h == Held(e.inbuf)
             text == e.text
             rest == SubSeq(e.coming, k + 1, Len(e.coming))
  <1>1. e \in Entries /\ IsText(text) /\ e.coming \in Seq(Nat)
    BY Fields DEF Sound
  <1>2. Piece(h, text, n) /\ Piece(e.coming, text, n + Len(h)) /\ n + Len(h) + Len(e.coming) = Len(text)
    BY DEF Reads
  <1>3. Piece(xx, text, n + Len(h)) /\ Piece(rest, text, n + Len(h) + k)
    BY <1>1, <1>2, CutPiece DEF First
  <1>4. xx \in Seq(Nat) /\ Len(xx) = k /\ rest \in Seq(Nat) /\ Len(rest) = Len(e.coming) - k
    BY <1>1, Cutting DEF First
  <1>5. /\ b \in Entries /\ b.coming = rest /\ b.flags = e.flags \ {"CONNECT", "STRONGCONN"} /\ b.text = e.text
        /\ b.inbuf = e.inbuf /\ b.got = e.got /\ b.cut = e.cut /\ b.outbuf = e.outbuf /\ b.put = e.put
        /\ b.taken = e.taken
    <2>1. /\ e.flags \ {"CONNECT", "STRONGCONN"} \in SUBSET {"UNUSED", "BUFFER", "CONNECT", "STRONGCONN", "EOFD"}
      BY <1>1, Fields
    <2>2. b = [e EXCEPT !.coming = rest, !.flags = e.flags \ {"CONNECT", "STRONGCONN"}]
      BY <1>1 DEF ReadOn, Entries
    <2> HIDE DEF b, rest
    <2> QED  BY <2>1, <2>2, <1>1, <1>4 DEF Entries
  <1> HIDE DEF b, xx, h, text, rest
  <1>6. Piece(h \o xx, text, n) /\ Len(h \o xx) = Len(h) + Len(xx)
    BY <1>1, <1>2, <1>3, JoinPieces
  <1>7. n + Len(h) + k + (Len(e.coming) - k) = Len(text)
    <2>1. n \in Nat /\ Len(h) \in Nat /\ Len(e.coming) \in Nat /\ k \in Nat /\ Len(text) \in Nat
      BY <1>1, <1>2 DEF Piece, IsText
    <2>2. n + Len(h) + k + (Len(e.coming) - k) = n + Len(h) + Len(e.coming)
      <3>1. ASSUME NEW y \in Nat, NEW c \in Nat, NEW j \in Nat PROVE n + y + j + (c - j) = n + y + c
        OBVIOUS
      <3> QED  BY <3>1, <2>1, Zenon
    <2> QED  BY <2>2, <1>2
  <1> QED  BY <1>3, <1>4, <1>5, <1>6, <1>7 DEF b, xx, h, text, rest

LEMMA SockreadSound ==
  ASSUME NEW e, Sound(e), "UNUSED" \notin e.flags, NEW k \in 0..Len(e.coming),
         {"CONNECT", "STRONGCONN"} \cap e.flags # {"CONNECT"}, k > 0
  PROVE  Sound(AfterRead(e, k))
  <1> DEFINE b == ReadOn(e, k)
             xx == First(e, k)
             h == Held(e.inbuf)
             text == e.text
             d == AfterRead(e, k)
  <1>1. e \in Entries /\ IsText(text) /\ Flagged(e) /\ Lines(e) /\ IsBuffer(e.inbuf)
    BY DEF Sound
  <1>2. PICK n \in Nat : Reads(e, n)
    BY DEF Sound
  <1>3. /\ b \in Entries /\ b.text = text /\ b.inbuf = e.inbuf /\ b.got = e.got /\ b.cut = e.cut
        /\ b.outbuf = e.outbuf /\ b.put = e.put /\ b.taken = e.taken
        /\ b.flags = e.flags \ {"CONNECT", "STRONGCONN"}
        /\ xx \in Seq(Nat) /\ Len(xx) = k
        /\ Piece(xx, text, n + Len(h)) /\ Piece(b.coming, text, n + Len(h) + k)
        /\ n + Len(h) + k + Len(b.coming) = Len(text)
        /\ Piece(h \o xx, text, n) /\ Len(h \o xx) = Len(h) + k
    BY <1>2, ReadOnIs
  <1>4. GivenOn(e.got, text, e.cut, n)
    BY <1>2 DEF Reads
  <1>5. b.inbuf = e.inbuf /\ "UNUSED" \notin b.flags
    BY <1>3
  <1>6. Lines(b)
    BY <1>1, <1>3 DEF Lines
  <1>7. n \in Nat /\ Len(h) \in Nat /\ k \in Nat /\ h \in Seq(Nat)
    BY <1>1, <1>2, HeldFacts, Fields
  <1>8. xx # <<>> /\ h \o xx # <<>> /\ h \o xx \in Seq(Nat)
    <2>1. Len(h) + k # 0 /\ k # 0
      BY <1>7
    <2> QED  BY <2>1, <1>3, <1>7, NullFacts, ConcatProperties
  <1> HIDE DEF b, xx, h, text
  <1>9. CASE "STRONGCONN" \in e.flags
    <2>1. d = [b EXCEPT !.known = TRUE, !.inbuf = xx]
      <3>1. "BUFFER" \notin e.flags
        BY <1>1, <1>9 DEF Flagged
      <3> QED  BY <3>1, <1>9 DEF AfterRead, b, xx
    <2>2. e.inbuf = Null /\ e.got = <<>> /\ "BUFFER" \notin e.flags
      BY <1>1, <1>9 DEF Flagged
    <2>3. h = <<>> /\ Len(h) = 0
      BY <2>2, NullFacts DEF h
    <2>4. IsBuffer(xx)
      BY <1>3, <1>8 DEF IsBuffer
    <2>5. Held(xx) = xx /\ xx \in Seq(Int)
      BY <2>4, <1>3, NullFacts, HeldFacts
    <2>6. /\ d \in Entries /\ d.coming = b.coming /\ d.inbuf = xx /\ d.got = b.got /\ d.cut = b.cut
          /\ d.flags = b.flags /\ d.text = b.text /\ d.outbuf = b.outbuf /\ d.put = b.put /\ d.taken = b.taken
      BY <2>1, <2>5, <1>3 DEF Entries
    <2> HIDE DEF d
    <2>7. Reads(d, n)
      <3>1. n + 0 = n /\ n + Len(xx) = n + k
        BY <1>3, <1>7
      <3>2. Piece(Held(d.inbuf), d.text, n) /\ Piece(d.coming, d.text, n + Len(Held(d.inbuf)))
        BY <3>1, <2>3, <2>5, <2>6, <1>3
      <3>3. n + Len(Held(d.inbuf)) + Len(d.coming) = Len(d.text)
        BY <3>1, <2>3, <2>5, <2>6, <1>3
      <3>4. GivenOn(d.got, d.text, d.cut, n)
        BY <2>6, <1>3, <1>4
      <3> QED  BY <3>2, <3>3, <3>4 DEF Reads
    <2>8. Flagged(d)
      BY <2>2, <2>6, <1>3, <1>5 DEF Flagged
    <2>9. Lines(d)
      BY <2>6, <1>6 DEF Lines
    <2>10. d.text = e.text /\ d.outbuf = e.outbuf /\ d.put = e.put /\ d.taken = e.taken /\ "UNUSED" \notin d.flags
      BY <2>6, <1>3, <1>5 DEF text
    <2>11. IsBuffer(d.inbuf) /\ d \in Entries
      BY <2>4, <2>6
    <2>12. Sound(d)
      BY <2>7, <2>8, <2>9, <2>10, <2>11, ReadSound
    <2> QED  BY <2>12 DEF d
  <1>10. CASE "STRONGCONN" \notin e.flags /\ "BUFFER" \in e.flags
    <2>1. d = [b EXCEPT !.inbuf = h \o xx]
      BY <1>3, <1>10 DEF AfterRead, b, xx, h
    <2>2. IsBuffer(h \o xx)
      BY <1>8 DEF IsBuffer
    <2>3. Held(h \o xx) = h \o xx /\ h \o xx \in Seq(Int)
      BY <2>2, <1>8, NullFacts, HeldFacts
    <2>4. /\ d \in Entries /\ d.coming = b.coming /\ d.inbuf = h \o xx /\ d.got = b.got /\ d.cut = b.cut
          /\ d.flags = b.flags /\ d.text = b.text /\ d.outbuf = b.outbuf /\ d.put = b.put /\ d.taken = b.taken
      BY <2>1, <2>3, <1>3 DEF Entries
    <2> HIDE DEF d
    <2>5. Reads(d, n)
      <3>1. n + Len(h) + k = n + (Len(h) + k)
        BY <1>7
      <3>2. Piece(Held(d.inbuf), d.text, n) /\ Piece(d.coming, d.text, n + Len(Held(d.inbuf)))
        BY <3>1, <2>3, <2>4, <1>3
      <3>3. n + Len(Held(d.inbuf)) + Len(d.coming) = Len(d.text)
        BY <3>1, <2>3, <2>4, <1>3
      <3>4. GivenOn(d.got, d.text, d.cut, n)
        BY <2>4, <1>3, <1>4
      <3> QED  BY <3>2, <3>3, <3>4 DEF Reads
    <2>6. Flagged(d)
      BY <2>4, <1>3, <1>5 DEF Flagged
    <2>7. Lines(d)
      BY <2>4, <1>6 DEF Lines
    <2>8. d.text = e.text /\ d.outbuf = e.outbuf /\ d.put = e.put /\ d.taken = e.taken /\ "UNUSED" \notin d.flags
      BY <2>4, <1>3, <1>5 DEF text
    <2>9. IsBuffer(d.inbuf) /\ d \in Entries
      BY <2>2, <2>4
    <2>10. Sound(d)
      BY <2>5, <2>6, <2>7, <2>8, <2>9, ReadSound
    <2> QED  BY <2>10 DEF d
  <1>11. CASE "STRONGCONN" \notin e.flags /\ "BUFFER" \notin e.flags
    <2> DEFINE all == h \o xx
    <2>1. d = Taken(b, xx)
      BY <1>11 DEF AfterRead, b, xx
    <2>2. Takes(d, b, xx, all)
      BY <2>1, <1>3 DEF Takes, h
    <2> HIDE DEF d
    <2>3. Piece(all, b.text, n) /\ IsText(b.text) /\ IsBuffer(b.inbuf) /\ GivenOn(b.got, b.text, b.cut, n)
      BY <1>1, <1>3, <1>4
    <2>4. /\ d \in Entries /\ d.text = b.text /\ d.outbuf = b.outbuf /\ d.put = b.put /\ d.taken = b.taken
          /\ d.coming = b.coming /\ d.cut = b.cut /\ d.flags = b.flags
      BY <2>2, <2>3, <1>3, TakenIs
    <2>5. Lines(d) /\ IsBuffer(d.inbuf) /\ GotTo(d, n + Len(all))
      <3>1. xx \in Seq(Nat) /\ b \in Entries
        BY <1>3
      <3> HIDE DEF all
      <3> QED  BY <3>1, <2>2, <2>3, <1>6, TakenReads
    <2>6. PICK m \in Nat : /\ GivenOn(d.got, d.text, d.cut, m) /\ Piece(Held(d.inbuf), d.text, m)
                           /\ m + Len(Held(d.inbuf)) = n + Len(all)
      BY <2>5 DEF GotTo
    <2>7. Reads(d, m)
      <3>1. n + Len(h) + k = n + (Len(h) + k)
        BY <1>7
      <3>2. m + Len(Held(d.inbuf)) = n + Len(h) + k
        BY <3>1, <2>6, <1>3
      <3> QED  BY <3>2, <2>4, <2>6, <1>3 DEF Reads
    <2>8. Flagged(d)
      BY <2>4, <1>3, <1>5, <1>11 DEF Flagged
    <2>9. d.text = e.text /\ d.outbuf = e.outbuf /\ d.put = e.put /\ d.taken = e.taken /\ "UNUSED" \notin d.flags
      BY <2>4, <1>3, <1>5 DEF text
    <2>10. Sound(d)
      BY <2>4, <2>5, <2>7, <2>8, <2>9, ReadSound
    <2> QED  BY <2>10 DEF d
  <1> QED  BY <1>9, <1>10, <1>11

\* The same for what is stored.
StoredLine(e) ==
  LET p == LineEnd(e.inbuf) IN SubSeq(SubSeq(e.inbuf, 1, p - 1), 1, Min({Width, p - 1}))
AfterStored(e) ==
  LET p == LineEnd(e.inbuf)
  IN [Given(e, StoredLine(e), FALSE) EXCEPT !.cut = @ \/ p - 1 > Width, !.inbuf = OrNull(AfterEnds(e.inbuf, p))]

\* d is e after line is given on.
Stores(d, e, line, cut, after) == d = [Given(e, line, FALSE) EXCEPT !.cut = cut, !.inbuf = after]

LEMMA StoredIs ==
  ASSUME NEW e \in Entries, NEW line \in Seq(Nat), NEW cut \in BOOLEAN, NEW after \in Seq(Int),
         NEW d, Stores(d, e, line, cut, after)
  PROVE  /\ d \in Entries /\ d.text = e.text /\ d.coming = e.coming /\ d.flags = e.flags /\ d.outbuf = e.outbuf
         /\ d.put = e.put /\ d.taken = e.taken /\ d.inbuf = after /\ d.cut = cut
         /\ d.got = Append(e.got, [line |-> line, fake |-> FALSE])
  <1>1. e.got \in Seq(Line) /\ [line |-> line, fake |-> FALSE] \in Line
    BY Fields DEF Line
  <1>2. Append(e.got, [line |-> line, fake |-> FALSE]) \in Seq(Line)
    BY <1>1, AppendProperties
  <1> QED  BY <1>2 DEF Stores, Given, Entries

LEMMA FromInbufSound ==
  ASSUME NEW e, Sound(e), "UNUSED" \notin e.flags, e.inbuf # Null, HasLine(e.inbuf)
  PROVE  Sound(AfterStored(e))
  <1> DEFINE s == e.inbuf
             p == LineEnd(s)
             w == Min({Width, p - 1})
             line == StoredLine(e)
             l == [line |-> line, fake |-> FALSE]
             cut == e.cut \/ p - 1 > Width
             after == OrNull(AfterEnds(s, p))
             d == AfterStored(e)
  <1>1. e \in Entries /\ IsText(e.text) /\ Flagged(e) /\ Lines(e) /\ IsBuffer(s) /\ Width \in Nat
    BY SocketsAssumption DEF Sound
  <1>2. s \in Seq(Nat) /\ Held(s) = s /\ Len(s) \in Nat
    BY <1>1, HeldFacts DEF Held
  <1>3. PICK n \in Nat : Reads(e, n)
    BY DEF Sound
  <1>4. /\ Piece(s, e.text, n) /\ GivenOn(e.got, e.text, e.cut, n) /\ Piece(e.coming, e.text, n + Len(s))
        /\ n + Len(s) + Len(e.coming) = Len(e.text)
    BY <1>2, <1>3 DEF Reads
  <1>5. p \in 1..Len(s)
    BY <1>2, FirstEnd
  <1> HIDE DEF p
  <1>6. p - 1 \in Nat /\ p - 1 \in 0..Len(s) /\ p \in Nat
    BY <1>2, <1>5
  <1>7. w \in {Width, p - 1} /\ w <= Width /\ w <= p - 1
    BY <1>1, <1>6, LessOf
  <1>8. /\ SubSeq(s, 1, p - 1) \in Seq(Nat) /\ Len(SubSeq(s, 1, p - 1)) = p - 1
        /\ \A i \in 1..p - 1 : SubSeq(s, 1, p - 1)[i] = s[i]
    BY <1>2, <1>6, Cutting
  <1> HIDE DEF w
  <1>9. w \in Nat /\ w \in 0..p - 1
    BY <1>1, <1>6, <1>7
  <1>10. line = SubSeq(SubSeq(s, 1, p - 1), 1, w)
    BY DEF StoredLine, p, w
  <1>11. line \in Seq(Nat) /\ Len(line) = w /\ \A i \in 1..w : line[i] = SubSeq(s, 1, p - 1)[i]
    <2> DEFINE u == SubSeq(s, 1, p - 1)
    <2>1. u \in Seq(Nat) /\ w \in 0..Len(u)
      BY <1>8, <1>9
    <2> HIDE DEF u
    <2>2. SubSeq(u, 1, w) \in Seq(Nat) /\ Len(SubSeq(u, 1, w)) = w /\ \A i \in 1..w : SubSeq(u, 1, w)[i] = u[i]
      BY <2>1, Cutting
    <2> QED  BY <2>2, <1>10 DEF u
  <1>12. \A i \in 1..w : line[i] = s[i]
    <2>1. \A i \in 1..w : i \in 1..p - 1
      BY <1>6, <1>7, <1>9
    <2> QED  BY <2>1, <1>8, <1>11
  <1> HIDE DEF line
  <1>13. l \in Line /\ l.line = line /\ l.fake = FALSE
    BY <1>11 DEF Line
  <1> HIDE DEF l
  <1>14. cut \in BOOLEAN /\ (e.cut => cut)
    BY <1>1, Fields
  <1>15. w = p - 1 \/ (cut /\ w = Width)
    <2>1. CASE w = p - 1
      BY <2>1
    <2>2. CASE w # p - 1
      <3>1. w = Width /\ w < p - 1
        BY <2>2, <1>7, <1>6, <1>9
      <3>2. p - 1 > Width
        BY <3>1, <1>1, <1>6
      <3> QED  BY <3>1, <3>2
    <2> QED  BY <2>1, <2>2
  <1> HIDE DEF cut
  <1>16. LineOf(l, s, cut)
    BY <1>7, <1>11, <1>12, <1>13, <1>15 DEF LineOf, p
  <1>17. LineTrue(l, e.text, cut) /\ GoesPast(l, s, e.text, n, cut)
    BY <1>1, <1>4, <1>16, NextLine
  <1>18. PICK q \in 0..Len(s) :
              /\ IsNext(l, e.text, n, n + q, cut)
              /\ Piece(AfterEnds(s, p), e.text, n + q)
              /\ Len(AfterEnds(s, p)) = Len(s) - q
    BY <1>17 DEF GoesPast, p
  <1>19. AfterEnds(s, p) \in Seq(Nat)
    BY <1>18 DEF Piece
  <1>20. IsBuffer(after) /\ Held(after) = AfterEnds(s, p) /\ after \in Seq(Int)
    BY <1>19, OrNullFacts
  <1>21. Stores(d, e, line, cut, after)
    BY <1>1 DEF Stores, AfterStored, p, line, cut, Given, Entries
  <1> HIDE DEF d, after
  <1>22. /\ d \in Entries /\ d.text = e.text /\ d.coming = e.coming /\ d.flags = e.flags /\ d.outbuf = e.outbuf
         /\ d.put = e.put /\ d.taken = e.taken /\ d.inbuf = after /\ d.cut = cut
         /\ d.got = Append(e.got, l)
    BY <1>1, <1>11, <1>14, <1>20, <1>21, StoredIs DEF l
  <1>23. GivesOnTo(d, e, l, n, n + q)
    BY <1>14, <1>17, <1>18, <1>22 DEF GivesOnTo
  <1>24. GivenOn(d.got, d.text, d.cut, n + q) /\ Lines(d)
    BY <1>1, <1>4, <1>23, Fields, GoesOn
  <1>25. n + q \in Nat /\ n + q + (Len(s) - q) = n + Len(s)
    <2>1. q \in Nat /\ Len(s) \in Nat
      BY <1>2
    <2>2. ASSUME NEW a \in Nat, NEW b \in Nat PROVE n + b \in Nat /\ n + b + (a - b) = n + a
      OBVIOUS
    <2> QED  BY <2>1, <2>2, Zenon
  <1>26. Reads(d, n + q)
    BY <1>4, <1>18, <1>20, <1>22, <1>24, <1>25 DEF Reads
  <1>27. Flagged(d)
    BY <1>1, <1>22 DEF Flagged
  <1>28. IsBuffer(d.inbuf) /\ "UNUSED" \notin d.flags
    BY <1>20, <1>22
  <1>29. Sound(d)
    BY <1>22, <1>24, <1>25, <1>26, <1>27, <1>28, ReadSound
  <1> QED  BY <1>29 DEF d

-----------------------------------------------------------------------------
(* Writing.                                                                 *)

\* s are the characters behind the ath, one after the other.
Run(s, a) == s \in Seq(Nat) /\ \A k \in 1..Len(s) : s[k] = a + k

LEMMA JoinRuns ==
  ASSUME NEW s, NEW r, NEW a \in Nat, Run(s, a), Run(r, a + Len(s))
  PROVE  Run(s \o r, a) /\ Len(s \o r) = Len(s) + Len(r)
  <1>1. s \in Seq(Nat) /\ r \in Seq(Nat) /\ Len(s) \in Nat /\ Len(r) \in Nat
    BY DEF Run
  <1>2. /\ s \o r \in Seq(Nat) /\ Len(s \o r) = Len(s) + Len(r)
        /\ \A i \in 1..Len(s) + Len(r) : (s \o r)[i] = IF i <= Len(s) THEN s[i] ELSE r[i - Len(s)]
    BY <1>1, ConcatProperties
  <1>3. ASSUME NEW i \in 1..Len(s) + Len(r) PROVE (s \o r)[i] = a + i
    <2>1. CASE i <= Len(s)
      <3>1. i \in 1..Len(s)
        BY <2>1, <1>1
      <3> QED  BY <3>1, <2>1, <1>2 DEF Run
    <2>2. CASE ~(i <= Len(s))
      <3>1. i - Len(s) \in 1..Len(r) /\ a + Len(s) + (i - Len(s)) = a + i
        BY <2>2, <1>1
      <3> QED  BY <3>1, <2>2, <1>2 DEF Run
    <2> QED  BY <2>1, <2>2
  <1> QED  BY <1>2, <1>3 DEF Run

LEMMA CutRun ==
  ASSUME NEW s, NEW a \in Nat, Run(s, a), NEW k \in 0..Len(s)
  PROVE  /\ Run(SubSeq(s, 1, k), a) /\ Len(SubSeq(s, 1, k)) = k
         /\ Run(SubSeq(s, k + 1, Len(s)), a + k) /\ Len(SubSeq(s, k + 1, Len(s))) = Len(s) - k
  <1>1. s \in Seq(Nat) /\ Len(s) \in Nat
    BY DEF Run
  <1>2. /\ SubSeq(s, 1, k) \in Seq(Nat) /\ Len(SubSeq(s, 1, k)) = k
        /\ \A i \in 1..k : SubSeq(s, 1, k)[i] = s[i]
        /\ SubSeq(s, k + 1, Len(s)) \in Seq(Nat) /\ Len(SubSeq(s, k + 1, Len(s))) = Len(s) - k
        /\ \A i \in 1..Len(s) - k : SubSeq(s, k + 1, Len(s))[i] = s[k + i]
    BY <1>1, Cutting
  <1>3. ASSUME NEW i \in 1..k PROVE SubSeq(s, 1, k)[i] = a + i
    <2>1. i \in 1..Len(s)
      BY <1>1
    <2> QED  BY <2>1, <1>2 DEF Run
  <1>4. ASSUME NEW i \in 1..Len(s) - k PROVE SubSeq(s, k + 1, Len(s))[i] = a + k + i
    <2>1. k + i \in 1..Len(s) /\ a + (k + i) = a + k + i
      BY <1>1
    <2> QED  BY <2>1, <1>2 DEF Run
  <1> QED  BY <1>2, <1>3, <1>4 DEF Run

\* What was taken and what waits are all that was written.
Written(taken, held, put) == Run(taken, 0) /\ Run(held, Len(taken)) /\ Len(taken) + Len(held) = put

LEMMA WritesAre == ASSUME NEW e, e \in Entries, IsBuffer(e.outbuf) PROVE Writes(e) <=> Written(e.taken, Held(e.outbuf), e.put)
  <1>1. e.taken \in Seq(Nat) /\ Held(e.outbuf) \in Seq(Nat)
    BY Fields, HeldFacts
  <1>2. \A j \in 1..Len(e.taken) : 0 + j = j
    OBVIOUS
  <1> QED  BY <1>1, <1>2 DEF Writes, Written, Run

LEMMA WriteSound ==
  ASSUME NEW e, Sound(e), "UNUSED" \notin e.flags, NEW put \in Nat, NEW taken, NEW outbuf, IsBuffer(outbuf),
         Written(taken, Held(outbuf), put)
  PROVE  Sound([e EXCEPT !.put = put, !.taken = taken, !.outbuf = outbuf])
  <1> DEFINE d == [e EXCEPT !.put = put, !.taken = taken, !.outbuf = outbuf]
  <1>1. e \in Entries /\ Flagged(e) /\ outbuf \in Seq(Int) /\ taken \in Seq(Nat)
    BY HeldFacts DEF Sound, Written, Run
  <1>2. /\ d \in Entries /\ d.flags = e.flags /\ d.text = e.text /\ d.coming = e.coming /\ d.inbuf = e.inbuf
        /\ d.got = e.got /\ d.cut = e.cut /\ d.outbuf = outbuf /\ d.put = put /\ d.taken = taken
    BY <1>1 DEF Entries
  <1> HIDE DEF d
  <1>3. IsText(d.text) /\ IsBuffer(d.inbuf) /\ IsBuffer(d.outbuf) /\ "UNUSED" \notin d.flags
    BY <1>2 DEF Sound
  <1>4. Lines(d)
    BY <1>2 DEF Sound, Lines
  <1>5. Flagged(d)
    BY <1>1, <1>2 DEF Flagged
  <1>6. PICK n \in Nat : Reads(e, n)
    BY DEF Sound
  <1>7. Reads(d, n)
    BY <1>2, <1>6 DEF Reads
  <1>8. Writes(d)
    BY <1>2, <1>3, WritesAre
  <1>9. Sound(d)
    BY <1>2, <1>3, <1>4, <1>5, <1>7, <1>8 DEF Sound
  <1> QED  BY <1>9 DEF d

LEMMA TputsSound ==
  ASSUME NEW e, Sound(e), "UNUSED" \notin e.flags, NEW l \in Nat, NEW n \in 0..l, e.outbuf # Null => n = 0
  PROVE  LET s == Next1(e, l)
         IN Sound([e EXCEPT !.put = @ + l, !.taken = @ \o SubSeq(s, 1, n),
                            !.outbuf = OrNull(Held(@) \o SubSeq(s, n + 1, l))])
  <1> DEFINE s == Next1(e, l)
             a == SubSeq(s, 1, n)
             b == SubSeq(s, n + 1, l)
             t == e.taken
             h == Held(e.outbuf)
             put == e.put
  <1>1. e \in Entries /\ IsBuffer(e.outbuf) /\ t \in Seq(Nat) /\ put \in Nat /\ h \in Seq(Nat) /\ Len(h) \in Nat
    BY Fields, HeldFacts DEF Sound
  <1>2. Run(t, 0) /\ Run(h, Len(t)) /\ Len(t) + Len(h) = put
    BY <1>1, WritesAre DEF Sound, Written
  <1>3. s \in Seq(Nat) /\ Len(s) = l /\ \A k \in 1..l : s[k] = put + k
    <2>1. s = [j \in 1..l |-> put + j]
      BY DEF Next1
    <2> HIDE DEF put, s
    <2> QED  BY <2>1, <1>1
  <1>4. Run(s, put)
    BY <1>3 DEF Run
  <1> HIDE DEF s, t, h, put
  <1>5. Run(a, put) /\ Len(a) = n /\ Run(b, put + n) /\ Len(b) = l - n
    BY <1>1, <1>3, <1>4, CutRun
  <1> HIDE DEF a, b
  <1>6. Written(t \o a, h \o b, put + l)
    <2>1. CASE n = 0
      <3>1. a = <<>> /\ t \o a = t /\ put + n = Len(t) + Len(h)
        <4>1. a = <<>>
          BY <1>5, <2>1, EmptySeq DEF Run
        <4>2. put + n = put
          BY <1>1, <2>1
        <4> QED  BY <4>1, <4>2, <1>1, <1>2, ConcatEmptySeq
      <3>2. Len(t) \in Nat
        BY <1>1
      <3>3. Run(h \o b, Len(t)) /\ Len(h \o b) = Len(h) + Len(b)
        BY <3>1, <3>2, <1>2, <1>5, JoinRuns
      <3>4. Len(t) + (Len(h) + Len(b)) = put + l
        <4>1. Len(b) = l
          BY <1>5, <2>1
        <4> QED  BY <4>1, <3>2, <1>1, <1>2
      <3> QED  BY <3>1, <3>3, <3>4, <1>2 DEF Written
    <2>2. CASE n # 0
      <3>1. h = <<>> /\ Len(h) = 0
        BY <2>2, NullFacts DEF h
      <3>2. Len(t) = put /\ Len(t) \in Nat
        BY <3>1, <1>1, <1>2
      <3>3. Run(t \o a, 0) /\ Len(t \o a) = Len(t) + Len(a)
        <4>1. 0 + Len(t) = put
          BY <3>2
        <4> QED  BY <4>1, <1>2, <1>5, JoinRuns
      <3>4. h \o b = b
        BY <3>1, <1>5, ConcatEmptySeq DEF Run
      <3>5. put + n + (l - n) = put + l
        BY <1>1
      <3> QED  BY <3>2, <3>3, <3>4, <3>5, <1>5 DEF Written
    <2> QED  BY <2>1, <2>2
  <1>7. h \o b \in Seq(Nat) /\ put + l \in Nat
    BY <1>1, <1>6 DEF Written, Run
  <1>8. IsBuffer(OrNull(h \o b)) /\ Held(OrNull(h \o b)) = h \o b
    BY <1>7, OrNullFacts
  <1>9. Sound([e EXCEPT !.put = put + l, !.taken = t \o a, !.outbuf = OrNull(h \o b)])
    BY <1>6, <1>7, <1>8, WriteSound
  <1> QED  BY <1>9 DEF put, t, a, b, h, s

LEMMA NoneLeft == ASSUME NEW x \in Nat, NEW k \in Nat, x - k = 0 PROVE k = x
  OBVIOUS

LEMMA DequeueSound ==
  ASSUME NEW e, Sound(e), "UNUSED" \notin e.flags, e.outbuf # Null, NEW n \in 1..Len(e.outbuf)
  PROVE  Sound([e EXCEPT !.taken = @ \o SubSeq(e.outbuf, 1, n),
                         !.outbuf = IF n = Len(@) THEN Null ELSE SubSeq(@, n + 1, Len(@))])
  <1> DEFINE s == e.outbuf
             a == SubSeq(s, 1, n)
             b == SubSeq(s, n + 1, Len(s))
             out == IF n = Len(s) THEN Null ELSE b
             t == e.taken
  <1>1. e \in Entries /\ IsBuffer(s) /\ t \in Seq(Nat) /\ e.put \in Nat /\ Held(s) = s /\ s \in Seq(Nat)
    BY Fields, HeldFacts DEF Sound, IsBuffer
  <1>2. Run(t, 0) /\ Run(s, Len(t)) /\ Len(t) + Len(s) = e.put
    BY <1>1, WritesAre DEF Sound, Written
  <1>3. Len(t) \in Nat /\ Len(s) \in Nat /\ n \in 0..Len(s)
    BY <1>1
  <1>4. Run(a, Len(t)) /\ Len(a) = n /\ Run(b, Len(t) + n) /\ Len(b) = Len(s) - n
    BY <1>2, <1>3, CutRun
  <1> HIDE DEF a, b, t
  <1>5. Run(t \o a, 0) /\ Len(t \o a) = Len(t) + n
    <2>1. 0 + Len(t) = Len(t)
      BY <1>3
    <2> QED  BY <2>1, <1>2, <1>4, JoinRuns
  <1>6. IsBuffer(out) /\ Held(out) = b
    <2>1. CASE n = Len(s)
      <3>1. b = <<>>
        BY <2>1, <1>3, <1>4, EmptySeq DEF Run
      <3> QED  BY <3>1, <2>1, NullFacts DEF IsBuffer
    <2>2. CASE n # Len(s)
      <3>1. b # <<>> /\ b \in Seq(Nat)
        <4>1. b \in Seq(Nat) /\ Len(b) = Len(s) - n
          BY <1>4 DEF Run
        <4>2. n \in Nat
          BY <1>3
        <4>3. Len(s) - n # 0
          BY <4>2, <2>2, <1>3, NoneLeft, Zenon
        <4> QED  BY <4>1, <4>3, NullFacts
      <3> QED  BY <3>1, <2>2, NullFacts DEF IsBuffer, Held
    <2> QED  BY <2>1, <2>2
  <1>7. Len(t) + n + (Len(s) - n) = e.put
    <2>1. ASSUME NEW x \in Nat, NEW y \in Nat, NEW k \in Nat PROVE x + k + (y - k) = x + y
      OBVIOUS
    <2>2. n \in Nat
      BY <1>3
    <2>3. Len(t) + n + (Len(s) - n) = Len(t) + Len(s)
      BY <2>1, <2>2, <1>3, Zenon
    <2> QED  BY <2>3, <1>2
  <1>8. Written(t \o a, Held(out), e.put)
    BY <1>4, <1>5, <1>6, <1>7 DEF Written
  <1> HIDE DEF out
  <1>9. Sound([e EXCEPT !.put = e.put, !.taken = t \o a, !.outbuf = out])
    BY <1>1, <1>6, <1>8, WriteSound
  <1>10. [e EXCEPT !.put = e.put, !.taken = t \o a, !.outbuf = out] = [e EXCEPT !.taken = t \o a, !.outbuf = out]
    BY <1>1 DEF Entries
  <1> QED  BY <1>9, <1>10 DEF out, t, a, b

-----------------------------------------------------------------------------
(* The table.                                                               *)

\* At the beginning.
LEMMA EntrySound ==
  ASSUME NEW text \in Seq(BOOLEAN), NEW kind
  PROVE  Sound(Entry(text, kind))
  <1> DEFINE c == Characters(text)
             e == Entry(text, kind)
  <1>1. Len(text) \in Nat
    OBVIOUS
  <1>2. c \in Seq(Nat) /\ Len(c) = Len(text) /\ \A p \in 1..Len(c) : c[p] \in {EOL, p}
    <2>1. c = [i \in 1..Len(text) |-> IF text[i] THEN EOL ELSE i]
      BY DEF Characters
    <2>2. \A i \in 1..Len(text) : (IF text[i] THEN EOL ELSE i) \in Nat /\ (IF text[i] THEN EOL ELSE i) \in {EOL, i}
      BY DEF EOL
    <2> HIDE DEF c
    <2>3. c \in [1..Len(text) -> Nat]
      BY <2>1, <2>2
    <2>4. c \in Seq(Nat) /\ Len(c) = Len(text)
      BY <1>1, <2>3, SeqDef, LenProperties
    <2>5. \A i \in 1..Len(text) : c[i] \in {EOL, i}
      BY <2>1, <2>2
    <2> QED  BY <2>4, <2>5
  <1>3. /\ e.text = c /\ e.coming = c /\ e.inbuf = Null /\ e.got = <<>> /\ e.cut = FALSE /\ e.outbuf = Null
        /\ e.put = 0 /\ e.taken = <<>> /\ e \in Entries
        /\ e.flags \in {{"BUFFER"}, {"CONNECT"}, {"CONNECT", "STRONGCONN"}}
    <2> HIDE DEF c
    <2> DEFINE f == CASE kind = "accepted" -> {"BUFFER"} [] kind = "connecting" -> {"CONNECT"}
                      [] OTHER -> {"CONNECT", "STRONGCONN"}
    <2>1. f \in {{"BUFFER"}, {"CONNECT"}, {"CONNECT", "STRONGCONN"}}
      OBVIOUS
    <2>2. f \in SUBSET {"UNUSED", "BUFFER", "CONNECT", "STRONGCONN", "EOFD"}
      BY <2>1
    <2>3. e = [flags |-> f, text |-> c, coming |-> c, inbuf |-> Null, got |-> <<>>, cut |-> FALSE,
               outbuf |-> Null, put |-> 0, taken |-> <<>>, known |-> FALSE]
      BY DEF Entry, c
    <2>4. <<>> \in Seq(Line) /\ <<>> \in Seq(Nat) /\ Null \in Seq(Int)
      BY NullFacts, EmptySeq
    <2> HIDE DEF f, e
    <2> QED  BY <2>1, <2>2, <2>3, <2>4, <1>2 DEF Entries
  <1> HIDE DEF e, c
  <1>4. IsText(e.text)
    BY <1>2, <1>3 DEF IsText
  <1>5. IsBuffer(e.inbuf) /\ IsBuffer(e.outbuf)
    BY <1>3 DEF IsBuffer
  <1>6. Flagged(e)
    BY <1>3 DEF Flagged
  <1>7. Lines(e)
    BY <1>3, NullFacts DEF Lines
  <1>8. Reads(e, 0)
    <2>1. Held(e.inbuf) = <<>> /\ Len(<<>>) = 0 /\ Len(e.got) = 0
      BY <1>3, NullFacts
    <2>2. GivenOn(e.got, e.text, e.cut, 0)
      BY <2>1 DEF GivenOn
    <2>3. Piece(<<>>, e.text, 0)
      <3>1. 0 <= Len(c)
        BY <1>2
      <3> QED  BY <3>1, <1>3, <1>4, EmptyPiece
    <2>4. 0 + 0 = 0 /\ 0 + Len(c) <= Len(c) /\ 0 + Len(c) = Len(c) /\ \A k \in 1..Len(c) : 0 + k = k
      BY <1>2
    <2>5. Piece(e.coming, e.text, 0 + 0)
      BY <2>4, <1>2, <1>3 DEF Piece
    <2> QED  BY <2>1, <2>2, <2>3, <2>4, <2>5, <1>3 DEF Reads
  <1>9. Writes(e)
    <2>1. e.taken = <<>> /\ Held(e.outbuf) = <<>> /\ Len(<<>>) = 0 /\ e.put = 0
      BY <1>3, NullFacts
    <2> QED  BY <2>1 DEF Writes
  <1>10. Sound(e)
    BY <1>3, <1>4, <1>5, <1>6, <1>7, <1>8, <1>9 DEF Sound
  <1> QED  BY <1>10 DEF e

LEMMA InitKeeps == InitSockets => SocketsInv
  <1> SUFFICES ASSUME InitSockets PROVE SocketsInv
    OBVIOUS
  <1>1. PICK t \in [Socks -> Texts], k \in [Socks -> ConnKinds] : socklist = [i \in Socks |-> Entry(t[i], k[i])]
    BY DEF InitSockets
  <1>2. ASSUME NEW i \in Socks PROVE Sound(socklist[i])
    <2>1. socklist[i] = Entry(t[i], k[i])
      BY <1>1
    <2>2. t[i] \in Seq(BOOLEAN)
      BY SocketsAssumption
    <2> QED  BY <2>1, <2>2, EntrySound
  <1>3. socklist = [i \in Socks |-> socklist[i]]
    BY <1>1
  <1> QED  BY <1>2, <1>3 DEF SocketsInv

\* A step changes one entry.
LEMMA OneChanges ==
  ASSUME SocketsInv, NEW i \in Socks, NEW d, Sound(d), socklist' = [socklist EXCEPT ![i] = d]
  PROVE  SocketsInv'
  <1>1. ASSUME NEW j \in Socks PROVE Sound(socklist'[j])
    <2>1. CASE j = i
      BY <2>1 DEF SocketsInv
    <2>2. CASE j # i
      <3>1. socklist'[j] = socklist[j]
        BY <2>2 DEF SocketsInv
      <3> QED  BY <3>1 DEF SocketsInv
    <2> QED  BY <2>1, <2>2
  <1>2. socklist' = [j \in Socks |-> socklist'[j]]
    BY DEF SocketsInv
  <1> QED  BY <1>1, <1>2 DEF SocketsInv

LEMMA SocketsKeep == SocketsInv /\ [NextSockets]_socketVars => SocketsInv'
  <1> SUFFICES ASSUME SocketsInv, [NextSockets]_socketVars PROVE SocketsInv'
    OBVIOUS
  <1>1. ASSUME NEW i \in Socks PROVE Sound(socklist[i]) /\ (Used(i) <=> "UNUSED" \notin socklist[i].flags)
    BY DEF SocketsInv, Used
  <1>2. ASSUME NEW i \in Socks, Used(i), socklist' = [socklist EXCEPT ![i] = Killed(@)] PROVE SocketsInv'
    BY <1>1, <1>2, KilledSound, OneChanges
  <1>3. ASSUME NEW i \in Socks, FromInbuf(i) PROVE SocketsInv'
    <2> DEFINE e == socklist[i]
    <2>1. Used(i) /\ e.inbuf # Null /\ HasLine(e.inbuf) /\ socklist' = [socklist EXCEPT ![i] = AfterStored(e)]
      BY <1>3 DEF FromInbuf, Stored, Used, AfterStored, StoredLine
    <2>2. Sound(AfterStored(e))
      BY <1>1, <2>1, FromInbufSound
    <2> QED  BY <2>1, <2>2, OneChanges
  <1>4. ASSUME NEW i \in Socks, EofAtWrite(i) PROVE SocketsInv'
    <2>1. Used(i)
      BY <1>4 DEF EofAtWrite, Pending, Eofd
    <2> QED  BY <2>1, <1>2, <1>4 DEF EofAtWrite
  <1>5. ASSUME NEW i \in Socks, Connected(i) PROVE SocketsInv'
    <2> DEFINE e == socklist[i]
    <2>1. Used(i) /\ {"CONNECT", "STRONGCONN"} \cap e.flags = {"CONNECT"}
      BY <1>5 DEF Connected
    <2>2. socklist' = [socklist EXCEPT ![i] = [e EXCEPT !.flags = @ \ {"CONNECT"}, !.known = TRUE]]
      BY <1>5 DEF Connected
    <2>3. Sound([e EXCEPT !.flags = @ \ {"CONNECT"}, !.known = TRUE])
      BY <1>1, <2>1, ConnectedSound
    <2> QED  BY <2>2, <2>3, OneChanges
  <1>6. ASSUME NEW i \in Socks, EofAtRead(i) PROVE SocketsInv'
    BY <1>2, <1>6 DEF EofAtRead
  <1>7. ASSUME NEW i \in Socks, NEW k \in 1..Width + 1, Sockread(i, k) PROVE SocketsInv'
    <2> DEFINE e == socklist[i]
    <2>1. /\ Used(i) /\ k \in 1..Min({Width + 1, Len(e.coming)})
          /\ {"CONNECT", "STRONGCONN"} \cap e.flags # {"CONNECT"}
          /\ socklist' = [socklist EXCEPT ![i] = AfterRead(e, k)]
      BY <1>7 DEF Sockread, AfterRead, ReadOn, First
    <2>2. Len(e.coming) \in Nat /\ Width + 1 \in Nat
      BY <1>1, Fields, SocketsAssumption DEF Sound
    <2> HIDE DEF e
    <2>3. Min({Width + 1, Len(e.coming)}) \in Nat /\ Min({Width + 1, Len(e.coming)}) <= Len(e.coming)
      BY <2>2, LessOf
    <2>4. k \in 0..Len(e.coming) /\ k > 0
      BY <2>1, <2>2, <2>3
    <2>5. Sound(AfterRead(e, k))
      BY <1>1, <2>1, <2>4, SockreadSound DEF e
    <2> QED  BY <2>1, <2>5, OneChanges
  <1>8. ASSUME NEW i \in Socks, Killsock(i) PROVE SocketsInv'
    BY <1>2, <1>8 DEF Killsock
  <1>9. ASSUME NEW i \in Socks, Unbuffer(i) PROVE SocketsInv'
    <2> DEFINE e == socklist[i]
    <2>1. "BUFFER" \in e.flags /\ socklist' = [socklist EXCEPT ![i] = [e EXCEPT !.flags = @ \ {"BUFFER"}]]
      BY <1>9 DEF Unbuffer
    <2>2. Sound([e EXCEPT !.flags = @ \ {"BUFFER"}])
      BY <1>1, <2>1, UnbufferSound
    <2> QED  BY <2>1, <2>2, OneChanges
  <1>10. ASSUME NEW i \in Socks, WriteFails(i) PROVE SocketsInv'
    <2> DEFINE e == socklist[i]
    <2>1. Used(i) /\ socklist' = [socklist EXCEPT ![i] = [e EXCEPT !.flags = @ \cup {"EOFD"}]]
      BY <1>10 DEF WriteFails
    <2>2. Sound([e EXCEPT !.flags = @ \cup {"EOFD"}])
      BY <1>1, <2>1, FailsSound
    <2> QED  BY <2>1, <2>2, OneChanges
  <1>11. ASSUME NEW i \in Socks, NEW n \in 1..MaxPuts, DequeueSockets(i, n) PROVE SocketsInv'
    <2> DEFINE e == socklist[i]
               d == [e EXCEPT !.taken = @ \o SubSeq(e.outbuf, 1, n),
                              !.outbuf = IF n = Len(@) THEN Null ELSE SubSeq(@, n + 1, Len(@))]
    <2>1. Used(i) /\ e.outbuf # Null /\ n \in 1..Len(e.outbuf) /\ socklist' = [socklist EXCEPT ![i] = d]
      BY <1>11 DEF DequeueSockets
    <2>2. Sound(d)
      BY <1>1, <2>1, DequeueSound
    <2> HIDE DEF d
    <2> QED  BY <2>1, <2>2, OneChanges
  <1>12. ASSUME NEW i \in Socks, NEW l \in 1..MaxPuts, NEW n \in 0..MaxPuts, Tputs(i, l, n) PROVE SocketsInv'
    <2> DEFINE e == socklist[i]
               s == Next1(e, l)
               d == [e EXCEPT !.put = @ + l, !.taken = @ \o SubSeq(s, 1, n),
                              !.outbuf = OrNull(Held(@) \o SubSeq(s, n + 1, l))]
    <2>1. Used(i) /\ n \in (IF e.outbuf # Null THEN {0} ELSE 0..l) /\ socklist' = [socklist EXCEPT ![i] = d]
      BY <1>12 DEF Tputs
    <2>2. l \in Nat /\ n \in 0..l /\ (e.outbuf # Null => n = 0)
      BY <2>1, SocketsAssumption
    <2>3. Sound(d)
      BY <1>1, <2>1, <2>2, TputsSound
    <2> HIDE DEF d
    <2> QED  BY <2>1, <2>3, OneChanges
  <1>13. CASE UNCHANGED socketVars
    BY <1>13 DEF SocketsInv, socketVars
  <1>14. CASE NextSockets
    BY <1>3, <1>4, <1>5, <1>6, <1>7, <1>8, <1>9, <1>10, <1>11, <1>12, <1>14 DEF NextSockets, Sockgets, Drains
  <1> QED  BY <1>13, <1>14

-----------------------------------------------------------------------------
(* What the invariant says.                                                 *)

LEMMA PieceIsRest ==
  ASSUME NEW h, NEW c, NEW text, NEW n, IsText(text), Piece(h, text, n), Piece(c, text, n + Len(h)),
         n + Len(h) + Len(c) = Len(text)
  PROVE  n \in 0..Len(text) /\ h \o c = SubSeq(text, n + 1, Len(text))
  <1> DEFINE s == h \o c
             r == SubSeq(text, n + 1, Len(text))
  <1>1. Piece(s, text, n) /\ Len(s) = Len(h) + Len(c)
    BY JoinPieces
  <1>2. /\ s \in Seq(Nat) /\ n \in Nat /\ Len(text) \in Nat /\ n + Len(s) <= Len(text) /\ text \in Seq(Nat)
        /\ Len(h) \in Nat /\ Len(c) \in Nat /\ Len(s) \in Nat
    BY <1>1 DEF Piece, IsText
  <1>3. \A k \in 1..Len(s) : s[k] = text[n + k]
    BY <1>1 DEF Piece
  <1>4. n \in 0..Len(text)
    BY <1>2
  <1>5. r \in Seq(Nat) /\ Len(r) = Len(text) - n /\ \A k \in 1..Len(text) - n : r[k] = text[n + k]
    BY <1>2, <1>4, Cutting
  <1> HIDE DEF s, r
  <1>6. Len(s) = Len(text) - n
    BY <1>1, <1>2
  <1>7. s = r
    BY <1>2, <1>3, <1>5, <1>6, SeqEqual
  <1> QED  BY <1>4, <1>7 DEF s, r

LEMMA RunIsAll ==
  ASSUME NEW taken, NEW held, NEW put \in Nat, Written(taken, held, put)
  PROVE  taken \o held = [j \in 1..put |-> j]
  <1> DEFINE s == taken \o held
             t == [j \in 1..put |-> j]
  <1>1. Run(taken, 0) /\ Run(held, Len(taken)) /\ Len(taken) + Len(held) = put
    BY DEF Written
  <1>2. 0 + Len(taken) = Len(taken)
    <2>1. Len(taken) \in Nat
      BY <1>1 DEF Run
    <2> QED  BY <2>1
  <1>3. Run(s, 0) /\ Len(s) = put
    BY <1>1, <1>2, JoinRuns
  <1>4. t \in [1..put -> Nat]
    OBVIOUS
  <1>5. t \in Seq(Nat) /\ Len(t) = put
    BY <1>4, SeqDef, LenProperties
  <1>6. \A j \in 1..put : t[j] = j /\ 0 + j = j
    OBVIOUS
  <1> HIDE DEF s, t
  <1>7. s \in Seq(Nat) /\ \A j \in 1..put : s[j] = t[j]
    BY <1>3, <1>6 DEF Run
  <1>8. s = t
    BY <1>3, <1>5, <1>7, SeqEqual
  <1> QED  BY <1>8 DEF s, t

LEMMA IInvImplies == SocketsInv => SocketsKept
  <1> SUFFICES ASSUME SocketsInv PROVE SocketsKept
    OBVIOUS
  <1>1. ASSUME NEW i \in Socks PROVE Sound(socklist[i]) /\ (Used(i) <=> "UNUSED" \notin socklist[i].flags)
    BY DEF SocketsInv, Used
  <1>2. SocketsTypeOK
    <2> SUFFICES ASSUME NEW i \in Socks
                 PROVE LET e == socklist[i]
                       IN /\ e.flags \in {{"UNUSED"}} \cup SUBSET {"BUFFER", "CONNECT", "STRONGCONN", "EOFD"}
                          /\ e.inbuf # <<>> /\ e.outbuf # <<>>
                          /\ Used(i) \/ (e.inbuf = Null /\ e.outbuf = Null)
      BY DEF SocketsTypeOK
    <2> DEFINE e == socklist[i]
    <2>1. e \in Entries /\ IsBuffer(e.inbuf) /\ IsBuffer(e.outbuf) /\ Flagged(e) /\ (Used(i) <=> "UNUSED" \notin e.flags)
      BY <1>1 DEF Sound
    <2> HIDE DEF e
    <2>2. e.inbuf # <<>> /\ e.outbuf # <<>>
      BY <2>1, HeldFacts
    <2>3. e.flags \subseteq {"UNUSED", "BUFFER", "CONNECT", "STRONGCONN", "EOFD"}
      BY <2>1, Fields
    <2>4. CASE "UNUSED" \in e.flags
      <3>1. e.flags = {"UNUSED"} /\ e.inbuf = Null /\ e.outbuf = Null
        BY <2>1, <2>4 DEF Flagged
      <3> QED  BY <3>1, <2>2 DEF e
    <2>5. CASE "UNUSED" \notin e.flags
      <3>1. e.flags \in SUBSET {"BUFFER", "CONNECT", "STRONGCONN", "EOFD"}
        BY <2>3, <2>5
      <3> QED  BY <3>1, <2>1, <2>2, <2>5 DEF e
    <2> QED  BY <2>4, <2>5
  <1>3. InOrder
    <2> SUFFICES ASSUME NEW i \in Socks, Used(i)
                 PROVE LET e == socklist[i]
                       IN \E n \in 0..Len(e.text) : Held(e.inbuf) \o e.coming = SubSeq(e.text, n + 1, Len(e.text))
                                                    /\ GivenOn(e.got, e.text, e.cut, n)
      BY DEF InOrder
    <2> DEFINE e == socklist[i]
    <2>1. IsText(e.text) /\ \E n \in Nat : Reads(e, n)
      BY <1>1 DEF Sound
    <2>2. PICK n \in Nat : Reads(e, n)
      BY <2>1
    <2>3. GivenOn(e.got, e.text, e.cut, n)
      BY <2>2 DEF Reads
    <2>4. n \in 0..Len(e.text) /\ Held(e.inbuf) \o e.coming = SubSeq(e.text, n + 1, Len(e.text))
      BY <2>1, <2>2, PieceIsRest DEF Reads
    <2> QED  BY <2>3, <2>4
  <1>4. LinesTrue
    BY <1>1 DEF LinesTrue, Sound, Lines, LineTrue
  <1>5. KnownFirst
    BY <1>1 DEF KnownFirst, Sound, Flagged
  <1>6. WrittenInOrder
    <2> SUFFICES ASSUME NEW i \in Socks, Used(i)
                 PROVE LET e == socklist[i] IN e.taken \o Held(e.outbuf) = [j \in 1..e.put |-> j]
      BY DEF WrittenInOrder
    <2> DEFINE e == socklist[i]
    <2>1. e \in Entries /\ IsBuffer(e.outbuf) /\ Writes(e)
      BY <1>1 DEF Sound
    <2>2. e.put \in Nat /\ Written(e.taken, Held(e.outbuf), e.put)
      BY <2>1, Fields, WritesAre
    <2> QED  BY <2>2, RunIsAll
  <1> QED  BY <1>2, <1>3, <1>4, <1>5, <1>6 DEF SocketsKept

\* However what comes is split on its way, what was given on of a connection, what is stored of it and
\* what is still to be read are all that was sent, in its order; a line is a line, or as long as one may
\* be; and the other end gets what was written, all of it in order: net.c, sockgets, sockread, tputs.
THEOREM SocketsAreKept == SpecSockets => []SocketsKept
  <1>1. InitSockets => SocketsInv
    BY InitKeeps
  <1>2. SocketsInv /\ [NextSockets]_socketVars => SocketsInv'
    BY SocketsKeep
  <1>3. SocketsInv => SocketsKept
    BY IInvImplies
  <1> QED  BY <1>1, <1>2, <1>3, PTL DEF SpecSockets

=============================================================================
