--------------------------- MODULE Modules_proofs ---------------------------
(***************************************************************************)
(* Modules are there once, with all they need, as long as no script has      *)
(* changed the list under an unloading: for any modules and needs, whatever  *)
(* fails to start and whatever scripts load and unload on the way.            *)
(*                                                                         *)
(* The list is spoken of by its entries.  An entry's number tells when it     *)
(* was loaded: what is above another in the stack of acts is younger, so who  *)
(* came to need a module that starts, or is being unloaded, is younger too.   *)
(***************************************************************************)
EXTENDS Modules, SequenceTheorems, WellFoundedInduction, TLAPS

Entries == [id : Nat, name : Mods]
Phases == {"start", "failed", "loaded", "script", "runs"}
Kinds == {"load", "unload", "hook"}
Names == Mods \cup {""}
Acts == [kind : Kinds, id : Nat, name : Names, k : Nat \ {0}, since : Nat, other : Nat, phase : Phases]
Els(list) == {list[i] : i \in 1..Len(list)}
Dep(a, b) == [needing |-> a, needed |-> b]

Typed ==
  /\ module_list \in Seq(Entries) /\ hook_list \in Seq(Nat) /\ acts \in Seq(Acts)
  /\ dependancy_list \subseteq [needing : Nat, needed : Nat]
  /\ mishap \subseteq {"torn", "lost", "left"} /\ asks \in [made : Nat, n : Nat, restart : BOOLEAN]
  /\ \A e \in Els(module_list) : e.id \in 1..asks.made

\* The latest first, and each name once.
Whole(list) ==
  \A i, j \in 1..Len(list) : (i < j => list[i].id > list[j].id) /\ (list[i].name = list[j].name => i = j)
Lone(s) == \A i, j \in 1..Len(s) : s[i] = s[j] => i = j
\* Entry number id has its need n.
HasNeed(els, deps, id, n) == \E f \in els : f.name = n /\ Dep(id, f.id) \in deps
Known(els, deps) ==
  \A d \in deps : \E e, f \in els : e.id = d.needing /\ f.id = d.needed /\ f.name \in Range(Needs[e.name])
Served(els, deps, starting) ==
  \A e \in els : e.id \notin starting => \A n \in Range(Needs[e.name]) : HasNeed(els, deps, e.id, n)
Hooks(els, hooks) == \A h \in hooks : \E e \in els : e.id = h

Starts(a) == a.kind = "load" /\ a.phase # "script"
Begins(stack) == {stack[i].id : i \in {j \in 1..Len(stack) : Starts(stack[j])}}
\* A start has what it asked for so far, and only younger ones need it.
Started(a, els, deps, hooks) ==
  /\ ModuleEntry(a.id, a.name) \in els
  /\ \A j \in 1..Len(Needs[a.name]) : j < a.k => HasNeed(els, deps, a.id, Needs[a.name][j])
  /\ a.id \notin hooks
  /\ \A d \in deps : d.needed = a.id => d.needing >= a.id
\* Who came to need what is being unloaded was loaded since.
Asked(a, deps) == \A d \in deps : d.needed = a.id => d.needing > a.since
Sound(a, els, deps, hooks) ==
  /\ Starts(a) => Started(a, els, deps, hooks)
  /\ a.kind = "unload" => Asked(a, deps) /\ a.phase = "script"
Waits(a) == a.k <= Len(Needs[a.name])
\* When it began, in numbers of entries.
Mark(a) == IF a.kind = "load" THEN a.id ELSE a.since
Stacked(stack, made) ==
  /\ \A i \in 1..Len(stack) : Mark(stack[i]) <= made
  /\ \A i, j \in 1..Len(stack) : i < j /\ stack[j].kind = "load" => stack[j].id > Mark(stack[i])
  /\ \A i \in 1..Len(stack) : stack[i].kind = "hook" => i = 1
  /\ \A i \in 1..Len(stack) : Starts(stack[i]) /\ i < Len(stack) => stack[i].phase = "start"
  /\ \A i \in 1..Len(stack) : Starts(stack[i]) /\ (i < Len(stack) \/ stack[i].phase # "start") => Waits(stack[i])

Right(list, deps, hooks, stack, made) ==
  /\ Whole(list) /\ Known(Els(list), deps) /\ Served(Els(list), deps, Begins(stack)) /\ Hooks(Els(list), Els(hooks)) /\ Lone(hooks)
  /\ \A i \in 1..Len(stack) : Sound(stack[i], Els(list), deps, Els(hooks))
  /\ Stacked(stack, made)

IInv == Typed /\ (mishap = {} => Right(module_list, dependancy_list, hook_list, acts, asks.made))

-----------------------------------------------------------------------------

(* The list by its entries.                                                 *)

LEMMA RangeIsEls ==
  ASSUME NEW S, NEW s \in Seq(S)
  PROVE  Range(s) = Els(s)
  BY DEF Range, Els

LEMMA ElsTyped ==
  ASSUME NEW S, NEW s \in Seq(S)
  PROVE  Els(s) \subseteq S
  BY DEF Els

LEMMA EntryTyped ==
  ASSUME NEW e \in Entries
  PROVE  e.id \in Nat /\ e.name \in Mods
  BY DEF Entries

LEMMA ElementOf ==
  ASSUME NEW S, NEW s \in Seq(S), NEW i \in 1..Len(s)
  PROVE  s[i] \in S
  OBVIOUS

LEMMA Distinct ==
  ASSUME NEW list \in Seq(Entries), Whole(list), NEW e \in Els(list), NEW f \in Els(list), e.id = f.id \/ e.name = f.name
  PROVE  e = f
  <1>1. PICK i \in 1..Len(list) : e = list[i]
    BY DEF Els
  <1>2. PICK j \in 1..Len(list) : f = list[j]
    BY DEF Els
  <1>3. list[i].id \in Nat /\ list[j].id \in Nat
    BY ElementOf, EntryTyped
  <1>4. CASE i = j
    BY <1>1, <1>2, <1>4
  <1>5. CASE i < j
    BY <1>1, <1>2, <1>3, <1>5 DEF Whole
  <1>6. CASE j < i
    BY <1>1, <1>2, <1>3, <1>6 DEF Whole
  <1> QED  BY <1>4, <1>5, <1>6

LEMMA FoundIs ==
  ASSUME NEW m
  PROVE  Found(m) <=> \E e \in Els(module_list) : e.name = m
  BY DEF Found, Els

LEMMA HereIs ==
  ASSUME NEW list, NEW id
  PROVE  Here(list, id) <=> \E e \in Els(list) : e.id = id
  BY DEF Here, Els

LEMMA LeastOfOne ==
  ASSUME NEW i \in Nat
  PROVE  Min({i}) = i
  BY DEF Min

\* module_find finds the one of that name.
LEMMA ModuleFindIs ==
  ASSUME module_list \in Seq(Entries), Whole(module_list), NEW e \in Els(module_list)
  PROVE  ModuleFind(e.name) = e
  <1>1. PICK i \in 1..Len(module_list) : e = module_list[i]
    BY DEF Els
  <1>2. \A j \in 1..Len(module_list) : module_list[j].name = e.name => j = i
    BY <1>1 DEF Whole
  <1>3. {j \in 1..Len(module_list) : module_list[j].name = e.name} = {i}
    BY <1>1, <1>2
  <1>4. i \in Nat
    OBVIOUS
  <1> QED  BY <1>1, <1>3, <1>4, LeastOfOne DEF ModuleFind

\* Where one stands.
LEMMA AtIs ==
  ASSUME NEW list \in Seq(Entries), NEW id, Here(list, id)
  PROVE  At(list, id) \in 1..Len(list) /\ list[At(list, id)].id = id
  BY DEF Here, At

\* A new one is put first.
LEMMA Prepended ==
  ASSUME NEW list \in Seq(Entries), NEW e \in Entries
  PROVE  /\ <<e>> \o list \in Seq(Entries)
         /\ Els(<<e>> \o list) = Els(list) \cup {e}
         /\ Whole(list) /\ (\A f \in Els(list) : f.id < e.id /\ f.name # e.name) => Whole(<<e>> \o list)
  <1> DEFINE new == <<e>> \o list
  <1>1. new \in Seq(Entries) /\ Len(new) = Len(list) + 1 /\ new[1] = e /\ (\A i \in 1..Len(list) : new[i + 1] = list[i])
    BY ConcatProperties
  <1>1a. Len(list) \in Nat
    OBVIOUS
  <1>2. \A i \in 1..Len(new) : i = 1 \/ (i - 1 \in 1..Len(list) /\ new[i] = list[i - 1])
    BY <1>1, <1>1a
  <1> HIDE DEF new
  <1>3. Els(new) = Els(list) \cup {e}
    <2>1. \A x \in Els(new) : x \in Els(list) \cup {e}
      BY <1>1, <1>2 DEF Els
    <2>2. e \in Els(new)
      BY <1>1, <1>1a DEF Els
    <2>3. \A i \in 1..Len(list) : i + 1 \in 1..Len(new)
      BY <1>1, <1>1a
    <2>4. \A x \in Els(list) : x \in Els(new)
      BY <1>1, <2>3 DEF Els
    <2> QED  BY <2>1, <2>2, <2>4
  <1>4. ASSUME Whole(list), \A f \in Els(list) : f.id < e.id /\ f.name # e.name
        PROVE  Whole(new)
    <2> SUFFICES ASSUME NEW i \in 1..Len(new), NEW j \in 1..Len(new)
                 PROVE  (i < j => new[i].id > new[j].id) /\ (new[i].name = new[j].name => i = j)
      BY DEF Whole
    <2>1. CASE i = 1 /\ j = 1
      BY <2>1
    <2>2. CASE i = 1 /\ j # 1
      <3>1. j - 1 \in 1..Len(list) /\ new[j] = list[j - 1]
        BY <1>2, <2>2
      <3>2. new[j] \in Els(list)
        BY <3>1 DEF Els
      <3>3. new[j].id < e.id /\ new[j].name # e.name
        BY <3>2, <1>4
      <3>4. new[j].id \in Nat /\ e.id \in Nat
        BY <3>1, ElementOf, EntryTyped
      <3>5. e.id > new[j].id
        BY <3>3, <3>4
      <3> QED  BY <3>3, <3>5, <1>1, <2>2
    <2>3. CASE j = 1 /\ i # 1
      <3>1. i - 1 \in 1..Len(list) /\ new[i] = list[i - 1]
        BY <1>2, <2>3
      <3>2. new[i] \in Els(list)
        BY <3>1 DEF Els
      <3> QED  BY <3>2, <1>4, <1>1, <2>3
    <2>4. CASE i # 1 /\ j # 1
      <3>1. i - 1 \in 1..Len(list) /\ new[i] = list[i - 1] /\ j - 1 \in 1..Len(list) /\ new[j] = list[j - 1]
        BY <1>2, <2>4
      <3>2. (i - 1 < j - 1 => list[i - 1].id > list[j - 1].id) /\ (list[i - 1].name = list[j - 1].name => i - 1 = j - 1)
        BY <3>1, <1>4 DEF Whole
      <3>3. (i < j => i - 1 < j - 1) /\ (i - 1 = j - 1 => i = j)
        OBVIOUS
      <3> QED  BY <3>1, <3>2, <3>3
    <2> QED  BY <2>1, <2>2, <2>3, <2>4
  <1> QED  BY <1>1, <1>3, <1>4 DEF new

\* The one at a place is taken out.
Without(s, i) == SubSeq(s, 1, i - 1) \o SubSeq(s, i + 1, Len(s))

LEMMA WithoutIs ==
  ASSUME NEW S, NEW s \in Seq(S), NEW i \in 1..Len(s)
  PROVE  /\ Without(s, i) \in Seq(S) /\ Len(Without(s, i)) = Len(s) - 1
         /\ \A j \in 1..Len(s) - 1 : Without(s, i)[j] = IF j < i THEN s[j] ELSE s[j + 1]
  <1> DEFINE a == SubSeq(s, 1, i - 1)
             b == SubSeq(s, i + 1, Len(s))
  <1>1. a \in Seq(S) /\ Len(a) = i - 1 /\ (\A j \in 1..i - 1 : a[j] = s[j])
    BY SubSeqProperties
  <1>2. b \in Seq(S) /\ Len(b) = Len(s) - i /\ (\A j \in 1..Len(s) - i : b[j] = s[i + j])
    BY SubSeqProperties
  <1> HIDE DEF a, b
  <1>3. a \o b \in Seq(S) /\ Len(a \o b) = Len(a) + Len(b)
        /\ (\A j \in 1..Len(a) + Len(b) : (a \o b)[j] = IF j <= Len(a) THEN a[j] ELSE b[j - Len(a)])
    BY <1>1, <1>2, ConcatProperties
  <1>4. Len(a) + Len(b) = Len(s) - 1
    BY <1>1, <1>2
  <1>5. ASSUME NEW j \in 1..Len(s) - 1
        PROVE  (a \o b)[j] = IF j < i THEN s[j] ELSE s[j + 1]
    <2>1. CASE j < i
      <3>1. j \in 1..i - 1 /\ j <= Len(a)
        BY <1>1, <2>1
      <3> QED  BY <3>1, <1>1, <1>3, <1>4, <2>1
    <2>2. CASE ~(j < i)
      <3>1. j - Len(a) \in 1..Len(s) - i /\ ~(j <= Len(a)) /\ i + (j - Len(a)) = j + 1
        BY <1>1, <2>2
      <3> QED  BY <3>1, <1>2, <1>3, <1>4, <2>2
    <2> QED  BY <2>1, <2>2
  <1> QED  BY <1>3, <1>4, <1>5 DEF Without, a, b

LEMMA WithoutLone ==
  ASSUME NEW S, NEW s \in Seq(S), Lone(s), NEW i \in 1..Len(s)
  PROVE  Lone(Without(s, i)) /\ Els(Without(s, i)) = Els(s) \ {s[i]}
  <1> DEFINE w == Without(s, i)
  <1>1. Len(w) = Len(s) - 1 /\ (\A j \in 1..Len(s) - 1 : w[j] = IF j < i THEN s[j] ELSE s[j + 1])
    BY WithoutIs
  <1>1a. Len(s) \in Nat /\ i \in Nat
    OBVIOUS
  <1> HIDE DEF w
  <1>2. ASSUME NEW j \in 1..Len(w), NEW k \in 1..Len(w), w[j] = w[k]
        PROVE  j = k
    <2>1. j \in 1..Len(s) /\ j + 1 \in 1..Len(s) /\ k \in 1..Len(s) /\ k + 1 \in 1..Len(s) /\ j \in Nat /\ k \in Nat
      BY <1>1, <1>1a
    <2>2. CASE j < i /\ k < i
      BY <1>1, <1>2, <2>1, <2>2 DEF Lone
    <2>3. CASE j < i /\ ~(k < i)
      <3>1. s[j] = s[k + 1]
        BY <1>1, <1>2, <2>3
      <3>2. j = k + 1
        BY <3>1, <2>1 DEF Lone
      <3> QED  BY <3>2, <2>1, <2>3, <1>1a
    <2>4. CASE ~(j < i) /\ k < i
      <3>1. s[j + 1] = s[k]
        BY <1>1, <1>2, <2>4
      <3>2. j + 1 = k
        BY <3>1, <2>1 DEF Lone
      <3> QED  BY <3>2, <2>1, <2>4, <1>1a
    <2>5. CASE ~(j < i) /\ ~(k < i)
      <3>1. s[j + 1] = s[k + 1]
        BY <1>1, <1>2, <2>5
      <3>2. j + 1 = k + 1
        BY <3>1, <2>1 DEF Lone
      <3> QED  BY <3>2, <2>1
    <2> QED  BY <2>2, <2>3, <2>4, <2>5
  <1>3. Lone(w)
    BY <1>2 DEF Lone
  <1>4. ASSUME NEW x \in Els(w) PROVE x \in Els(s) \ {s[i]}
    <2>1. PICK j \in 1..Len(w) : x = w[j]
      BY <1>4 DEF Els
    <2>2. j \in 1..Len(s) /\ j + 1 \in 1..Len(s) /\ j \in Nat
      BY <1>1, <1>1a
    <2>3. CASE j < i
      <3>1. x = s[j]
        BY <1>1, <2>1, <2>3
      <3>2. j # i
        BY <2>3, <2>2, <1>1a
      <3> QED  BY <3>1, <3>2, <2>2 DEF Els, Lone
    <2>4. CASE ~(j < i)
      <3>1. x = s[j + 1]
        BY <1>1, <2>1, <2>4
      <3>2. j + 1 # i
        BY <2>4, <2>2, <1>1a
      <3> QED  BY <3>1, <3>2, <2>2 DEF Els, Lone
    <2> QED  BY <2>3, <2>4
  <1>5. ASSUME NEW x \in Els(s), x # s[i] PROVE x \in Els(w)
    <2>1. PICK j \in 1..Len(s) : x = s[j]
      BY DEF Els
    <2>2. j # i /\ j \in Nat
      BY <2>1, <1>5
    <2>3. CASE j < i
      <3>1. j \in 1..Len(s) - 1
        BY <2>2, <2>3, <1>1a
      <3>2. w[j] = s[j] /\ j \in 1..Len(w)
        BY <1>1, <3>1, <2>3
      <3> QED  BY <3>2, <2>1 DEF Els
    <2>4. CASE ~(j < i)
      <3>1. j - 1 \in 1..Len(s) - 1 /\ ~(j - 1 < i) /\ (j - 1) + 1 = j
        BY <2>2, <2>4, <1>1a
      <3>2. w[j - 1] = s[(j - 1) + 1] /\ j - 1 \in 1..Len(w)
        BY <1>1, <3>1
      <3> QED  BY <3>1, <3>2, <2>1 DEF Els
    <2> QED  BY <2>3, <2>4
  <1> QED  BY <1>3, <1>4, <1>5 DEF w

LEMMA WholeIsLone ==
  ASSUME NEW list \in Seq(Entries), Whole(list)
  PROVE  Lone(list)
  BY DEF Whole, Lone

LEMMA WithoutWhole ==
  ASSUME NEW list \in Seq(Entries), Whole(list), NEW i \in 1..Len(list)
  PROVE  /\ Without(list, i) \in Seq(Entries) /\ Whole(Without(list, i))
         /\ Els(Without(list, i)) = Els(list) \ {list[i]}
  <1> DEFINE w == Without(list, i)
  <1>1. Len(w) = Len(list) - 1 /\ (\A j \in 1..Len(list) - 1 : w[j] = IF j < i THEN list[j] ELSE list[j + 1])
    BY WithoutIs
  <1>1a. Len(list) \in Nat /\ i \in Nat
    OBVIOUS
  <1>1b. w \in Seq(Entries)
    BY WithoutIs
  <1>2. Lone(w) /\ Els(w) = Els(list) \ {list[i]}
    BY WithoutLone, WholeIsLone
  <1> HIDE DEF w
  <1>3. ASSUME NEW j \in 1..Len(w), NEW k \in 1..Len(w)
        PROVE  (j < k => w[j].id > w[k].id) /\ (w[j].name = w[k].name => j = k)
    <2>1. j \in 1..Len(list) /\ j + 1 \in 1..Len(list) /\ k \in 1..Len(list) /\ k + 1 \in 1..Len(list) /\ j \in Nat /\ k \in Nat
      BY <1>1, <1>1a
    <2>2. CASE j < i /\ k < i
      BY <1>1, <2>1, <2>2 DEF Whole
    <2>3. CASE j < i /\ ~(k < i)
      <3>1. w[j] = list[j] /\ w[k] = list[k + 1]
        BY <1>1, <2>3
      <3>2. j < k + 1 /\ j # k + 1
        BY <2>1, <2>3, <1>1a
      <3> QED  BY <3>1, <3>2, <2>1 DEF Whole
    <2>4. CASE ~(j < i) /\ k < i
      <3>1. w[j] = list[j + 1] /\ w[k] = list[k]
        BY <1>1, <2>4
      <3>2. ~(j < k) /\ j + 1 # k
        BY <2>1, <2>4, <1>1a
      <3> QED  BY <3>1, <3>2, <2>1 DEF Whole
    <2>5. CASE ~(j < i) /\ ~(k < i)
      <3>1. w[j] = list[j + 1] /\ w[k] = list[k + 1]
        BY <1>1, <2>5
      <3>2. (j < k => j + 1 < k + 1) /\ (j + 1 = k + 1 => j = k)
        BY <2>1
      <3>3. (j + 1 < k + 1 => list[j + 1].id > list[k + 1].id) /\ (list[j + 1].name = list[k + 1].name => j + 1 = k + 1)
        BY <2>1 DEF Whole
      <3> QED  BY <3>1, <3>2, <3>3
    <2> QED  BY <2>2, <2>3, <2>4, <2>5
  <1>4. Whole(w)
    BY <1>3 DEF Whole
  <1> QED  BY <1>1b, <1>2, <1>4 DEF w

LEMMA SameSequence ==
  ASSUME NEW S, NEW s \in Seq(S), NEW t \in Seq(S), Len(s) = Len(t), \A i \in 1..Len(s) : s[i] = t[i]
  PROVE  s = t
  BY SeqEqual

LEMMA TailIs ==
  ASSUME NEW S, NEW s \in Seq(S), s # <<>>
  PROVE  Tail(s) = Without(s, 1) /\ Head(s) = s[1] /\ 1 \in 1..Len(s)
  <1>1. Len(s) \in Nat /\ Len(s) > 0
    BY EmptySeq
  <1>2. 1 \in 1..Len(s)
    BY <1>1
  <1>3. Tail(s) \in Seq(S) /\ Len(Tail(s)) = Len(s) - 1 /\ \A i \in 1..Len(s) - 1 : Tail(s)[i] = s[i + 1]
    BY HeadTailProperties
  <1>4. Without(s, 1) \in Seq(S) /\ Len(Without(s, 1)) = Len(s) - 1
        /\ \A j \in 1..Len(s) - 1 : Without(s, 1)[j] = IF j < 1 THEN s[j] ELSE s[j + 1]
    BY <1>2, WithoutIs
  <1>5. \A j \in 1..Len(s) - 1 : Without(s, 1)[j] = s[j + 1]
    BY <1>4
  <1>6. Tail(s) = Without(s, 1)
    BY <1>3, <1>4, <1>5, SameSequence
  <1> QED  BY <1>2, <1>6

-----------------------------------------------------------------------------
(* Needs.                                                                   *)

\* The entries of a list: each number once.
Apart(els) == \A e, f \in els : e.id = f.id => e = f

LEMMA WholeApart ==
  ASSUME NEW list \in Seq(Entries), Whole(list)
  PROVE  Apart(Els(list))
  BY Distinct DEF Apart

\* What was there and was noted stays.
LEMMA NeedStays ==
  ASSUME NEW els, NEW deps, NEW more, NEW noted, els \subseteq more, deps \subseteq noted, NEW id, NEW n,
         HasNeed(els, deps, id, n)
  PROVE  HasNeed(more, noted, id, n)
  BY DEF HasNeed

\* Entry x goes, that nobody else needs.
Goes(x, els, deps) == x \in els /\ \A d \in deps : d.needed = x.id => d.needing = x.id
LeftBy(x, deps) == {d \in deps : d.needing # x.id}

LEMMA NeedOfOther ==
  ASSUME NEW els, NEW deps, NEW x, Goes(x, els, deps), NEW id, id # x.id, NEW n, HasNeed(els, deps, id, n)
  PROVE  HasNeed(els \ {x}, LeftBy(x, deps), id, n)
  <1>1. PICK f \in els : f.name = n /\ Dep(id, f.id) \in deps
    BY DEF HasNeed
  <1>2. Dep(id, f.id).needing = id /\ Dep(id, f.id).needed = f.id
    BY DEF Dep
  <1>3. f # x
    BY <1>1, <1>2 DEF Goes
  <1>4. Dep(id, f.id) \in LeftBy(x, deps)
    BY <1>1, <1>2 DEF LeftBy
  <1> QED  BY <1>1, <1>3, <1>4 DEF HasNeed

LEMMA KnownWithout ==
  ASSUME NEW els, NEW deps, NEW x, Goes(x, els, deps), Known(els, deps)
  PROVE  Known(els \ {x}, LeftBy(x, deps))
  <1> SUFFICES ASSUME NEW d \in LeftBy(x, deps)
               PROVE  \E e, f \in els \ {x} : e.id = d.needing /\ f.id = d.needed /\ f.name \in Range(Needs[e.name])
    BY DEF Known
  <1>1. d \in deps /\ d.needing # x.id
    BY DEF LeftBy
  <1>2. PICK e \in els, f \in els : e.id = d.needing /\ f.id = d.needed /\ f.name \in Range(Needs[e.name])
    BY <1>1 DEF Known
  <1>3. d.needed # x.id
    BY <1>1 DEF Goes
  <1>4. e # x /\ f # x
    BY <1>1, <1>2, <1>3
  <1> QED  BY <1>2, <1>4

LEMMA ServedWithout ==
  ASSUME NEW els, NEW deps, NEW x, Goes(x, els, deps), Apart(els), NEW starting, Served(els, deps, starting),
         NEW still, starting \subseteq still \cup {x.id}
  PROVE  Served(els \ {x}, LeftBy(x, deps), still)
  <1> SUFFICES ASSUME NEW e \in els \ {x}, e.id \notin still, NEW n \in Range(Needs[e.name])
               PROVE  HasNeed(els \ {x}, LeftBy(x, deps), e.id, n)
    BY DEF Served
  <1>1. e.id # x.id
    BY DEF Apart, Goes
  <1>2. HasNeed(els, deps, e.id, n)
    BY <1>1 DEF Served
  <1> QED  BY <1>1, <1>2, NeedOfOther

LEMMA SoundWithout ==
  ASSUME NEW els, NEW deps, NEW x, Goes(x, els, deps), NEW hooks, NEW fewer, fewer \subseteq hooks, NEW a,
         Sound(a, els, deps, hooks), Starts(a) => a.id # x.id
  PROVE  Sound(a, els \ {x}, LeftBy(x, deps), fewer)
  <1>1. LeftBy(x, deps) \subseteq deps
    BY DEF LeftBy
  <1>2. ASSUME Starts(a)
        PROVE  Started(a, els \ {x}, LeftBy(x, deps), fewer)
    <2>1. Started(a, els, deps, hooks) /\ a.id # x.id
      BY <1>2 DEF Sound
    <2>2. ModuleEntry(a.id, a.name).id = a.id
      BY DEF ModuleEntry
    <2>3. ModuleEntry(a.id, a.name) \in els \ {x}
      BY <2>1, <2>2 DEF Started
    <2>4. ASSUME NEW j \in 1..Len(Needs[a.name]), j < a.k
          PROVE  HasNeed(els \ {x}, LeftBy(x, deps), a.id, Needs[a.name][j])
      <3>1. HasNeed(els, deps, a.id, Needs[a.name][j])
        BY <2>1, <2>4 DEF Started
      <3> QED  BY <3>1, <2>1, NeedOfOther
    <2>5. a.id \notin fewer /\ \A d \in LeftBy(x, deps) : d.needed = a.id => d.needing >= a.id
      BY <1>1, <2>1 DEF Started
    <2> QED  BY <2>3, <2>4, <2>5 DEF Started
  <1>3. a.kind = "unload" => Asked(a, LeftBy(x, deps)) /\ a.phase = "script"
    BY <1>1 DEF Sound, Asked
  <1> QED  BY <1>2, <1>3 DEF Sound

LEMMA HooksWithout ==
  ASSUME NEW els, NEW x, NEW hooks, Hooks(els, hooks), NEW fewer, fewer \subseteq hooks, x.id \notin fewer
  PROVE  Hooks(els \ {x}, fewer)
  BY DEF Hooks

\* More are there, and more is noted.
LEMMA SoundMore ==
  ASSUME NEW els, NEW more, els \subseteq more, NEW deps, NEW hooks, NEW a, Sound(a, els, deps, hooks)
  PROVE  Sound(a, more, deps, hooks)
  <1>1. ASSUME Starts(a)
        PROVE  Started(a, more, deps, hooks)
    <2>1. Started(a, els, deps, hooks)
      BY <1>1 DEF Sound
    <2>2. ASSUME NEW j \in 1..Len(Needs[a.name]), j < a.k
          PROVE  HasNeed(more, deps, a.id, Needs[a.name][j])
      <3>1. HasNeed(els, deps, a.id, Needs[a.name][j])
        BY <2>1, <2>2 DEF Started
      <3> QED  BY <3>1, NeedStays
    <2> QED  BY <2>1, <2>2 DEF Started
  <1> QED  BY <1>1 DEF Sound

-----------------------------------------------------------------------------
(* What runs.                                                               *)

LEMMA BeginsIs ==
  ASSUME NEW stack, NEW x
  PROVE  x \in Begins(stack) <=> \E i \in 1..Len(stack) : Starts(stack[i]) /\ stack[i].id = x
  BY DEF Begins

LEMMA ActTyped ==
  ASSUME NEW a \in Acts
  PROVE  a.id \in Nat /\ a.k \in Nat /\ a.since \in Nat /\ a.other \in Nat /\ Mark(a) \in Nat
         /\ a.kind \in Kinds /\ a.phase \in Phases
  BY DEF Acts, Mark

\* One more begins.
LEMMA PushIs ==
  ASSUME NEW stack \in Seq(Acts), NEW a \in Acts
  PROVE  /\ Append(stack, a) \in Seq(Acts) /\ Len(Append(stack, a)) = Len(stack) + 1
         /\ \A i \in 1..Len(stack) : Append(stack, a)[i] = stack[i]
         /\ Append(stack, a)[Len(stack) + 1] = a
         /\ \A i \in 1..Len(stack) + 1 : i \in 1..Len(stack) \/ i = Len(stack) + 1
  BY AppendProperties

LEMMA PushStacked ==
  ASSUME NEW stack \in Seq(Acts), NEW made \in Nat, Stacked(stack, made), NEW more \in Nat, made <= more,
         NEW a \in Acts, Mark(a) <= more, a.kind = "load" => a.id > made, a.kind = "hook" => stack = <<>>,
         Starts(a) => a.phase = "start",
         stack # <<>> /\ Starts(stack[Len(stack)]) => stack[Len(stack)].phase = "start" /\ Waits(stack[Len(stack)])
  PROVE  Stacked(Append(stack, a), more)
  <1> DEFINE new == Append(stack, a)
             n == Len(stack)
  <1>1. /\ new \in Seq(Acts) /\ Len(new) = n + 1
        /\ (\A i \in 1..n : new[i] = stack[i]) /\ new[n + 1] = a
        /\ (\A i \in 1..n + 1 : i \in 1..n \/ i = n + 1)
    BY PushIs
  <1>2. n \in Nat /\ (stack # <<>> <=> n > 0)
    BY EmptySeq
  <1>3. \A i \in 1..n : Mark(stack[i]) \in Nat /\ Mark(stack[i]) <= made
    BY ElementOf, ActTyped DEF Stacked
  <1>4. a.id \in Nat /\ Mark(a) \in Nat
    BY ActTyped
  <1> HIDE DEF new, n
  <1>5. \A i \in 1..n + 1 : Mark(new[i]) <= more
    <2> SUFFICES ASSUME NEW i \in 1..n + 1 PROVE Mark(new[i]) <= more
      OBVIOUS
    <2>1. CASE i \in 1..n
      <3>1. new[i] = stack[i] /\ Mark(stack[i]) \in Nat /\ Mark(stack[i]) <= made
        BY <1>1, <1>3, <2>1
      <3>2. Mark(stack[i]) <= more
        BY <3>1
      <3> QED  BY <3>1, <3>2
    <2> QED  BY <1>1, <2>1
  <1>6. ASSUME NEW i \in 1..n + 1, NEW j \in 1..n + 1, i < j, new[j].kind = "load"
        PROVE  new[j].id > Mark(new[i])
    <2>1. i \in 1..n
      BY <1>2, <1>6
    <2>2. CASE j \in 1..n
      BY <1>1, <1>6, <2>1, <2>2 DEF Stacked, n
    <2>3. CASE j = n + 1
      <3>1. a.id > made
        BY <1>1, <1>6, <2>3
      <3>2. a.id > Mark(stack[i])
        BY <3>1, <1>3, <1>4, <2>1
      <3> QED  BY <3>2, <1>1, <2>1, <2>3
    <2> QED  BY <1>1, <2>2, <2>3
  <1>7. ASSUME NEW i \in 1..n + 1, new[i].kind = "hook"
        PROVE  i = 1
    <2>1. CASE i \in 1..n
      BY <1>1, <1>7, <2>1 DEF Stacked, n
    <2>2. CASE i = n + 1
      <3>1. ~(n > 0)
        BY <1>1, <1>2, <1>7, <2>2
      <3> QED  BY <3>1, <1>2, <2>2
    <2> QED  BY <1>1, <2>1, <2>2
  <1>8. ASSUME NEW i \in 1..n + 1, Starts(new[i]), i < n + 1
        PROVE  new[i].phase = "start" /\ Waits(new[i])
    <2>1. i \in 1..n /\ n > 0 /\ (i < n \/ i = n)
      BY <1>2, <1>8
    <2>2. Starts(stack[i]) /\ new[i] = stack[i]
      BY <1>1, <1>8, <2>1
    <2>3. CASE i < n
      BY <2>1, <2>2, <2>3 DEF Stacked, n
    <2>4. CASE i = n
      BY <1>2, <2>1, <2>2, <2>4 DEF n
    <2> QED  BY <2>1, <2>3, <2>4
  <1>9. ASSUME NEW i \in 1..n + 1, Starts(new[i])
        PROVE  new[i].phase = "start"
    <2>1. CASE i < n + 1
      BY <1>8, <1>9, <2>1
    <2>2. CASE i = n + 1
      BY <1>1, <1>9, <2>2
    <2> QED  BY <1>2, <2>1, <2>2
  <1>10. Stacked(new, more)
    BY <1>1, <1>5, <1>6, <1>7, <1>8, <1>9 DEF Stacked
  <1> QED  BY <1>10 DEF new

LEMMA PushBegins ==
  ASSUME NEW stack \in Seq(Acts), NEW a \in Acts
  PROVE  Begins(Append(stack, a)) = Begins(stack) \cup (IF Starts(a) THEN {a.id} ELSE {})
  <1> DEFINE new == Append(stack, a)
             n == Len(stack)
  <1>1. /\ Len(new) = n + 1 /\ (\A i \in 1..n : new[i] = stack[i]) /\ new[n + 1] = a
        /\ (\A i \in 1..n + 1 : i \in 1..n \/ i = n + 1)
    BY PushIs
  <1>2. n \in Nat
    OBVIOUS
  <1> HIDE DEF new
  <1>3. ASSUME NEW x \in Begins(new) PROVE x \in Begins(stack) \cup (IF Starts(a) THEN {a.id} ELSE {})
    BY <1>1, <1>3, BeginsIs
  <1>4. ASSUME NEW x \in Begins(stack) PROVE x \in Begins(new)
    <2>1. PICK i \in 1..n : Starts(stack[i]) /\ stack[i].id = x
      BY <1>4, BeginsIs
    <2>2. i \in 1..n + 1
      BY <1>2
    <2> QED  BY <1>1, <2>1, <2>2, BeginsIs
  <1>5. ASSUME Starts(a) PROVE a.id \in Begins(new)
    <2>1. n + 1 \in 1..n + 1
      BY <1>2
    <2> QED  BY <1>1, <1>5, <2>1, BeginsIs
  <1> QED  BY <1>3, <1>4, <1>5 DEF new

\* The innermost has ended.
LEMMA PopIs ==
  ASSUME NEW stack \in Seq(Acts), stack # <<>>
  PROVE  /\ Front(stack) \in Seq(Acts) /\ Len(Front(stack)) = Len(stack) - 1
         /\ (\A i \in 1..Len(stack) - 1 : Front(stack)[i] = stack[i])
         /\ Len(stack) \in Nat /\ Len(stack) > 0 /\ Last(stack) = stack[Len(stack)] /\ stack[Len(stack)] \in Acts
         /\ (\A i \in 1..Len(stack) : i \in 1..Len(stack) - 1 \/ i = Len(stack))
  <1>1. Len(stack) \in Nat /\ Len(stack) > 0
    BY EmptySeq
  <1>2. Len(stack) \in 1..Len(stack)
    BY <1>1
  <1>3. 1 \in Int /\ Len(stack) - 1 \in Int /\ (\A i \in 1..Len(stack) - 1 : stack[i] \in Acts)
        /\ (1 <= Len(stack) - 1 \/ Len(stack) - 1 = 0)
    <2>1. \A i \in 1..Len(stack) - 1 : i \in 1..Len(stack)
      BY <1>1
    <2>2a. \A n \in Nat : n > 0 => 1 <= n - 1 \/ n - 1 = 0
      OBVIOUS
    <2>2. 1 <= Len(stack) - 1 \/ Len(stack) - 1 = 0
      BY <1>1, <2>2a
    <2> QED  BY <1>1, <2>1, <2>2, ElementOf
  <1>4. Front(stack) \in Seq(Acts) /\ Len(Front(stack)) = Len(stack) - 1 /\ \A i \in 1..Len(stack) - 1 : Front(stack)[i] = stack[i]
    <2>1. Front(stack) \in Seq(Acts) /\ Len(Front(stack)) = (IF 1 <= Len(stack) - 1 THEN Len(stack) - 1 - 1 + 1 ELSE 0)
          /\ \A i \in 1..Len(stack) - 1 - 1 + 1 : Front(stack)[i] = stack[1 + i - 1]
      BY <1>3, SubSeqProperties DEF Front
    <2>2. Len(stack) - 1 - 1 + 1 = Len(stack) - 1 /\ \A i \in 1..Len(stack) - 1 : 1 + i - 1 = i
      BY <1>1
    <2> QED  BY <2>1, <2>2, <1>3
  <1> QED  BY <1>1, <1>2, <1>4, ElementOf DEF Last

\* b is a, but for how its start goes on.
Alike(a, b) ==
  /\ b.kind = a.kind /\ b.id = a.id /\ b.name = a.name /\ b.k = a.k /\ b.since = a.since
  /\ b.phase = a.phase \/ (Starts(a) /\ b.phase \in {"failed", "loaded"})

LEMMA AlikeSame ==
  ASSUME NEW a, NEW b, Alike(a, b)
  PROVE  /\ Starts(a) <=> Starts(b)
         /\ Mark(a) = Mark(b) /\ (Waits(a) <=> Waits(b))
         /\ \A els, deps, hooks : Sound(a, els, deps, hooks) => Sound(b, els, deps, hooks)
  <1>1. Starts(a) <=> Starts(b)
    BY DEF Alike, Starts
  <1>2. Mark(a) = Mark(b) /\ (Waits(a) <=> Waits(b))
    BY DEF Alike, Mark, Waits
  <1>3. ASSUME NEW els, NEW deps, NEW hooks, Sound(a, els, deps, hooks)
        PROVE  Sound(b, els, deps, hooks)
    <2>1. Starts(b) => Started(b, els, deps, hooks)
      BY <1>1, <1>3 DEF Alike, Sound, Started
    <2>2. b.kind = "unload" => Asked(b, deps) /\ b.phase = "script"
      BY <1>3 DEF Alike, Sound, Asked, Starts
    <2> QED  BY <2>1, <2>2 DEF Sound
  <1> QED  BY <1>1, <1>2, <1>3

\* The stack without the innermost, which may tell the one it was run for how it ended.
Popped(stack, rest) ==
  /\ rest \in Seq(Acts) /\ Len(rest) = Len(stack) - 1
  /\ \A i \in 1..Len(stack) - 1 : Alike(stack[i], rest[i]) /\ (i < Len(stack) - 1 => rest[i] = stack[i])

LEMMA FrontPopped ==
  ASSUME NEW stack \in Seq(Acts), stack # <<>>
  PROVE  Popped(stack, Front(stack))
  BY PopIs DEF Popped, Alike

LEMMA ToldPopped ==
  ASSUME NEW stack \in Seq(Acts), stack # <<>>, NEW phase \in {"failed", "loaded"}
  PROVE  Popped(stack, Told(Front(stack), phase))
  <1> DEFINE f == Front(stack)
             n == Len(f)
  <1>1. f \in Seq(Acts) /\ n = Len(stack) - 1 /\ (\A i \in 1..Len(stack) - 1 : f[i] = stack[i])
    BY PopIs
  <1>2. CASE f # <<>> /\ Last(f).kind = "load" /\ Last(f).phase = "start"
    <2>1. n \in Nat /\ n > 0 /\ Last(f) = f[n] /\ n \in 1..n
      BY <1>1, <1>2, EmptySeq DEF Last
    <2>2. f[n] \in Acts
      BY <1>1, <2>1, ElementOf
    <2> DEFINE g == [f EXCEPT ![n].phase = phase]
    <2>3. Told(f, phase) = g
      BY <1>2 DEF Told
    <2>4. [f[n] EXCEPT !.phase = phase] \in Acts
      BY <2>2 DEF Acts, Phases
    <2>5. g \in Seq(Acts) /\ Len(g) = n
      BY <1>1, <2>1, <2>4
    <2>6. \A i \in 1..n : g[i] = IF i = n THEN [f[n] EXCEPT !.phase = phase] ELSE f[i]
      BY <1>1, <2>1
    <2>7. Alike(f[n], [f[n] EXCEPT !.phase = phase])
      <3>1. f[n].kind = "load" /\ f[n].phase = "start"
        BY <1>2, <2>1
      <3> QED  BY <2>2, <3>1 DEF Acts, Alike, Starts
    <2>8. \A i \in 1..n : Alike(f[i], f[i])
      BY DEF Alike
    <2> HIDE DEF g, f, n
    <2>9. \A i \in 1..n : Alike(f[i], g[i]) /\ (i < n => g[i] = f[i])
      BY <2>1, <2>6, <2>7, <2>8
    <2>10. \A i \in 1..n : Alike(stack[i], g[i]) /\ (i < n => g[i] = stack[i])
      BY <2>9, <1>1
    <2>11. Popped(stack, g)
      BY <1>1, <2>5, <2>10 DEF Popped
    <2> QED  BY <2>3, <2>11 DEF f
  <1>3. CASE ~(f # <<>> /\ Last(f).kind = "load" /\ Last(f).phase = "start")
    <2>1. Told(f, phase) = f
      BY <1>3 DEF Told
    <2> QED  BY <2>1, FrontPopped
  <1> QED  BY <1>2, <1>3

LEMMA PoppedStacked ==
  ASSUME NEW stack \in Seq(Acts), stack # <<>>, NEW made \in Nat, Stacked(stack, made), NEW rest, Popped(stack, rest)
  PROVE  Stacked(rest, made)
  <1> DEFINE n == Len(stack)
  <1>1. n \in Nat /\ n > 0
    BY PopIs
  <1>2. Len(rest) = n - 1 /\ \A i \in 1..n - 1 : Alike(stack[i], rest[i]) /\ (i < n - 1 => rest[i] = stack[i])
    BY DEF Popped
  <1>3. \A i \in 1..n - 1 : /\ Starts(stack[i]) <=> Starts(rest[i])
                            /\ Mark(stack[i]) = Mark(rest[i]) /\ (Waits(stack[i]) <=> Waits(rest[i]))
                            /\ stack[i].id = rest[i].id /\ stack[i].kind = rest[i].kind
    BY <1>2, AlikeSame DEF Alike
  <1>4. \A i \in 1..n - 1 : i \in 1..n /\ i < n
    BY <1>1
  <1>5. \A i \in 1..n - 1 : Starts(stack[i]) => stack[i].phase = "start" /\ Waits(stack[i])
    BY <1>4 DEF Stacked
  <1>6. \A i \in 1..n - 1 : Mark(rest[i]) <= made /\ (rest[i].kind = "hook" => i = 1)
    BY <1>3, <1>4 DEF Stacked
  <1>7. \A i, j \in 1..n - 1 : i < j /\ rest[j].kind = "load" => rest[j].id > Mark(rest[i])
    BY <1>3, <1>4 DEF Stacked
  <1>8. \A i \in 1..n - 1 : Starts(rest[i]) => Waits(rest[i]) /\ (i < n - 1 => rest[i].phase = "start")
    BY <1>2, <1>3, <1>5
  <1> HIDE DEF n
  <1> QED  BY <1>2, <1>6, <1>7, <1>8 DEF Stacked

LEMMA PoppedBegins ==
  ASSUME NEW stack \in Seq(Acts), stack # <<>>, NEW rest, Popped(stack, rest)
  PROVE  /\ Begins(rest) \subseteq Begins(stack)
         /\ \A x \in Begins(stack) : x \in Begins(rest) \/ (Starts(stack[Len(stack)]) /\ x = stack[Len(stack)].id)
  <1> DEFINE n == Len(stack)
  <1>1. n \in Nat /\ n > 0 /\ (\A i \in 1..n : i \in 1..n - 1 \/ i = n)
    BY PopIs
  <1>2. Len(rest) = n - 1 /\ \A i \in 1..n - 1 : Alike(stack[i], rest[i])
    BY DEF Popped
  <1>3. \A i \in 1..n - 1 : (Starts(stack[i]) <=> Starts(rest[i])) /\ stack[i].id = rest[i].id
    BY <1>2, AlikeSame DEF Alike
  <1>4. \A i \in 1..n - 1 : i \in 1..n
    BY <1>1
  <1> HIDE DEF n
  <1>5. ASSUME NEW x \in Begins(rest) PROVE x \in Begins(stack)
    <2>1. PICK i \in 1..n - 1 : Starts(rest[i]) /\ rest[i].id = x
      BY <1>2, <1>5, BeginsIs
    <2>2. i \in 1..n /\ Starts(stack[i]) /\ stack[i].id = x
      BY <1>3, <1>4, <2>1
    <2> QED  BY <2>2, BeginsIs DEF n
  <1>6. ASSUME NEW x \in Begins(stack)
        PROVE  x \in Begins(rest) \/ (Starts(stack[n]) /\ x = stack[n].id)
    <2>1. PICK i \in 1..n : Starts(stack[i]) /\ stack[i].id = x
      BY <1>6, BeginsIs DEF n
    <2>2. CASE i \in 1..n - 1
      BY <1>2, <1>3, <2>1, <2>2, BeginsIs
    <2> QED  BY <1>1, <2>1, <2>2
  <1> QED  BY <1>5, <1>6 DEF n

\* The innermost goes on.
Replaced(stack, b) == [stack EXCEPT ![Len(stack)] = b]

LEMMA ReplacedIs ==
  ASSUME NEW stack \in Seq(Acts), stack # <<>>, NEW b \in Acts
  PROVE  /\ Replaced(stack, b) \in Seq(Acts) /\ Len(Replaced(stack, b)) = Len(stack)
         /\ \A i \in 1..Len(stack) : Replaced(stack, b)[i] = IF i = Len(stack) THEN b ELSE stack[i]
  <1>1. Len(stack) \in Nat /\ Len(stack) > 0
    BY EmptySeq
  <1>2. Len(stack) \in 1..Len(stack)
    BY <1>1
  <1> QED  BY <1>1, <1>2 DEF Replaced

LEMMA ReplacedStacked ==
  ASSUME NEW stack \in Seq(Acts), stack # <<>>, NEW made \in Nat, Stacked(stack, made), NEW b \in Acts,
         b.kind = stack[Len(stack)].kind, b.id = stack[Len(stack)].id, b.since = stack[Len(stack)].since,
         b.phase \in {"start", "script"}
  PROVE  Stacked(Replaced(stack, b), made)
  <1> DEFINE n == Len(stack)
             new == Replaced(stack, b)
  <1>1. n \in Nat /\ n > 0
    BY EmptySeq
  <1>2. Len(new) = n /\ \A i \in 1..n : new[i] = IF i = n THEN b ELSE stack[i]
    BY ReplacedIs
  <1> HIDE DEF new
  <1>3. \A i \in 1..n : Mark(new[i]) = Mark(stack[i]) /\ new[i].id = stack[i].id /\ new[i].kind = stack[i].kind
    BY <1>2 DEF Mark
  <1>4. \A i \in 1..n : Mark(new[i]) <= made /\ (new[i].kind = "hook" => i = 1)
    BY <1>3 DEF Stacked
  <1>5. \A i, j \in 1..n : i < j /\ new[j].kind = "load" => new[j].id > Mark(new[i])
    BY <1>3 DEF Stacked
  <1>6. \A i \in 1..n : i < n => new[i] = stack[i]
    BY <1>1, <1>2
  <1>7. \A i \in 1..n : Starts(new[i]) /\ i < n => new[i].phase = "start" /\ Waits(new[i])
    BY <1>6 DEF Stacked
  <1>8. \A i \in 1..n : i < n \/ i = n
    BY <1>1
  <1>9. \A i \in 1..n : Starts(new[i]) => new[i].phase = "start"
    BY <1>2, <1>7, <1>8 DEF Starts
  <1> HIDE DEF n
  <1>10. Stacked(new, made)
    BY <1>2, <1>4, <1>5, <1>7, <1>9 DEF Stacked
  <1> QED  BY <1>10 DEF new

LEMMA ReplacedBegins ==
  ASSUME NEW stack \in Seq(Acts), stack # <<>>, NEW b \in Acts, b.id = stack[Len(stack)].id
  PROVE  \A x \in Begins(stack) : x \in Begins(Replaced(stack, b)) \/ (x = b.id /\ ~Starts(b))
  <1> DEFINE n == Len(stack)
             new == Replaced(stack, b)
  <1>2. Len(new) = n /\ \A i \in 1..n : new[i] = IF i = n THEN b ELSE stack[i]
    BY ReplacedIs
  <1> HIDE DEF new
  <1> SUFFICES ASSUME NEW x \in Begins(stack)
               PROVE  x \in Begins(new) \/ (x = b.id /\ ~Starts(b))
    BY DEF new
  <1>3. PICK i \in 1..n : Starts(stack[i]) /\ stack[i].id = x
    BY BeginsIs
  <1>4. CASE i = n
    BY <1>2, <1>3, <1>4, BeginsIs
  <1>5. CASE i # n
    BY <1>2, <1>3, <1>5, BeginsIs
  <1> QED  BY <1>4, <1>5

\* Of a start there is one act, and the others have other numbers.
LEMMA YoungerThanAll ==
  ASSUME NEW stack \in Seq(Acts), stack # <<>>, NEW made \in Nat, Stacked(stack, made), stack[Len(stack)].kind = "load",
         NEW i \in 1..Len(stack), i < Len(stack)
  PROVE  stack[Len(stack)].id > Mark(stack[i]) /\ (Starts(stack[i]) => stack[Len(stack)].id # stack[i].id)
  <1>1. Len(stack) \in 1..Len(stack)
    BY PopIs
  <1>2. stack[Len(stack)].id > Mark(stack[i])
    BY <1>1 DEF Stacked
  <1>3. stack[i] \in Acts
    BY ElementOf
  <1>4. Mark(stack[i]) \in Nat
    BY <1>3, ActTyped
  <1>5. Starts(stack[i]) => Mark(stack[i]) = stack[i].id
    BY DEF Starts, Mark
  <1>6. \A x \in Nat : ~(x > x)
    OBVIOUS
  <1> QED  BY <1>2, <1>4, <1>5, <1>6

-----------------------------------------------------------------------------
(* What is loaded at first.                                                 *)

LEMMA LeastOfMany ==
  ASSUME NEW S, S \subseteq Nat, S # {}
  PROVE  \E x \in S : \A y \in S : x <= y
  <1>1. PICK x \in S : \A y \in S : ~(<<y, x>> \in OpToRel(<, Nat))
    BY NatLessThanWellFounded, WFMin
  <1>2. \A y \in S : x <= y
    <2> SUFFICES ASSUME NEW y \in S PROVE x <= y
      OBVIOUS
    <2>1. ~(y < x)
      BY <1>1 DEF OpToRel
    <2> QED  BY <2>1
  <1> QED  BY <1>2

HookPiece(i) == IF AtFirst[i] \in Hooked THEN <<i>> ELSE <<>>
FirstHooks(f, n) == f = [i \in 0..n |-> IF i <= 1 THEN <<>> ELSE HookPiece(i) \o f[i - 1]]
HooksOK(f, n) == \A i \in 0..n : f[i] \in Seq(Nat) /\ Els(f[i]) \subseteq 2..i /\ Lone(f[i])

LEMMA HooksGrow ==
  ASSUME NEW s \in Seq(Nat), NEW x \in Nat, x \notin Els(s), Lone(s)
  PROVE  <<x>> \o s \in Seq(Nat) /\ Els(<<x>> \o s) = Els(s) \cup {x} /\ Lone(<<x>> \o s)
  <1> DEFINE new == <<x>> \o s
  <1>1. new \in Seq(Nat) /\ Len(new) = Len(s) + 1 /\ new[1] = x /\ (\A i \in 1..Len(s) : new[i + 1] = s[i])
    BY ConcatProperties
  <1>1a. Len(s) \in Nat
    OBVIOUS
  <1>2. \A i \in 1..Len(new) : i = 1 \/ (i - 1 \in 1..Len(s) /\ new[i] = s[i - 1])
    BY <1>1, <1>1a
  <1> HIDE DEF new
  <1>3. Els(new) = Els(s) \cup {x}
    <2>1. ASSUME NEW y \in Els(new) PROVE y \in Els(s) \cup {x}
      <3>1. PICK i \in 1..Len(new) : y = new[i]
        BY <2>1 DEF Els
      <3>2. CASE i = 1
        BY <1>1, <3>1, <3>2
      <3>3. CASE i # 1
        <4>1. i - 1 \in 1..Len(s) /\ y = s[i - 1]
          BY <1>2, <3>1, <3>3
        <4> QED  BY <4>1 DEF Els
      <3> QED  BY <3>2, <3>3
    <2>2. x \in Els(new)
      BY <1>1, <1>1a DEF Els
    <2>3. \A i \in 1..Len(s) : i + 1 \in 1..Len(new)
      BY <1>1, <1>1a
    <2>4. ASSUME NEW y \in Els(s) PROVE y \in Els(new)
      <3>1. PICK i \in 1..Len(s) : y = s[i]
        BY <2>4 DEF Els
      <3>2. i + 1 \in 1..Len(new) /\ y = new[i + 1]
        BY <1>1, <2>3, <3>1
      <3> QED  BY <3>2 DEF Els
    <2> QED  BY <2>1, <2>2, <2>4
  <1>4. ASSUME NEW i \in 1..Len(new), NEW j \in 1..Len(new), new[i] = new[j]
        PROVE  i = j
    <2>1. CASE i = 1 /\ j = 1
      BY <2>1
    <2>2. CASE i = 1 /\ j # 1
      BY <1>1, <1>2, <1>4, <2>2 DEF Els
    <2>3. CASE i # 1 /\ j = 1
      BY <1>1, <1>2, <1>4, <2>3 DEF Els
    <2>4. CASE i # 1 /\ j # 1
      <3>1. i - 1 \in 1..Len(s) /\ j - 1 \in 1..Len(s) /\ s[i - 1] = s[j - 1]
        BY <1>2, <1>4, <2>4
      <3>2. i - 1 = j - 1
        BY <3>1 DEF Lone
      <3> QED  BY <3>2
    <2> QED  BY <2>1, <2>2, <2>3, <2>4
  <1>5. Lone(new)
    BY <1>4 DEF Lone
  <1> QED  BY <1>1, <1>3, <1>5 DEF new

LEMMA EmptyHooks == <<>> \in Seq(Nat) /\ (\A i : Els(<<>>) \subseteq 2..i) /\ Lone(<<>>)
  BY DEF Els, Lone

LEMMA PieceGrows ==
  ASSUME NEW s \in Seq(Nat), NEW n \in Nat, n > 1, Els(s) \subseteq 2..(n - 1), Lone(s)
  PROVE  HookPiece(n) \o s \in Seq(Nat) /\ Els(HookPiece(n) \o s) \subseteq 2..n /\ Lone(HookPiece(n) \o s)
  <1>1. n \notin Els(s) /\ (2..(n - 1)) \subseteq 2..n /\ n \in 2..n
    OBVIOUS
  <1>2. CASE AtFirst[n] \in Hooked
    <2>1. HookPiece(n) = <<n>>
      BY <1>2 DEF HookPiece
    <2>2. Els(<<n>> \o s) = Els(s) \cup {n}
      BY <1>1, HooksGrow
    <2>3. Els(<<n>> \o s) \subseteq 2..n
      BY <1>1, <2>2
    <2> QED  BY <1>1, <2>1, <2>3, HooksGrow
  <1>3. CASE AtFirst[n] \notin Hooked
    <2>1. HookPiece(n) \o s = s
      BY <1>3 DEF HookPiece
    <2> QED  BY <1>1, <2>1
  <1> QED  BY <1>2, <1>3

LEMMA FirstHooksExist ==
  ASSUME NEW N \in Nat
  PROVE  \E f : FirstHooks(f, N)
  <1> DEFINE C == {n \in Nat : ~\E f : FirstHooks(f, n)}
  <1>1. SUFFICES ASSUME C # {} PROVE FALSE
    OBVIOUS
  <1>2. PICK n \in C : \A y \in C : n <= y
    BY <1>1, LeastOfMany
  <1>3. n \in Nat /\ ~\E f : FirstHooks(f, n)
    BY <1>2
  <1>4. CASE n = 0
    <2> DEFINE f == [i \in 0..0 |-> <<>>]
    <2>1. FirstHooks(f, 0)
      BY DEF FirstHooks
    <2> QED  BY <1>3, <1>4, <2>1
  <1>5. CASE n # 0
    <2>1. n - 1 \in Nat /\ ~(n <= n - 1)
      BY <1>3, <1>5
    <2>2. n - 1 \notin C
      BY <1>2, <2>1
    <2>3. \E f : FirstHooks(f, n - 1)
      BY <2>1, <2>2
    <2>4. PICK f : FirstHooks(f, n - 1)
      BY <2>3
    <2> DEFINE last == IF n <= 1 THEN <<>> ELSE HookPiece(n) \o f[n - 1]
               g == [i \in 0..n |-> IF i = n THEN last ELSE f[i]]
    <2>7. \A i \in 0..n : i = n \/ i \in 0..n - 1
      BY <1>3
    <2>9. \A i \in 0..n : g[i] = IF i <= 1 THEN <<>> ELSE HookPiece(i) \o g[i - 1]
      <3> SUFFICES ASSUME NEW i \in 0..n PROVE g[i] = IF i <= 1 THEN <<>> ELSE HookPiece(i) \o g[i - 1]
        OBVIOUS
      <3>1. CASE i = n
        <4>1. ~(i <= 1) => i - 1 \in 0..n /\ i - 1 # n
          BY <1>3, <3>1
        <4>2. ~(i <= 1) => g[i - 1] = f[n - 1]
          BY <4>1, <3>1
        <4> QED  BY <3>1, <4>2
      <3>2. CASE i # n
        <4>1. i \in 0..n - 1
          BY <2>7, <3>2
        <4>2. f[i] = IF i <= 1 THEN <<>> ELSE HookPiece(i) \o f[i - 1]
          BY <2>4, <4>1 DEF FirstHooks
        <4>3. ~(i <= 1) => i - 1 \in 0..n /\ i - 1 # n
          BY <1>3, <4>1
        <4>4. ~(i <= 1) => g[i - 1] = f[i - 1]
          BY <4>3
        <4> QED  BY <3>2, <4>2, <4>4
      <3> QED  BY <3>1, <3>2
    <2> HIDE DEF last
    <2>10. FirstHooks(g, n)
      BY <2>9 DEF FirstHooks
    <2> QED  BY <1>3, <2>10
  <1> QED  BY <1>4, <1>5

LEMMA FirstHooksOK ==
  ASSUME NEW N \in Nat, NEW f, FirstHooks(f, N)
  PROVE  HooksOK(f, N)
  <1> DEFINE OK(i) == f[i] \in Seq(Nat) /\ Els(f[i]) \subseteq 2..i /\ Lone(f[i])
             C == {i \in 0..N : ~OK(i)}
  <1>1. SUFFICES ASSUME C # {} PROVE FALSE
    BY DEF HooksOK
  <1>2. C \subseteq Nat
    OBVIOUS
  <1>3. PICK n \in C : \A y \in C : n <= y
    BY <1>1, <1>2, LeastOfMany
  <1>4. n \in 0..N /\ ~OK(n)
    BY <1>3
  <1>5. f[n] = IF n <= 1 THEN <<>> ELSE HookPiece(n) \o f[n - 1]
    BY <1>4 DEF FirstHooks
  <1>6. CASE n <= 1
    BY <1>4, <1>5, <1>6, EmptyHooks
  <1>7. CASE ~(n <= 1)
    <2>1. n - 1 \in 0..N /\ ~(n <= n - 1) /\ n \in Nat /\ n > 1
      BY <1>4, <1>7
    <2>2. OK(n - 1)
      BY <1>3, <2>1
    <2>3. OK(n)
      BY <1>5, <1>7, <2>1, <2>2, PieceGrows
    <2> QED  BY <1>4, <2>3
  <1> QED  BY <1>6, <1>7

LEMMA HooksOfIs ==
  ASSUME Len(AtFirst) \in Nat, Len(AtFirst) > 0
  PROVE  HooksOf[Len(AtFirst)] \in Seq(Nat) /\ Els(HooksOf[Len(AtFirst)]) \subseteq 2..Len(AtFirst) /\ Lone(HooksOf[Len(AtFirst)])
  <1>1. HooksOf = CHOOSE f : FirstHooks(f, Len(AtFirst))
    BY Zenon DEF FirstHooks, HooksOf, HookPiece
  <1>2. FirstHooks(HooksOf, Len(AtFirst))
    BY <1>1, FirstHooksExist
  <1>3. HooksOK(HooksOf, Len(AtFirst))
    BY <1>2, FirstHooksOK
  <1>4. Len(AtFirst) \in 0..Len(AtFirst)
    OBVIOUS
  <1> QED  BY <1>3, <1>4 DEF HooksOK

-----------------------------------------------------------------------------
(* What the steps do to a right list.                                       *)

\* A module is loaded: its start begins, and nothing is noted of it yet.
LEMMA LoadRight ==
  ASSUME NEW list \in Seq(Entries), NEW deps, NEW hooks \in Seq(Nat), NEW stack \in Seq(Acts), NEW made \in Nat,
         Right(list, deps, hooks, stack, made), \A e \in Els(list) : e.id \in 1..made,
         NEW m \in Mods, \A e \in Els(list) : e.name # m,
         NEW a \in Acts, a.kind = "load", a.id = made + 1, a.name = m, a.k = 1, a.phase = "start",
         stack # <<>> /\ Starts(stack[Len(stack)]) => stack[Len(stack)].phase = "start" /\ Waits(stack[Len(stack)])
  PROVE  Right(<<ModuleEntry(made + 1, m)>> \o list, deps, hooks, Append(stack, a), made + 1)
  <1> DEFINE e0 == ModuleEntry(made + 1, m)
             more == Els(list) \cup {e0}
             new == Append(stack, a)
             n == Len(stack)
  <1>1. e0 \in Entries /\ e0.id = made + 1 /\ e0.name = m
    BY DEF Entries, ModuleEntry
  <1>2. \A e \in Els(list) : e.id < e0.id /\ e.id # e0.id
    <2>1. \A x \in 1..made : x < made + 1 /\ x # made + 1
      OBVIOUS
    <2> QED  BY <1>1, <2>1
  <1> HIDE DEF e0
  <1>3. Whole(<<e0>> \o list) /\ Els(<<e0>> \o list) = more
    BY <1>1, <1>2, Prepended DEF Right
  <1>4. Els(list) \subseteq more
    OBVIOUS
  <1> HIDE DEF more
  <1>5. Known(more, deps)
    BY <1>4 DEF Right, Known
  <1>6. Starts(a)
    BY DEF Starts
  <1>7. Begins(new) = Begins(stack) \cup {made + 1}
    BY <1>6, PushBegins
  <1>8. Served(more, deps, Begins(new))
    <2> SUFFICES ASSUME NEW e \in more, e.id \notin Begins(new), NEW x \in Range(Needs[e.name])
                 PROVE  HasNeed(more, deps, e.id, x)
      BY DEF Served
    <2>1. e # e0
      BY <1>1, <1>7
    <2>2. e \in Els(list) /\ e.id \notin Begins(stack)
      BY <2>1, <1>7 DEF more
    <2>3. HasNeed(Els(list), deps, e.id, x)
      BY <2>2 DEF Right, Served
    <2> QED  BY <2>3, <1>4, NeedStays
  <1>9. Hooks(more, Els(hooks))
    BY <1>4 DEF Right, Hooks
  <1>10. Sound(a, more, deps, Els(hooks))
    <2>1. ModuleEntry(a.id, a.name) \in more
      BY DEF more, e0
    <2>2. \A j \in 1..Len(Needs[a.name]) : ~(j < a.k)
      OBVIOUS
    <2>3. a.id \notin Els(hooks)
      BY <1>1, <1>2 DEF Right, Hooks
    <2>4. \A d \in deps : d.needed # a.id
      BY <1>1, <1>2 DEF Right, Known
    <2>5. Started(a, more, deps, Els(hooks))
      BY <2>1, <2>2, <2>3, <2>4 DEF Started
    <2> QED  BY <2>5 DEF Sound
  <1>11. Len(new) = n + 1 /\ (\A i \in 1..n : new[i] = stack[i]) /\ new[n + 1] = a
         /\ (\A i \in 1..n + 1 : i \in 1..n \/ i = n + 1)
    BY PushIs
  <1> HIDE DEF new
  <1>12. \A i \in 1..Len(new) : Sound(new[i], more, deps, Els(hooks))
    <2> SUFFICES ASSUME NEW i \in 1..n + 1 PROVE Sound(new[i], more, deps, Els(hooks))
      BY <1>11
    <2>1. CASE i \in 1..n
      <3>1. Sound(stack[i], Els(list), deps, Els(hooks)) /\ new[i] = stack[i]
        BY <1>11, <2>1 DEF Right
      <3> QED  BY <3>1, <1>4, SoundMore
    <2> QED  BY <1>10, <1>11, <2>1
  <1>13. Stacked(new, made + 1)
    <2>1. made + 1 \in Nat /\ made <= made + 1 /\ made + 1 > made /\ made + 1 <= made + 1
      OBVIOUS
    <2>2. Mark(a) = made + 1
      BY DEF Mark
    <2>3. Stacked(stack, made)
      BY DEF Right
    <2> QED  BY <2>1, <2>2, <2>3, PushStacked DEF new
  <1>14. Right(<<e0>> \o list, deps, hooks, new, made + 1)
    <2>1. Lone(hooks)
      BY DEF Right
    <2> QED  BY <1>3, <1>5, <1>8, <1>9, <1>12, <1>13, <2>1 DEF Right
  <1> QED  BY <1>14 DEF e0, new

\* What runs last, of a stack that is right.
LEMMA TopIs ==
  ASSUME NEW stack \in Seq(Acts), stack # <<>>
  PROVE  Len(stack) \in 1..Len(stack) /\ stack[Len(stack)] \in Acts /\ Len(stack) \in Nat
  <1>1. Len(stack) \in Nat /\ Len(stack) > 0
    BY EmptySeq
  <1>2. Len(stack) \in 1..Len(stack)
    BY <1>1
  <1> QED  BY <1>1, <1>2, ElementOf

\* A start is given what it asked for.
LEMMA DependRight ==
  ASSUME NEW list \in Seq(Entries), NEW deps, NEW hooks \in Seq(Nat), NEW stack \in Seq(Acts), NEW made \in Nat,
         Right(list, deps, hooks, stack, made), stack # <<>>,
         NEW a, a = stack[Len(stack)], Starts(a), a.k \in 1..Len(Needs[a.name]),
         Needs[a.name] \in Seq(Mods),
         NEW f \in Els(list), f.name = Needs[a.name][a.k],
         NEW b \in Acts, b.kind = a.kind, b.id = a.id, b.name = a.name, b.since = a.since, b.k = a.k + 1, b.phase = "start"
  PROVE  Right(list, deps \cup {Dep(a.id, f.id)}, hooks, Replaced(stack, b), made)
  <1> DEFINE els == Els(list)
             noted == deps \cup {Dep(a.id, f.id)}
             new == Replaced(stack, b)
             n == Len(stack)
  <1>1. n \in 1..n /\ n \in Nat /\ a \in Acts
    BY TopIs
  <1>2. Len(new) = n /\ (\A i \in 1..n : new[i] = IF i = n THEN b ELSE stack[i])
    BY ReplacedIs
  <1>3. Started(a, els, deps, Els(hooks))
    BY <1>1 DEF Right, Sound
  <1>4. deps \subseteq noted /\ Dep(a.id, f.id) \in noted /\ els \subseteq els
    OBVIOUS
  <1>4a. \A d \in noted : d \in deps \/ (d.needing = a.id /\ d.needed = f.id)
    BY DEF Dep
  <1>5. Starts(b)
    BY DEF Starts
  <1> HIDE DEF els, noted, new, n
  <1>6. Known(els, noted)
    <2> SUFFICES ASSUME NEW d \in noted
                 PROVE  \E e, g \in els : e.id = d.needing /\ g.id = d.needed /\ g.name \in Range(Needs[e.name])
      BY DEF Known
    <2>1. CASE d \in deps
      BY <2>1 DEF Right, Known, els
    <2>2. CASE d.needing = a.id /\ d.needed = f.id
      <3>1. ModuleEntry(a.id, a.name) \in els
        BY <1>3 DEF Started
      <3>2. ModuleEntry(a.id, a.name).id = a.id /\ ModuleEntry(a.id, a.name).name = a.name
        BY DEF ModuleEntry
      <3>3. f.name \in Range(Needs[a.name])
        BY RangeIsEls DEF Els
      <3> QED  BY <2>2, <3>1, <3>2, <3>3 DEF els
    <2> QED  BY <1>4a, <2>1, <2>2
  <1>7. Served(els, noted, Begins(new))
    <2> SUFFICES ASSUME NEW e \in els, e.id \notin Begins(new), NEW x \in Range(Needs[e.name])
                 PROVE  HasNeed(els, noted, e.id, x)
      BY DEF Served
    <2>1. e.id \notin Begins(stack)
      BY <1>5, ReplacedBegins DEF new
    <2>2. HasNeed(els, deps, e.id, x)
      BY <2>1 DEF Right, Served, els
    <2> QED  BY <2>2, <1>4, NeedStays
  <1>8. \A i \in 1..n : Sound(new[i], els, noted, Els(hooks))
    <2> SUFFICES ASSUME NEW i \in 1..n PROVE Sound(new[i], els, noted, Els(hooks))
      OBVIOUS
    <2>1. CASE i = n
      <3>1. ModuleEntry(b.id, b.name) \in els /\ b.id \notin Els(hooks)
        BY <1>3 DEF Started
      <3>2. ASSUME NEW j \in 1..Len(Needs[b.name]), j < b.k
            PROVE  HasNeed(els, noted, b.id, Needs[b.name][j])
        <4>1. a.k \in Nat
          BY <1>1, ActTyped
        <4>2. j < a.k \/ j = a.k
          BY <3>2, <4>1
        <4>3. CASE j < a.k
          <5>1. HasNeed(els, deps, a.id, Needs[a.name][j])
            BY <1>3, <3>2, <4>3 DEF Started
          <5> QED  BY <5>1, <1>4, NeedStays
        <4>4. CASE j = a.k
          BY <1>4, <4>4 DEF HasNeed, els
        <4> QED  BY <4>2, <4>3, <4>4
      <3>3. ASSUME NEW d \in noted, d.needed = b.id PROVE d.needing >= b.id
        <4>1. a.id \in Nat
          BY <1>1, ActTyped
        <4>2. CASE d \in deps
          BY <1>3, <3>3, <4>2 DEF Started
        <4>3. CASE d.needing = a.id
          BY <4>1, <4>3
        <4> QED  BY <1>4a, <4>2, <4>3
      <3>4. Started(b, els, noted, Els(hooks))
        BY <3>1, <3>2, <3>3 DEF Started
      <3>5. b.kind # "unload"
        BY DEF Starts
      <3>6. Sound(b, els, noted, Els(hooks))
        BY <3>4, <3>5 DEF Sound
      <3> QED  BY <3>6, <2>1, <1>2
    <2>2. CASE i # n
      <3> DEFINE c == stack[i]
      <3>1. i \in 1..Len(stack) /\ i < Len(stack)
        BY <2>2, <1>1 DEF n
      <3>2. new[i] = c /\ Sound(c, els, deps, Els(hooks))
        BY <1>2, <2>2, <3>1 DEF Right, els
      <3>3. a.id > Mark(c)
        <4>1. Stacked(stack, made) /\ stack[Len(stack)].kind = "load"
          BY DEF Right, Starts
        <4> QED  BY <3>1, <4>1, YoungerThanAll
      <3>4. c \in Acts /\ Mark(c) \in Nat /\ a.id \in Nat
        BY <1>1, <3>1, ElementOf, ActTyped
      <3> HIDE DEF c
      <3>5. ASSUME Starts(c) PROVE Started(c, els, noted, Els(hooks))
        <4>1. Started(c, els, deps, Els(hooks)) /\ Mark(c) = c.id
          BY <3>2, <3>5 DEF Sound, Mark, Starts
        <4>2. a.id >= c.id
          BY <3>3, <3>4, <4>1
        <4>3. ASSUME NEW j \in 1..Len(Needs[c.name]), j < c.k
              PROVE  HasNeed(els, noted, c.id, Needs[c.name][j])
          <5>1. HasNeed(els, deps, c.id, Needs[c.name][j])
            BY <4>1, <4>3 DEF Started
          <5> QED  BY <5>1, <1>4, NeedStays
        <4>4. \A d \in noted : d.needed = c.id => d.needing >= c.id
          BY <1>4a, <4>1, <4>2 DEF Started
        <4> QED  BY <4>1, <4>3, <4>4 DEF Started
      <3>6. ASSUME c.kind = "unload" PROVE Asked(c, noted) /\ c.phase = "script"
        <4>1. Asked(c, deps) /\ c.phase = "script" /\ Mark(c) = c.since
          BY <3>2, <3>6 DEF Sound, Mark
        <4>2. a.id > c.since
          BY <3>3, <4>1
        <4> QED  BY <1>4a, <4>1, <4>2 DEF Asked
      <3> QED  BY <3>2, <3>5, <3>6 DEF Sound
    <2> QED  BY <2>1, <2>2
  <1>9. Stacked(new, made)
    <2>1. Stacked(stack, made)
      BY DEF Right
    <2> QED  BY <2>1, ReplacedStacked DEF new
  <1>10. Whole(list) /\ Hooks(els, Els(hooks)) /\ Lone(hooks)
    BY DEF Right, els
  <1>11. Right(list, noted, hooks, new, made)
    BY <1>2, <1>6, <1>7, <1>8, <1>9, <1>10 DEF Right, els
  <1> QED  BY <1>11 DEF new, noted

\* One that nobody else needs goes, with what runs last.
LEMMA GoneRight ==
  ASSUME NEW list \in Seq(Entries), NEW deps, NEW hooks \in Seq(Nat), NEW stack \in Seq(Acts), NEW made \in Nat,
         Right(list, deps, hooks, stack, made), stack # <<>>,
         NEW i \in 1..Len(list), NEW x, x = list[i], Goes(x, Els(list), deps),
         NEW fewer \in Seq(Nat), Lone(fewer), Els(fewer) \subseteq Els(hooks), x.id \notin Els(fewer),
         NEW rest, Popped(stack, rest),
         \A j \in 1..Len(stack) - 1 : Starts(stack[j]) => stack[j].id # x.id,
         Starts(stack[Len(stack)]) => stack[Len(stack)].id = x.id
  PROVE  Right(Without(list, i), LeftBy(x, deps), fewer, rest, made)
  <1> DEFINE els == Els(list) \ {x}
             left == LeftBy(x, deps)
  <1>1. Whole(Without(list, i)) /\ Els(Without(list, i)) = els
    BY WithoutWhole DEF Right
  <1>2. Known(els, left)
    BY KnownWithout DEF Right
  <1>3. Served(els, left, Begins(rest))
    <2>1. Begins(stack) \subseteq Begins(rest) \cup {x.id}
      BY PoppedBegins
    <2>2. Apart(Els(list)) /\ Served(Els(list), deps, Begins(stack))
      BY WholeApart DEF Right
    <2> QED  BY <2>1, <2>2, ServedWithout
  <1>4. Hooks(els, Els(fewer))
    BY HooksWithout DEF Right
  <1>5. Len(rest) = Len(stack) - 1 /\ \A j \in 1..Len(stack) - 1 : j \in 1..Len(stack) /\ Alike(stack[j], rest[j])
    <2>1. Len(stack) \in Nat
      BY TopIs
    <2>2. \A j \in 1..Len(stack) - 1 : j \in 1..Len(stack)
      BY <2>1
    <2> QED  BY <2>2 DEF Popped
  <1>6. ASSUME NEW j \in 1..Len(rest) PROVE Sound(rest[j], els, left, Els(fewer))
    <2>1. j \in 1..Len(stack) /\ Alike(stack[j], rest[j]) /\ (Starts(stack[j]) => stack[j].id # x.id)
      BY <1>5, <1>6
    <2>2. Sound(stack[j], Els(list), deps, Els(hooks))
      BY <2>1 DEF Right
    <2>3. Sound(stack[j], els, left, Els(fewer))
      BY <2>1, <2>2, SoundWithout
    <2> QED  BY <2>1, <2>3, AlikeSame
  <1>7. Stacked(rest, made)
    BY PoppedStacked DEF Right
  <1> HIDE DEF els, left
  <1>8. Right(Without(list, i), left, fewer, rest, made)
    BY <1>1, <1>2, <1>3, <1>4, <1>6, <1>7 DEF Right
  <1> QED  BY <1>8 DEF left

\* What ran last has ended, and it was no start.
LEMMA PopRight ==
  ASSUME NEW list \in Seq(Entries), NEW deps, NEW hooks \in Seq(Nat), NEW stack \in Seq(Acts), NEW made \in Nat,
         Right(list, deps, hooks, stack, made), stack # <<>>, NEW rest, Popped(stack, rest), ~Starts(stack[Len(stack)])
  PROVE  Right(list, deps, hooks, rest, made)
  <1>1. Len(rest) = Len(stack) - 1 /\ \A j \in 1..Len(stack) - 1 : j \in 1..Len(stack) /\ Alike(stack[j], rest[j])
    <2>1. Len(stack) \in Nat
      BY TopIs
    <2>2. \A j \in 1..Len(stack) - 1 : j \in 1..Len(stack)
      BY <2>1
    <2> QED  BY <2>2 DEF Popped
  <1>2. ASSUME NEW j \in 1..Len(rest) PROVE Sound(rest[j], Els(list), deps, Els(hooks))
    <2>1. j \in 1..Len(stack) /\ Alike(stack[j], rest[j])
      BY <1>1, <1>2
    <2>2. Sound(stack[j], Els(list), deps, Els(hooks))
      BY <2>1 DEF Right
    <2> QED  BY <2>1, <2>2, AlikeSame
  <1>3. Begins(stack) \subseteq Begins(rest)
    BY PoppedBegins
  <1>4. Served(Els(list), deps, Begins(rest))
    BY <1>3 DEF Right, Served
  <1>5. Stacked(rest, made)
    BY PoppedStacked DEF Right
  <1> QED  BY <1>2, <1>4, <1>5 DEF Right

\* What is not a load begins: an unloading of what nobody needs, or a hook, when nothing runs.
LEMMA PushRight ==
  ASSUME NEW list \in Seq(Entries), NEW deps, NEW hooks \in Seq(Nat), NEW stack \in Seq(Acts), NEW made \in Nat,
         Right(list, deps, hooks, stack, made), NEW a \in Acts, a.since = made,
         \/ a.kind = "unload" /\ a.phase = "script" /\ \A d \in deps : d.needed # a.id
         \/ a.kind = "hook" /\ stack = <<>>,
         stack # <<>> => stack[Len(stack)].phase = "script"
  PROVE  Right(list, deps, hooks, Append(stack, a), made)
  <1> DEFINE new == Append(stack, a)
             n == Len(stack)
  <1>1. Len(new) = n + 1 /\ (\A i \in 1..n : new[i] = stack[i]) /\ new[n + 1] = a
        /\ (\A i \in 1..n + 1 : i \in 1..n \/ i = n + 1)
    BY PushIs
  <1>2. ~Starts(a)
    BY DEF Starts
  <1>3. Begins(new) = Begins(stack)
    BY <1>2, PushBegins
  <1>4. Sound(a, Els(list), deps, Els(hooks))
    BY <1>2 DEF Sound, Asked
  <1> HIDE DEF new, n
  <1>5. \A i \in 1..Len(new) : Sound(new[i], Els(list), deps, Els(hooks))
    BY <1>1, <1>4 DEF Right, n
  <1>6. Stacked(new, made)
    <2>1. made <= made /\ Mark(a) = made
      BY DEF Mark
    <2>2. stack # <<>> => ~Starts(stack[Len(stack)])
      BY DEF Starts
    <2> QED  BY <1>2, <2>1, <2>2, PushStacked DEF Right, new
  <1>7. Right(list, deps, hooks, new, made)
    BY <1>3, <1>5, <1>6 DEF Right
  <1> QED  BY <1>7 DEF new

\* A start has ended well: its scripts run, and its hook may be there.
LEMMA ScriptRight ==
  ASSUME NEW list \in Seq(Entries), NEW deps, NEW hooks \in Seq(Nat), NEW stack \in Seq(Acts), NEW made \in Nat,
         Right(list, deps, hooks, stack, made), stack # <<>>,
         NEW a, a = stack[Len(stack)], Starts(a), Needs[a.name] \in Seq(Mods), a.k > Len(Needs[a.name]),
         NEW b \in Acts, b.kind = a.kind, b.id = a.id, b.name = a.name, b.since = a.since, b.phase = "script",
         NEW hooked, hooked = hooks \/ hooked = <<a.id>> \o hooks
  PROVE  hooked \in Seq(Nat) /\ Right(list, deps, hooked, Replaced(stack, b), made)
  <1> DEFINE els == Els(list)
             new == Replaced(stack, b)
             n == Len(stack)
  <1>1. n \in 1..n /\ n \in Nat /\ a \in Acts /\ a.id \in Nat /\ a.k \in Nat
    BY TopIs, ActTyped
  <1>2. Len(new) = n /\ (\A i \in 1..n : new[i] = IF i = n THEN b ELSE stack[i])
    BY ReplacedIs
  <1>3. Started(a, els, deps, Els(hooks))
    BY <1>1 DEF Right, Sound
  <1>4. a.id \notin Els(hooks) /\ Lone(hooks)
    BY <1>3 DEF Started, Right
  <1>5. hooked \in Seq(Nat) /\ Lone(hooked) /\ Els(hooked) \subseteq Els(hooks) \cup {a.id}
    BY <1>1, <1>4, HooksGrow
  <1>6. ~Starts(b)
    BY DEF Starts
  <1>7. ModuleEntry(a.id, a.name) \in els /\ ModuleEntry(a.id, a.name).id = a.id /\ ModuleEntry(a.id, a.name).name = a.name
    BY <1>3 DEF Started, ModuleEntry
  <1> HIDE DEF els, new, n
  <1>8. Served(els, deps, Begins(new))
    <2> SUFFICES ASSUME NEW e \in els, e.id \notin Begins(new), NEW x \in Range(Needs[e.name])
                 PROVE  HasNeed(els, deps, e.id, x)
      BY DEF Served
    <2>1. CASE e.id \in Begins(stack)
      <3>1. e.id = a.id
        BY <2>1, ReplacedBegins DEF new
      <3>2. Apart(els)
        BY WholeApart DEF Right, els
      <3>3. e.name = a.name
        BY <1>7, <3>1, <3>2 DEF Apart
      <3>4. PICK j \in 1..Len(Needs[a.name]) : x = Needs[a.name][j]
        <4>1. x \in Range(Needs[a.name])
          BY <3>3
        <4>2. x \in Els(Needs[a.name])
          BY <4>1, RangeIsEls
        <4> QED  BY <4>2 DEF Els
      <3>5. j < a.k
        <4>1. Len(Needs[a.name]) \in Nat /\ j \in Nat
          OBVIOUS
        <4>2. \A p, q, r \in Nat : p <= q /\ r > q => p < r
          OBVIOUS
        <4> QED  BY <1>1, <4>1, <4>2
      <3>6. HasNeed(els, deps, a.id, Needs[a.name][j])
        BY <1>3, <3>5 DEF Started
      <3> QED  BY <3>1, <3>4, <3>6
    <2>2. CASE e.id \notin Begins(stack)
      BY <2>2 DEF Right, Served, els
    <2> QED  BY <2>1, <2>2
  <1>9. Hooks(els, Els(hooked))
    BY <1>5, <1>7 DEF Right, Hooks, els
  <1>10. \A i \in 1..n : Sound(new[i], els, deps, Els(hooked))
    <2> SUFFICES ASSUME NEW i \in 1..n PROVE Sound(new[i], els, deps, Els(hooked))
      OBVIOUS
    <2>1. CASE i = n
      <3>1. b.kind # "unload"
        BY DEF Starts
      <3>2. Sound(b, els, deps, Els(hooked))
        BY <1>6, <3>1 DEF Sound
      <3> QED  BY <3>2, <2>1, <1>2
    <2>2. CASE i # n
      <3> DEFINE c == stack[i]
      <3>1. i \in 1..Len(stack) /\ i < Len(stack)
        BY <2>2, <1>1 DEF n
      <3>2. new[i] = c /\ Sound(c, els, deps, Els(hooks))
        BY <1>2, <2>2, <3>1 DEF Right, els
      <3>3. Starts(c) => a.id # c.id
        <4>1. Stacked(stack, made) /\ stack[Len(stack)].kind = "load"
          BY DEF Right, Starts
        <4> QED  BY <3>1, <4>1, YoungerThanAll
      <3> HIDE DEF c
      <3>4. Starts(c) => Started(c, els, deps, Els(hooked))
        BY <1>5, <3>2, <3>3 DEF Sound, Started
      <3>5. c.kind = "unload" => Asked(c, deps) /\ c.phase = "script"
        BY <3>2 DEF Sound
      <3> QED  BY <3>2, <3>4, <3>5 DEF Sound
    <2> QED  BY <2>1, <2>2
  <1>11. Stacked(new, made)
    <2>1. Stacked(stack, made)
      BY DEF Right
    <2> QED  BY <2>1, ReplacedStacked DEF new
  <1>12. Whole(list) /\ Known(els, deps)
    BY DEF Right, els
  <1>13. Right(list, deps, hooked, new, made)
    BY <1>2, <1>5, <1>8, <1>9, <1>10, <1>11, <1>12 DEF Right, els
  <1> QED  BY <1>5, <1>13 DEF new

LEMMA FirstIs ==
  /\ Len(AtFirst) \in Nat /\ Len(AtFirst) > 0 /\ MaxLoads \in Nat
  /\ \A m \in Mods : Needs[m] \in Seq(Mods)
  /\ \A i \in 1..Len(AtFirst) : AtFirst[i] \in Mods
  /\ \A m \in Els(AtFirst) : IdOf(m) \in 1..Len(AtFirst) /\ AtFirst[IdOf(m)] = m
  <1>1. AtFirst \in Seq(Mods) /\ AtFirst # <<>>
    BY ModulesAssumption
  <1>2. Len(AtFirst) \in Nat /\ Len(AtFirst) > 0
    BY <1>1, EmptySeq
  <1>3. \A i \in 1..Len(AtFirst) : AtFirst[i] \in Mods
    BY <1>1, ElementOf
  <1>4. \A m \in Els(AtFirst) : IdOf(m) \in 1..Len(AtFirst) /\ AtFirst[IdOf(m)] = m
    BY DEF Els, IdOf
  <1> QED  BY <1>2, <1>3, <1>4, ModulesAssumption

LEMMA InitRight ==
  ASSUME InitModules
  PROVE  IInv
  <1> DEFINE N == Len(AtFirst)
             E(i) == ModuleEntry(i, AtFirst[i])
             els == Els(module_list)
  <1>1. N \in Nat /\ N > 0 /\ \A i \in 1..N : AtFirst[i] \in Mods
    BY FirstIs
  <1>2. \A i \in 1..N : E(i) \in Entries /\ E(i).id = i /\ E(i).name = AtFirst[i]
    BY <1>1 DEF Entries, ModuleEntry
  <1> HIDE DEF E
  <1>3. \A i \in 1..N : (N - i) + 1 \in 1..N /\ (N - ((N - i) + 1)) + 1 = i
    BY <1>1
  <1>4. module_list = [i \in 1..N |-> E((N - i) + 1)]
    <2> DEFINE s == [i \in 1..N |-> E(i)]
    <2>1. module_list = Reverse(s)
      BY DEF InitModules, E
    <2>2. Len(s) = N
      BY <1>1
    <2>3. \A i \in 1..N : s[(N - i) + 1] = E((N - i) + 1)
      BY <1>3
    <2> HIDE DEF s
    <2> QED  BY <2>1, <2>2, <2>3 DEF Reverse
  <1>5. module_list \in Seq(Entries) /\ Len(module_list) = N /\ \A i \in 1..N : module_list[i] = E((N - i) + 1)
    BY <1>1, <1>2, <1>3, <1>4
  <1>6. \A i \in 1..N : E(i) \in els
    <2> SUFFICES ASSUME NEW i \in 1..N PROVE E(i) \in els
      OBVIOUS
    <2>1. module_list[(N - i) + 1] = E(i)
      BY <1>3, <1>5
    <2> QED  BY <2>1, <1>3, <1>5 DEF Els
  <1>7. \A e \in els : \E i \in 1..N : e = E(i)
    BY <1>3, <1>5 DEF Els
  <1>8. Whole(module_list)
    <2> SUFFICES ASSUME NEW i \in 1..N, NEW j \in 1..N
                 PROVE  (i < j => module_list[i].id > module_list[j].id) /\ (module_list[i].name = module_list[j].name => i = j)
      BY <1>5 DEF Whole
    <2>1. module_list[i].id = (N - i) + 1 /\ module_list[j].id = (N - j) + 1
      BY <1>2, <1>3, <1>5
    <2>2. module_list[i].name = AtFirst[(N - i) + 1] /\ module_list[j].name = AtFirst[(N - j) + 1]
      BY <1>2, <1>3, <1>5
    <2>3. i < j => (N - i) + 1 > (N - j) + 1
      BY <1>1
    <2>4. AtFirst[(N - i) + 1] = AtFirst[(N - j) + 1] => (N - i) + 1 = (N - j) + 1
      BY <1>3, ModulesAssumption
    <2>5. (N - i) + 1 = (N - j) + 1 => i = j
      BY <1>1
    <2> QED  BY <2>1, <2>2, <2>3, <2>4, <2>5
  <1>9. \A i \in 1..N : \A n \in Range(Needs[AtFirst[i]]) :
           IdOf(n) \in 1..N /\ AtFirst[IdOf(n)] = n
    <2> SUFFICES ASSUME NEW i \in 1..N, NEW n \in Range(Needs[AtFirst[i]])
                 PROVE  IdOf(n) \in 1..N /\ AtFirst[IdOf(n)] = n
      OBVIOUS
    <2>1. n \in Range(AtFirst) /\ AtFirst \in Seq(Mods)
      BY ModulesAssumption
    <2>2. n \in Els(AtFirst)
      BY <2>1, RangeIsEls
    <2> QED  BY <2>2, FirstIs
  <1>10. \A d : d \in dependancy_list <=> \E i \in 1..N : \E n \in Range(Needs[AtFirst[i]]) : d = Dep(i, IdOf(n))
    BY DEF InitModules, Dep
  <1> HIDE DEF N
  <1>11. Known(els, dependancy_list)
    <2> SUFFICES ASSUME NEW d \in dependancy_list
                 PROVE  \E e, f \in els : e.id = d.needing /\ f.id = d.needed /\ f.name \in Range(Needs[e.name])
      BY DEF Known
    <2>1. PICK i \in 1..N : \E n \in Range(Needs[AtFirst[i]]) : d = Dep(i, IdOf(n))
      BY <1>10
    <2>2. PICK n \in Range(Needs[AtFirst[i]]) : d = Dep(i, IdOf(n))
      BY <2>1
    <2>3. d.needing = i /\ d.needed = IdOf(n)
      BY <2>2 DEF Dep
    <2>4. E(i) \in els /\ E(i).id = i /\ E(i).name = AtFirst[i]
      BY <1>2, <1>6
    <2>5. E(IdOf(n)) \in els /\ E(IdOf(n)).id = IdOf(n) /\ E(IdOf(n)).name = n
      BY <1>2, <1>6, <1>9
    <2> QED  BY <2>3, <2>4, <2>5
  <1>12. \A e \in els : \A n \in Range(Needs[e.name]) : HasNeed(els, dependancy_list, e.id, n)
    <2> SUFFICES ASSUME NEW e \in els, NEW n \in Range(Needs[e.name])
                 PROVE  HasNeed(els, dependancy_list, e.id, n)
      OBVIOUS
    <2>1. PICK i \in 1..N : e = E(i)
      BY <1>7
    <2>2. e.id = i /\ e.name = AtFirst[i]
      BY <1>2, <2>1
    <2>3. Dep(i, IdOf(n)) \in dependancy_list
      BY <1>10, <2>2
    <2>4. E(IdOf(n)) \in els /\ E(IdOf(n)).id = IdOf(n) /\ E(IdOf(n)).name = n
      BY <1>2, <1>6, <1>9, <2>2
    <2> QED  BY <2>2, <2>3, <2>4 DEF HasNeed
  <1>13. dependancy_list \subseteq [needing : Nat, needed : Nat]
    <2>1. \A i \in 1..N : \A n : IdOf(n) \in 1..N => Dep(i, IdOf(n)) \in [needing : Nat, needed : Nat]
      BY <1>1 DEF Dep
    <2> QED  BY <2>1, <1>9, <1>10
  <1>14. hook_list \in Seq(Nat) /\ Lone(hook_list) /\ Els(hook_list) \subseteq 1..N
    <2>1. hook_list = <<1>> \o HooksOf[N]
      BY DEF InitModules, N
    <2>2. HooksOf[N] \in Seq(Nat) /\ Els(HooksOf[N]) \subseteq 2..N /\ Lone(HooksOf[N])
      BY <1>1, HooksOfIs DEF N
    <2>3. 1 \in Nat /\ 1 \notin 2..N /\ 1 \in 1..N /\ (2..N) \subseteq 1..N
      BY <1>1
    <2>4. 1 \notin Els(HooksOf[N])
      BY <2>2, <2>3
    <2>5. hook_list \in Seq(Nat) /\ Lone(hook_list) /\ Els(hook_list) = Els(HooksOf[N]) \cup {1}
      BY <2>1, <2>2, <2>3, <2>4, HooksGrow
    <2> QED  BY <2>2, <2>3, <2>5
  <1>15. Hooks(els, Els(hook_list))
    BY <1>2, <1>6, <1>14 DEF Hooks
  <1>16. acts = <<>> /\ mishap = {} /\ asks = [made |-> N, n |-> 0, restart |-> FALSE]
    BY DEF InitModules, N
  <1>17. Typed
    <2>1. \A e \in els : e.id \in 1..asks.made
      BY <1>2, <1>7, <1>16
    <2>2. acts \in Seq(Acts)
      BY <1>16
    <2>3. mishap \subseteq {"torn", "lost", "left"} /\ asks \in [made : Nat, n : Nat, restart : BOOLEAN]
      BY <1>1, <1>16
    <2> QED  BY <1>5, <1>13, <1>14, <2>1, <2>2, <2>3 DEF Typed
  <1>18. Len(acts) = 0 /\ (\A i \in 1..0 : FALSE)
    BY <1>16
  <1>19. Stacked(acts, asks.made)
    BY <1>18 DEF Stacked
  <1>20. Served(els, dependancy_list, Begins(acts))
    BY <1>12 DEF Served
  <1> HIDE DEF els
  <1>21. Right(module_list, dependancy_list, hook_list, acts, asks.made)
    BY <1>8, <1>11, <1>14, <1>15, <1>18, <1>19, <1>20 DEF Right, els
  <1> QED  BY <1>17, <1>21 DEF IInv

-----------------------------------------------------------------------------
(* The steps.                                                               *)

LEMMA TypedIs ==
  ASSUME Typed
  PROVE  /\ module_list \in Seq(Entries) /\ hook_list \in Seq(Nat) /\ acts \in Seq(Acts)
         /\ asks.made \in Nat /\ asks.n \in Nat /\ mishap \subseteq {"torn", "lost", "left"}
         /\ asks \in [made : Nat, n : Nat, restart : BOOLEAN]
         /\ \A e \in Els(module_list) : e.id \in 1..asks.made
         /\ dependancy_list \subseteq [needing : Nat, needed : Nat]
  BY DEF Typed

LEMMA ActMade ==
  ASSUME NEW kind \in Kinds, NEW id \in Nat, NEW name \in Names, NEW k \in Nat \ {0},
         NEW since \in Nat, NEW other \in Nat, NEW phase \in Phases
  PROVE  [kind |-> kind, id |-> id, name |-> name, k |-> k, since |-> since, other |-> other, phase |-> phase] \in Acts
  BY DEF Acts

LEMMA ActIs ==
  ASSUME Typed, NEW kind \in Kinds, NEW id \in Nat, NEW name \in Names, NEW other \in Nat
  PROVE  LET a == Act(kind, id, name, other)
         IN a \in Acts /\ a.kind = kind /\ a.id = id /\ a.name = name /\ a.k = 1 /\ a.since = asks.made /\ a.phase = "start"
  <1> DEFINE a == Act(kind, id, name, other)
  <1>1. asks.made \in Nat
    BY TypedIs
  <1>2. 1 \in Nat \ {0} /\ "start" \in Phases
    BY DEF Phases
  <1>3. a = [kind |-> kind, id |-> id, name |-> name, k |-> 1, since |-> asks.made, other |-> other, phase |-> "start"]
    BY Zenon DEF Act
  <1>4. a \in Acts
    <2>1. [kind |-> kind, id |-> id, name |-> name, k |-> 1, since |-> asks.made, other |-> other, phase |-> "start"] \in Acts
      BY <1>1, <1>2, ActMade
    <2> QED  BY <1>3, <2>1, Zenon
  <1> HIDE DEF a
  <1>5. a.kind = kind /\ a.id = id /\ a.name = name /\ a.k = 1 /\ a.since = asks.made /\ a.phase = "start"
    BY <1>3
  <1> QED  BY <1>4, <1>5 DEF a

\* The same, in another phase.
LEMMA InPhase ==
  ASSUME NEW a \in Acts, NEW phase \in Phases, NEW b, b = [a EXCEPT !.phase = phase]
  PROVE  b \in Acts /\ b.kind = a.kind /\ b.id = a.id /\ b.name = a.name /\ b.since = a.since /\ b.phase = phase
  BY DEF Acts

\* How what runs last goes on.
LEMMA GoesOn ==
  ASSUME NEW a \in Acts
  PROVE  LET b == [a EXCEPT !.k = @ + 1, !.phase = "start"]  c == [a EXCEPT !.phase = "script"]
         IN /\ b \in Acts /\ b.kind = a.kind /\ b.id = a.id /\ b.name = a.name /\ b.since = a.since /\ b.k = a.k + 1 /\ b.phase = "start"
            /\ c \in Acts /\ c.kind = a.kind /\ c.id = a.id /\ c.name = a.name /\ c.since = a.since /\ c.phase = "script"
  <1>1. a = [kind |-> a.kind, id |-> a.id, name |-> a.name, k |-> a.k, since |-> a.since, other |-> a.other, phase |-> a.phase]
    BY DEF Acts
  <1>2. a.k \in Nat \ {0} /\ a.k + 1 \in Nat \ {0}
    <2>1. a.k \in Nat \ {0}
      BY DEF Acts
    <2>2. \A n \in Nat \ {0} : n + 1 \in Nat \ {0}
      OBVIOUS
    <2> QED  BY <2>1, <2>2
  <1>3. [a EXCEPT !.phase = "script"] \in Acts
    BY DEF Acts, Phases
  <1>4. [a EXCEPT !.k = @ + 1, !.phase = "start"] \in Acts
    <2>1. [a EXCEPT !.k = @ + 1] \in Acts
      BY <1>2 DEF Acts
    <2>2. \A c \in Acts : [c EXCEPT !.phase = "start"] \in Acts
      BY DEF Acts, Phases
    <2>3. [a EXCEPT !.k = @ + 1, !.phase = "start"] = [[a EXCEPT !.k = @ + 1] EXCEPT !.phase = "start"]
      BY DEF Acts
    <2> QED  BY <2>1, <2>2, <2>3
  <1> QED  BY <1>3, <1>4 DEF Acts

LEMMA AsksTyped ==
  ASSUME NEW s \in [made : Nat, n : Nat, restart : BOOLEAN]
  PROVE  /\ [s EXCEPT !.n = @ + 1] \in [made : Nat, n : Nat, restart : BOOLEAN] /\ [s EXCEPT !.n = @ + 1].made = s.made
         /\ [s EXCEPT !.made = @ + 1] \in [made : Nat, n : Nat, restart : BOOLEAN] /\ [s EXCEPT !.made = @ + 1].made = s.made + 1
  OBVIOUS

LEMMA AsksBoth ==
  ASSUME NEW s \in [made : Nat, n : Nat, restart : BOOLEAN]
  PROVE  /\ [s EXCEPT !.made = @ + 1, !.n = @ + 1] \in [made : Nat, n : Nat, restart : BOOLEAN]
         /\ [s EXCEPT !.made = @ + 1, !.n = @ + 1].made = s.made + 1
  <1>1. [s EXCEPT !.made = @ + 1, !.n = @ + 1] = [[s EXCEPT !.made = @ + 1] EXCEPT !.n = @ + 1]
    OBVIOUS
  <1> QED  BY <1>1, AsksTyped

\* What runs last: a start has its entry, and the needs of its module.
LEMMA StartIs ==
  ASSUME IInv, mishap = {}, acts # <<>>, Starts(Top)
  PROVE  /\ Started(Top, Els(module_list), dependancy_list, Els(hook_list))
         /\ ModuleEntry(Top.id, Top.name) \in Els(module_list) /\ Top.name \in Mods
         /\ Needs[Top.name] \in Seq(Mods)
         /\ Top.phase # "start" => Waits(Top)
         /\ Waits(Top) => Top.k \in 1..Len(Needs[Top.name])
  <1>1. Len(acts) \in 1..Len(acts) /\ Top \in Acts /\ Top = acts[Len(acts)]
    BY TopIs DEF Top, IInv, Typed
  <1>2. Right(module_list, dependancy_list, hook_list, acts, asks.made)
    BY DEF IInv
  <1>3. Sound(Top, Els(module_list), dependancy_list, Els(hook_list))
    BY <1>1, <1>2 DEF Right
  <1>4. Started(Top, Els(module_list), dependancy_list, Els(hook_list))
    BY <1>3 DEF Sound
  <1>5. ModuleEntry(Top.id, Top.name) \in Els(module_list)
    BY <1>4 DEF Started
  <1>6. ModuleEntry(Top.id, Top.name) \in Entries
    BY <1>5, ElsTyped DEF IInv, Typed
  <1>7. Top.name \in Mods
    BY <1>6 DEF ModuleEntry, Entries
  <1>8. Needs[Top.name] \in Seq(Mods)
    BY <1>7, FirstIs
  <1>9. Top.phase # "start" => Waits(Top)
    BY <1>1, <1>2 DEF Right, Stacked
  <1>10. Waits(Top) => Top.k \in 1..Len(Needs[Top.name])
    <2>1. Top.k \in Nat \ {0}
      BY <1>1 DEF Acts
    <2>2. Len(Needs[Top.name]) \in Nat
      BY <1>8
    <2>3. \A p, q \in Nat : p # 0 /\ p <= q => p \in 1..q
      OBVIOUS
    <2> QED  BY <2>1, <2>2, <2>3 DEF Waits
  <1> QED  BY <1>4, <1>5, <1>7, <1>8, <1>9, <1>10

LEMMA LoadBegun ==
  ASSUME IInv, mishap = {}, NEW m \in Mods, ~Found(m), LoadBegins(m),
         UNCHANGED <<dependancy_list, hook_list, mishap>>,
         asks' \in [made : Nat, n : Nat, restart : BOOLEAN], asks'.made = asks.made + 1,
         acts # <<>> => Top.phase = "script" \/ (Top.phase = "start" /\ Waits(Top))
  PROVE  IInv'
  <1> DEFINE a == Act("load", asks.made + 1, m, None)
             e == ModuleEntry(asks.made + 1, m)
  <1>1. /\ module_list \in Seq(Entries) /\ hook_list \in Seq(Nat) /\ acts \in Seq(Acts) /\ asks.made \in Nat
        /\ \A f \in Els(module_list) : f.id \in 1..asks.made
    BY TypedIs DEF IInv
  <1>2. asks.made + 1 \in Nat /\ asks.made + 1 \in 1..asks.made + 1 /\ \A x \in 1..asks.made : x \in 1..asks.made + 1
    BY <1>1
  <1>3. a \in Acts /\ a.kind = "load" /\ a.id = asks.made + 1 /\ a.name = m /\ a.k = 1 /\ a.phase = "start"
    <2>1. None \in Nat /\ Typed /\ m \in Names /\ "load" \in Kinds
      BY DEF None, IInv, Names, Kinds
    <2> QED  BY <1>2, <2>1, ActIs
  <1>4. e \in Entries /\ e.id = asks.made + 1
    BY <1>2 DEF Entries, ModuleEntry
  <1>5. module_list' = <<e>> \o module_list /\ acts' = Append(acts, a)
    BY DEF LoadBegins
  <1>6. Right(module_list, dependancy_list, hook_list, acts, asks.made)
    BY DEF IInv
  <1>7. acts # <<>> /\ Starts(acts[Len(acts)]) => acts[Len(acts)].phase = "start" /\ Waits(acts[Len(acts)])
    BY DEF Top, Starts
  <1>8. \A f \in Els(module_list) : f.name # m
    BY FoundIs
  <1> HIDE DEF a
  <1>9. Right(<<e>> \o module_list, dependancy_list, hook_list, Append(acts, a), asks.made + 1)
    BY <1>1, <1>3, <1>6, <1>7, <1>8, LoadRight
  <1> HIDE DEF e
  <1>10. <<e>> \o module_list \in Seq(Entries) /\ Els(<<e>> \o module_list) = Els(module_list) \cup {e}
    BY <1>1, <1>4, Prepended
  <1>11. \A f \in Els(<<e>> \o module_list) : f.id \in 1..asks.made + 1
    BY <1>1, <1>2, <1>4, <1>10
  <1>12. Append(acts, a) \in Seq(Acts)
    BY <1>1, <1>3, PushIs
  <1>13. Typed'
    BY <1>5, <1>10, <1>11, <1>12, TypedIs DEF IInv, Typed
  <1> QED  BY <1>5, <1>9, <1>13 DEF IInv

LEMMA Depends ==
  ASSUME IInv, ModuleDepend
  PROVE  IInv'
  <1> DEFINE a == Top
             b == [Top EXCEPT !.k = @ + 1, !.phase = "start"]
  <1>1. /\ module_list \in Seq(Entries) /\ hook_list \in Seq(Nat) /\ acts \in Seq(Acts) /\ asks.made \in Nat
        /\ \A f \in Els(module_list) : f.id \in 1..asks.made
        /\ dependancy_list \subseteq [needing : Nat, needed : Nat]
    BY TypedIs DEF IInv
  <1>2. mishap = {} /\ acts # <<>> /\ Starts(a) /\ (a.phase = "start" => Waits(a))
    BY DEF ModuleDepend, Finds, Asks, In, Starts, Waits
  <1>3. Right(module_list, dependancy_list, hook_list, acts, asks.made)
    BY <1>2 DEF IInv
  <1>4. /\ ModuleEntry(a.id, a.name) \in Els(module_list) /\ a.k \in 1..Len(Needs[a.name]) /\ Needs[a.name] \in Seq(Mods)
    BY <1>2, StartIs
  <1>5. a \in Acts /\ a = acts[Len(acts)] /\ a.id \in Nat
    BY <1>1, <1>2, TopIs, ActTyped DEF Top
  <1>6. PICK f \in Els(module_list) : f.name = Want
    BY FoundIs DEF ModuleDepend
  <1>7. Whole(module_list)
    BY <1>3 DEF Right
  <1>8. ModuleFind(Want) = f
    BY <1>1, <1>6, <1>7, ModuleFindIs
  <1>9. ModuleFind(a.name).id = a.id
    <2>1. ModuleEntry(a.id, a.name).name = a.name /\ ModuleEntry(a.id, a.name).id = a.id
      BY DEF ModuleEntry
    <2>2. ModuleFind(ModuleEntry(a.id, a.name).name) = ModuleEntry(a.id, a.name)
      BY <1>1, <1>4, <1>7, ModuleFindIs
    <2> QED  BY <2>1, <2>2
  <1>10. dependancy_list' = dependancy_list \cup {Dep(a.id, f.id)}
    BY <1>8, <1>9 DEF ModuleDepend, Dep
  <1>11. b \in Acts /\ b.kind = a.kind /\ b.id = a.id /\ b.name = a.name /\ b.since = a.since /\ b.k = a.k + 1 /\ b.phase = "start"
    BY <1>5, GoesOn
  <1>12. acts' = Replaced(acts, b)
    BY DEF ModuleDepend, SetTop, Replaced
  <1>13. UNCHANGED <<module_list, hook_list, mishap, asks>>
    BY DEF ModuleDepend
  <1>14. f.name = Needs[a.name][a.k]
    BY <1>6 DEF Want
  <1> HIDE DEF a, b
  <1>15. Right(module_list, dependancy_list \cup {Dep(a.id, f.id)}, hook_list, Replaced(acts, b), asks.made)
    BY <1>1, <1>2, <1>3, <1>4, <1>5, <1>11, <1>14, DependRight
  <1>16. Replaced(acts, b) \in Seq(Acts)
    BY <1>1, <1>2, <1>11, ReplacedIs
  <1>17. Dep(a.id, f.id) \in [needing : Nat, needed : Nat]
    <2>1. f \in Entries
      BY <1>1, ElsTyped
    <2> QED  BY <1>5, <2>1, EntryTyped DEF Dep
  <1>18. Typed'
    BY <1>1, <1>10, <1>12, <1>13, <1>16, <1>17, TypedIs DEF IInv, Typed
  <1> QED  BY <1>10, <1>12, <1>13, <1>15, <1>18 DEF IInv

\* What is known of what runs last, and of the list, when all is right.
LEMMA RightIs ==
  ASSUME IInv, mishap = {}, acts # <<>>
  PROVE  /\ Right(module_list, dependancy_list, hook_list, acts, asks.made) /\ Whole(module_list) /\ Lone(hook_list)
         /\ Len(acts) \in 1..Len(acts) /\ Top = acts[Len(acts)] /\ Top \in Acts
         /\ Sound(Top, Els(module_list), dependancy_list, Els(hook_list))
  <1>1. Len(acts) \in 1..Len(acts) /\ Top \in Acts /\ Top = acts[Len(acts)]
    BY TopIs DEF Top, IInv, Typed
  <1>2. Right(module_list, dependancy_list, hook_list, acts, asks.made)
    BY DEF IInv
  <1> QED  BY <1>1, <1>2 DEF Right

\* The first of the list is the youngest.
LEMMA HeadYoungest ==
  ASSUME NEW list \in Seq(Entries), Whole(list), NEW e \in Els(list)
  PROVE  list # <<>> /\ Head(list) = list[1] /\ list[1] \in Entries /\ 1 \in 1..Len(list) /\ list[1] \in Els(list) /\ e.id <= list[1].id
  <1>1. PICK i \in 1..Len(list) : e = list[i]
    BY DEF Els
  <1>2. list # <<>>
    BY <1>1, EmptySeq
  <1>3. 1 \in 1..Len(list) /\ Head(list) = list[1]
    BY <1>2, TailIs
  <1>4. list[i].id \in Nat /\ list[1].id \in Nat
    BY <1>3, ElementOf, EntryTyped
  <1>5. i = 1 \/ 1 < i
    OBVIOUS
  <1>6. list[1] \in Els(list) /\ list[1] \in Entries
    BY <1>3, ElementOf DEF Els
  <1>7. e.id <= list[1].id
    <2>1. CASE i = 1
      BY <1>1, <1>4, <2>1
    <2>2. CASE 1 < i
      <3>1. list[1].id > list[i].id
        BY <1>3, <2>2 DEF Whole
      <3> QED  BY <1>1, <1>4, <3>1
    <2> QED  BY <1>5, <2>1, <2>2
  <1> QED  BY <1>2, <1>3, <1>6, <1>7

LEMMA Fails ==
  ASSUME IInv, StartFails
  PROVE  IInv'
  <1> DEFINE a == Top
             rest == Told(Front(acts), "failed")
             x == module_list[1]
  <1>1. /\ module_list \in Seq(Entries) /\ hook_list \in Seq(Nat) /\ acts \in Seq(Acts) /\ asks.made \in Nat
        /\ \A f \in Els(module_list) : f.id \in 1..asks.made
        /\ dependancy_list \subseteq [needing : Nat, needed : Nat]
    BY TypedIs DEF IInv
  <1>2. mishap = {} /\ acts # <<>> /\ Starts(a)
    BY DEF StartFails, Asks, In, Starts
  <1>3. /\ dependancy_list' = Undepended(a.id) /\ module_list' = Tail(module_list)
        /\ mishap' = IF Head(module_list).id = a.id THEN {} ELSE {"torn"}
        /\ acts' = rest /\ UNCHANGED <<hook_list, asks>>
    BY DEF StartFails
  <1>4. Started(a, Els(module_list), dependancy_list, Els(hook_list)) /\ ModuleEntry(a.id, a.name) \in Els(module_list)
    BY <1>2, StartIs
  <1>5. /\ Right(module_list, dependancy_list, hook_list, acts, asks.made) /\ Whole(module_list) /\ Lone(hook_list)
        /\ a = acts[Len(acts)] /\ a \in Acts /\ a.id \in Nat
    BY <1>2, RightIs, ActTyped
  <1>6. module_list # <<>> /\ Head(module_list) = x /\ x \in Els(module_list) /\ 1 \in 1..Len(module_list)
    BY <1>1, <1>4, <1>5, HeadYoungest
  <1>7. module_list' = Without(module_list, 1)
    BY <1>1, <1>3, <1>6, TailIs
  <1>8. Without(module_list, 1) \in Seq(Entries) /\ Els(Without(module_list, 1)) = Els(module_list) \ {x}
    BY <1>1, <1>5, <1>6, WithoutWhole
  <1>9. Popped(acts, rest)
    BY <1>1, <1>2, ToldPopped
  <1>10. rest \in Seq(Acts)
    BY <1>9 DEF Popped
  <1>11. Typed'
    <2>1. dependancy_list' \subseteq [needing : Nat, needed : Nat]
      BY <1>1, <1>3 DEF Undepended
    <2>2. mishap' \subseteq {"torn", "lost", "left"}
      BY <1>3
    <2>3. \A f \in Els(module_list') : f.id \in 1..asks'.made
      BY <1>1, <1>3, <1>7, <1>8
    <2> HIDE DEF rest
    <2> QED  BY <1>1, <1>3, <1>7, <1>8, <1>10, <2>1, <2>2, <2>3, TypedIs DEF IInv, Typed
  <1>12. ASSUME mishap' = {}
         PROVE  Right(module_list', dependancy_list', hook_list', acts', asks'.made)
    <2>1. x.id = a.id
      BY <1>3, <1>6, <1>12
    <2>2. \A d \in dependancy_list : d.needed = x.id => d.needing = x.id
      <3> SUFFICES ASSUME NEW d \in dependancy_list, d.needed = x.id PROVE d.needing = x.id
        OBVIOUS
      <3>1. d.needing >= a.id
        BY <1>4, <2>1 DEF Started
      <3>2. \E e \in Els(module_list) : e.id = d.needing
        BY <1>5 DEF Right, Known
      <3>3. d.needing <= x.id
        BY <1>1, <1>5, <3>2, HeadYoungest
      <3>4. d.needing \in Nat
        BY <1>1
      <3> QED  BY <1>5, <2>1, <3>1, <3>3, <3>4
    <2>3. Goes(x, Els(module_list), dependancy_list)
      BY <1>6, <2>2 DEF Goes
    <2>4. x.id \notin Els(hook_list)
      BY <1>4, <2>1 DEF Started
    <2>5. ASSUME NEW j \in 1..Len(acts) - 1, Starts(acts[j]) PROVE acts[j].id # x.id
      <3>1. Len(acts) \in Nat
        BY <1>1
      <3>2. j \in 1..Len(acts) /\ j < Len(acts)
        BY <3>1
      <3>3. acts[Len(acts)].kind = "load" /\ Stacked(acts, asks.made)
        BY <1>2, <1>5 DEF Starts, Right
      <3> QED  BY <1>1, <1>2, <1>5, <2>1, <2>5, <3>2, <3>3, YoungerThanAll
    <2>6. Starts(acts[Len(acts)]) => acts[Len(acts)].id = x.id
      BY <1>5, <2>1
    <2>7. dependancy_list' = LeftBy(x, dependancy_list)
      BY <1>3, <2>1 DEF Undepended, LeftBy
    <2> HIDE DEF x, rest, a
    <2>8. Right(Without(module_list, 1), LeftBy(x, dependancy_list), hook_list, rest, asks.made)
      BY <1>1, <1>2, <1>5, <1>6, <1>9, <2>3, <2>4, <2>5, <2>6, GoneRight DEF x
    <2> QED  BY <1>3, <1>7, <2>7, <2>8
  <1> QED  BY <1>11, <1>12 DEF IInv

LEMMA Ends ==
  ASSUME IInv, StartEnds
  PROVE  IInv'
  <1> DEFINE a == Top
             b == [Top EXCEPT !.phase = "script"]
  <1>1. /\ module_list \in Seq(Entries) /\ hook_list \in Seq(Nat) /\ acts \in Seq(Acts) /\ asks.made \in Nat
    BY TypedIs DEF IInv
  <1>2. mishap = {} /\ acts # <<>> /\ Starts(a) /\ a.k > Len(Needs[a.name])
    BY DEF StartEnds, In, Starts
  <1>3. /\ hook_list' = hook_list \/ hook_list' = <<a.id>> \o hook_list
        /\ acts' = Replaced(acts, b) /\ UNCHANGED <<module_list, dependancy_list, mishap, asks>>
    BY DEF StartEnds, SetTop, Replaced
  <1>4. Needs[a.name] \in Seq(Mods)
    BY <1>2, StartIs
  <1>5. /\ Right(module_list, dependancy_list, hook_list, acts, asks.made)
        /\ a = acts[Len(acts)] /\ a \in Acts
    BY <1>2, RightIs
  <1>6. b \in Acts /\ b.kind = a.kind /\ b.id = a.id /\ b.name = a.name /\ b.since = a.since /\ b.phase = "script"
    BY <1>5, GoesOn
  <1> HIDE DEF a, b
  <1>7. PICK hooked : hooked = hook_list'
    OBVIOUS
  <1>8. hooked = hook_list \/ hooked = <<a.id>> \o hook_list
    BY <1>3, <1>7
  <1>9. hooked \in Seq(Nat) /\ Right(module_list, dependancy_list, hooked, Replaced(acts, b), asks.made)
    BY <1>1, <1>2, <1>4, <1>5, <1>6, <1>8, ScriptRight
  <1>10. Replaced(acts, b) \in Seq(Acts)
    BY <1>1, <1>2, <1>6, ReplacedIs
  <1>11. Typed'
    BY <1>3, <1>7, <1>9, <1>10 DEF IInv, Typed
  <1> QED  BY <1>3, <1>7, <1>9, <1>11 DEF IInv

\* A loading or a refused unloading returns.
LEMMA Returns ==
  ASSUME IInv, LoadReturns \/ Refused
  PROVE  IInv'
  <1>1. /\ module_list \in Seq(Entries) /\ hook_list \in Seq(Nat) /\ acts \in Seq(Acts) /\ asks.made \in Nat
    BY TypedIs DEF IInv
  <1>2. mishap = {} /\ acts # <<>> /\ Top.phase = "script"
    BY DEF LoadReturns, Refused, In
  <1>3. UNCHANGED <<module_list, dependancy_list, hook_list, mishap, asks>>
    BY DEF LoadReturns, Refused
  <1>4. acts' = Told(Front(acts), "loaded") \/ acts' = Front(acts)
    BY DEF LoadReturns, Refused
  <1>5. PICK rest : rest = acts'
    OBVIOUS
  <1>6. Popped(acts, rest)
    <2>1. CASE acts' = Told(Front(acts), "loaded")
      BY <1>1, <1>2, <1>5, <2>1, ToldPopped
    <2>2. CASE acts' = Front(acts)
      BY <1>1, <1>2, <1>5, <2>2, FrontPopped
    <2> QED  BY <1>4, <2>1, <2>2
  <1>7. rest \in Seq(Acts)
    BY <1>6 DEF Popped
  <1>8. Right(module_list, dependancy_list, hook_list, acts, asks.made) /\ Top = acts[Len(acts)]
    BY <1>2, RightIs
  <1>9. ~Starts(acts[Len(acts)])
    BY <1>2, <1>8 DEF Starts
  <1>10. Right(module_list, dependancy_list, hook_list, rest, asks.made)
    BY <1>1, <1>2, <1>6, <1>8, <1>9, PopRight
  <1>11. Typed'
    BY <1>3, <1>5, <1>7 DEF IInv, Typed
  <1> QED  BY <1>3, <1>5, <1>10, <1>11 DEF IInv

-----------------------------------------------------------------------------
(* Unloading, hooks and restarts.                                           *)

LEMMA MinIs ==
  ASSUME NEW S, S \subseteq Nat, S # {}
  PROVE  Min(S) \in S
  BY LeastOfMany DEF Min

LEMMA PriorTyped ==
  ASSUME module_list \in Seq(Entries), NEW id, Here(module_list, id)
  PROVE  Prior(id) \in Nat
  <1>1. At(module_list, id) \in 1..Len(module_list) /\ module_list[At(module_list, id)].id = id
    BY AtIs
  <1>2. CASE Head(module_list).id = id
    BY <1>2 DEF Prior, None
  <1>3. CASE Head(module_list).id # id
    <2>1. module_list # <<>>
      BY <1>1, EmptySeq
    <2>2. Head(module_list) = module_list[1]
      BY <2>1, TailIs
    <2>3. At(module_list, id) # 1
      BY <1>1, <1>3, <2>2
    <2>4. \A n \in Nat : \A i \in 1..n : i # 1 => i - 1 \in 1..n
      OBVIOUS
    <2>5. At(module_list, id) - 1 \in 1..Len(module_list)
      BY <1>1, <2>3, <2>4
    <2>6. module_list[At(module_list, id) - 1].id \in Nat
      BY <2>5, ElementOf, EntryTyped
    <2> QED  BY <1>3, <2>6 DEF Prior
  <1> QED  BY <1>2, <1>3

\* An unloading is asked for, of one nobody needs: e.
LEMMA UnloadAsked ==
  ASSUME IInv, mishap = {}, acts # <<>> => Top.phase = "script",
         NEW e \in Els(module_list), ~Needed(e.id), NEW name \in Mods,
         acts' = Append(acts, [Act("unload", e.id, name, Prior(e.id)) EXCEPT !.phase = "script"]),
         asks' \in [made : Nat, n : Nat, restart : BOOLEAN], asks'.made = asks.made,
         UNCHANGED <<module_list, dependancy_list, hook_list, mishap>>
  PROVE  IInv'
  <1> DEFINE c == Act("unload", e.id, name, Prior(e.id))
             a == [c EXCEPT !.phase = "script"]
  <1>1. /\ module_list \in Seq(Entries) /\ hook_list \in Seq(Nat) /\ acts \in Seq(Acts) /\ asks.made \in Nat
    BY TypedIs DEF IInv
  <1>2. e.id \in Nat
    BY <1>1, ElsTyped, EntryTyped
  <1>3. Prior(e.id) \in Nat
    BY <1>1, HereIs, PriorTyped
  <1>4. c \in Acts /\ c.kind = "unload" /\ c.id = e.id /\ c.since = asks.made
    <2>1. Typed /\ name \in Names /\ "unload" \in Kinds
      BY DEF IInv, Names, Kinds
    <2> QED  BY <1>2, <1>3, <2>1, ActIs
  <1> HIDE DEF c
  <1>5. a \in Acts /\ a.kind = "unload" /\ a.id = e.id /\ a.since = asks.made /\ a.phase = "script"
    <2>1. "script" \in Phases
      BY DEF Phases
    <2> QED  BY <1>4, <2>1, InPhase
  <1>6. acts' = Append(acts, a)
    BY DEF c
  <1> HIDE DEF a
  <1>7. \A d \in dependancy_list : d.needed # a.id
    BY <1>5 DEF Needed
  <1>8. acts # <<>> => acts[Len(acts)].phase = "script"
    BY DEF Top
  <1>9. Right(module_list, dependancy_list, hook_list, acts, asks.made)
    BY DEF IInv
  <1>10. Right(module_list, dependancy_list, hook_list, Append(acts, a), asks.made)
    BY <1>1, <1>5, <1>7, <1>8, <1>9, PushRight
  <1>11. Append(acts, a) \in Seq(Acts)
    BY <1>1, <1>5, PushIs
  <1>12. Typed'
    BY <1>6, <1>11 DEF IInv, Typed
  <1> QED  BY <1>6, <1>10, <1>12 DEF IInv

LEMMA Unloads ==
  ASSUME IInv, NEW m \in Mods, ModuleUnload(m)
  PROVE  IInv'
  <1>1. mishap = {} /\ (acts # <<>> => Top.phase = "script") /\ Found(m) /\ ~Needed(ModuleFind(m).id)
    BY DEF ModuleUnload, MayAsk
  <1>2. module_list \in Seq(Entries) /\ Whole(module_list)
    BY <1>1 DEF IInv, Right, Typed
  <1>3. PICK e \in Els(module_list) : e.name = m
    BY <1>1, FoundIs
  <1>4. ModuleFind(m) = e
    BY <1>2, <1>3, ModuleFindIs
  <1>5. acts' = Append(acts, [Act("unload", e.id, m, Prior(e.id)) EXCEPT !.phase = "script"])
    BY <1>4 DEF ModuleUnload
  <1>6. asks' = [asks EXCEPT !.n = @ + 1] /\ UNCHANGED <<module_list, dependancy_list, hook_list, mishap>>
    BY DEF ModuleUnload
  <1>7. asks' \in [made : Nat, n : Nat, restart : BOOLEAN] /\ asks'.made = asks.made
    BY <1>6, TypedIs, AsksTyped DEF IInv
  <1> QED  BY <1>1, <1>4, <1>5, <1>6, <1>7, UnloadAsked

LEMMA RestartsUnload ==
  ASSUME IInv, RestartUnloads
  PROVE  IInv'
  <1>1. mishap = {} /\ acts = <<>> /\ CanGo # {}
    BY DEF RestartUnloads
  <1>2. Min(CanGo) \in CanGo
    BY <1>1, MinIs DEF CanGo
  <1> DEFINE e == module_list[Min(CanGo)]
  <1>3. e \in Els(module_list) /\ ~Needed(e.id)
    BY <1>2 DEF CanGo, Els
  <1>4. e.name \in Mods
    BY <1>3, ElsTyped, EntryTyped DEF IInv, Typed
  <1>5. acts' = <<[Act("unload", e.id, e.name, Prior(e.id)) EXCEPT !.phase = "script"]>>
    BY DEF RestartUnloads
  <1>6. UNCHANGED <<module_list, dependancy_list, hook_list, mishap, asks>>
    BY DEF RestartUnloads
  <1>7. asks' \in [made : Nat, n : Nat, restart : BOOLEAN] /\ asks'.made = asks.made
    <2>1. asks \in [made : Nat, n : Nat, restart : BOOLEAN]
      BY TypedIs DEF IInv
    <2>2. asks' = asks
      BY <1>6
    <2> QED  BY <2>1, <2>2
  <1> HIDE DEF e
  <1>8. \A a : <<a>> = Append(<<>>, a)
    OBVIOUS
  <1>9. acts' = Append(acts, [Act("unload", e.id, e.name, Prior(e.id)) EXCEPT !.phase = "script"])
    BY <1>1, <1>5, <1>8
  <1> QED  BY <1>1, <1>3, <1>4, <1>6, <1>7, <1>9, UnloadAsked

\* del_hook takes the module's hook off.
LEMMA DelHookIs ==
  ASSUME hook_list \in Seq(Nat), Lone(hook_list), NEW id
  PROVE  DelHook(id) \in Seq(Nat) /\ Lone(DelHook(id)) /\ Els(DelHook(id)) \subseteq Els(hook_list) /\ id \notin Els(DelHook(id))
  <1> DEFINE where == {j \in 1..Len(hook_list) : hook_list[j] = id}
  <1>1. CASE where = {}
    <2>1. DelHook(id) = hook_list
      BY <1>1 DEF DelHook
    <2>2. id \notin Els(hook_list)
      BY <1>1 DEF Els
    <2> QED  BY <2>1, <2>2
  <1>2. CASE where # {}
    <2> DEFINE j == Min(where)
    <2>0. where \subseteq 1..Len(hook_list) /\ \A n : 1..n \subseteq Nat
      OBVIOUS
    <2>1. j \in where
      <3>1. where \subseteq Nat
        BY <2>0, Zenon
      <3> HIDE DEF where
      <3> QED  BY <3>1, <1>2, MinIs, Zenon
    <2>2. j \in 1..Len(hook_list) /\ hook_list[j] = id
      BY <2>1
    <2>3. DelHook(id) = Without(hook_list, j)
      BY <1>2 DEF DelHook, RemoveAt, Without
    <2> HIDE DEF j, where
    <2>4. Lone(Without(hook_list, j)) /\ Els(Without(hook_list, j)) = Els(hook_list) \ {id}
      BY <2>2, WithoutLone
    <2>5. Without(hook_list, j) \in Seq(Nat)
      BY <2>2, WithoutIs
    <2> QED  BY <2>3, <2>4, <2>5
  <1> QED  BY <1>1, <1>2

\* The list after an unloading, when its entry is still there.
Cut(o, i) == (IF o = None THEN <<>> ELSE SubSeq(module_list, 1, i - 1)) \o SubSeq(module_list, i + 1, Len(module_list))

LEMMA CutTyped ==
  ASSUME module_list \in Seq(Entries), NEW i \in 1..Len(module_list), NEW o
  PROVE  Cut(o, i) \in Seq(Entries) /\ Els(Cut(o, i)) \subseteq Els(module_list)
  <1> DEFINE n == Len(module_list)
             p == IF o = None THEN <<>> ELSE SubSeq(module_list, 1, i - 1)
             q == SubSeq(module_list, i + 1, n)
  <1>1. n \in Nat /\ i \in Nat
    OBVIOUS
  <1>2. p \in Seq(Entries) /\ \A j \in 1..Len(p) : p[j] \in Els(module_list)
    <2>1. CASE o = None
      BY <2>1
    <2>2. CASE o # None
      <3>1. SubSeq(module_list, 1, i - 1) \in Seq(Entries) /\ Len(SubSeq(module_list, 1, i - 1)) = i - 1
            /\ \A j \in 1..i - 1 : SubSeq(module_list, 1, i - 1)[j] = module_list[j]
        BY SubSeqProperties
      <3>2. \A j \in 1..i - 1 : j \in 1..n
        BY <1>1
      <3> QED  BY <2>2, <3>1, <3>2 DEF Els
    <2> QED  BY <2>1, <2>2
  <1>3. q \in Seq(Entries) /\ \A j \in 1..Len(q) : q[j] \in Els(module_list)
    <2>1. q \in Seq(Entries) /\ Len(q) = n - i /\ \A j \in 1..n - i : q[j] = module_list[i + j]
      BY SubSeqProperties
    <2>2. \A j \in 1..n - i : i + j \in 1..n
      BY <1>1
    <2> QED  BY <2>1, <2>2 DEF Els
  <1> HIDE DEF p, q
  <1>4. p \o q \in Seq(Entries) /\ \A j \in 1..Len(p \o q) : (p \o q)[j] \in Els(module_list)
    <2>1. p \o q \in Seq(Entries) /\ Len(p \o q) = Len(p) + Len(q)
          /\ \A j \in 1..Len(p) + Len(q) : (p \o q)[j] = IF j <= Len(p) THEN p[j] ELSE q[j - Len(p)]
      BY <1>2, <1>3, ConcatProperties
    <2>2. Len(p) \in Nat /\ Len(q) \in Nat
      BY <1>2, <1>3
    <2>3. \A a, b \in Nat : \A j \in 1..a + b : (j <= a => j \in 1..a) /\ (~(j <= a) => j - a \in 1..b)
      OBVIOUS
    <2> QED  BY <1>2, <1>3, <2>1, <2>2, <2>3
  <1>5. Cut(o, i) = p \o q
    BY DEF Cut, p, q
  <1> QED  BY <1>4, <1>5 DEF Els

LEMMA Undone ==
  ASSUME IInv, Unloaded
  PROVE  IInv'
  <1> DEFINE id == Top.id
             o == Top.other
             what == Mishap(id, o, Top.since)
             i == At(module_list, id)
  <1>1. /\ module_list \in Seq(Entries) /\ hook_list \in Seq(Nat) /\ acts \in Seq(Acts) /\ asks.made \in Nat
        /\ \A f \in Els(module_list) : f.id \in 1..asks.made
        /\ dependancy_list \subseteq [needing : Nat, needed : Nat]
    BY TypedIs DEF IInv
  <1>2. mishap = {} /\ acts # <<>> /\ Top.kind = "unload" /\ Top.phase = "script"
    BY DEF Unloaded, In
  <1>3. /\ dependancy_list' = Undepended(id) /\ hook_list' = DelHook(id)
        /\ mishap' = what /\ acts' = Front(acts) /\ UNCHANGED asks
    BY DEF Unloaded
  <1>4. module_list' = IF "torn" \in what THEN module_list ELSE Cut(o, i)
    BY DEF Unloaded, Cut
  <1>5. /\ Right(module_list, dependancy_list, hook_list, acts, asks.made) /\ Whole(module_list) /\ Lone(hook_list)
        /\ Top = acts[Len(acts)] /\ Top \in Acts
        /\ Sound(Top, Els(module_list), dependancy_list, Els(hook_list))
    BY <1>2, RightIs
  <1>6. what \subseteq {"torn", "lost", "left"}
    BY DEF Mishap
  <1>7. "torn" \notin what => Here(module_list, id)
    BY DEF Mishap
  <1>8. "torn" \notin what => i \in 1..Len(module_list) /\ module_list[i].id = id
    BY <1>1, <1>7, AtIs
  <1>9. DelHook(id) \in Seq(Nat) /\ Lone(DelHook(id)) /\ Els(DelHook(id)) \subseteq Els(hook_list) /\ id \notin Els(DelHook(id))
    BY <1>1, <1>5, DelHookIs
  <1>10. Popped(acts, Front(acts)) /\ Front(acts) \in Seq(Acts)
    BY <1>1, <1>2, FrontPopped, PopIs
  <1>11. module_list' \in Seq(Entries) /\ Els(module_list') \subseteq Els(module_list)
    <2>1. CASE "torn" \in what
      BY <1>1, <1>4, <2>1
    <2>2. CASE "torn" \notin what
      <3>1. Cut(o, i) \in Seq(Entries) /\ Els(Cut(o, i)) \subseteq Els(module_list)
        BY <1>1, <1>8, <2>2, CutTyped
      <3> QED  BY <1>4, <2>2, <3>1
    <2> QED  BY <2>1, <2>2
  <1> HIDE DEF what, i, o, id
  <1>12. Typed'
    <2>1. dependancy_list' \subseteq [needing : Nat, needed : Nat]
      BY <1>1, <1>3 DEF Undepended
    <2>2. \A f \in Els(module_list') : f.id \in 1..asks'.made
      BY <1>1, <1>3, <1>11
    <2>3. asks' \in [made : Nat, n : Nat, restart : BOOLEAN]
      BY <1>3, TypedIs DEF IInv
    <2> QED  BY <1>3, <1>6, <1>9, <1>10, <1>11, <2>1, <2>2, <2>3 DEF Typed
  <1>13. ASSUME what = {}
         PROVE  Right(module_list', dependancy_list', hook_list', acts', asks'.made)
    <2> DEFINE x == module_list[i]
    <2>1. i \in 1..Len(module_list) /\ x.id = id
      BY <1>8, <1>13
    <2>2. o = None => Head(module_list).id = id
      BY <1>13 DEF what, Mishap
    <2>3. \A d \in dependancy_list : d.needed = id => ~(d.needing > Top.since)
      BY <1>13 DEF what, Mishap
    <2>4. \A j \in 1..Len(acts) : Starts(acts[j]) => acts[j].id # id
      BY <1>13 DEF what, Mishap, Starts
    <2>5. \A d \in dependancy_list : d.needed # id
      BY <1>2, <1>5, <2>3 DEF Sound, Asked, id
    <2>6. Goes(x, Els(module_list), dependancy_list)
      BY <2>1, <2>5 DEF Goes, Els
    <2>7. Cut(o, i) = Without(module_list, i)
      <3>1. CASE o = None
        <4>1. module_list # <<>>
          BY <1>1, <2>1, EmptySeq
        <4>2. Head(module_list) = module_list[1] /\ 1 \in 1..Len(module_list)
          BY <1>1, <4>1, TailIs
        <4>3. module_list[1] \in Els(module_list) /\ x \in Els(module_list)
          BY <2>1, <4>2 DEF Els
        <4>4. module_list[1].id = x.id
          BY <2>1, <2>2, <3>1, <4>2
        <4>5. module_list[1] = x
          BY <1>1, <1>5, <4>3, <4>4, Distinct
        <4>6. i = 1
          BY <1>5, <2>1, <4>2, <4>5 DEF Whole
        <4>7. SubSeq(module_list, 1, i - 1) = <<>>
          BY <1>1, <4>6
        <4> QED  BY <3>1, <4>7 DEF Cut, Without
      <3>2. CASE o # None
        BY <3>2 DEF Cut, Without
      <3> QED  BY <3>1, <3>2
    <2>8. dependancy_list' = LeftBy(x, dependancy_list)
      BY <1>3, <2>1 DEF Undepended, LeftBy
    <2>9. \A j \in 1..Len(acts) - 1 : j \in 1..Len(acts)
      <3>1. Len(acts) \in Nat
        BY <1>1
      <3> QED  BY <3>1
    <2>10. \A j \in 1..Len(acts) - 1 : Starts(acts[j]) => acts[j].id # x.id
      BY <2>1, <2>4, <2>9
    <2>11. ~Starts(acts[Len(acts)])
      BY <1>2, <1>5 DEF Starts
    <2>12. x.id \notin Els(DelHook(id))
      BY <1>9, <2>1
    <2> HIDE DEF x
    <2>13. Right(Without(module_list, i), LeftBy(x, dependancy_list), DelHook(id), Front(acts), asks.made)
      BY <1>1, <1>2, <1>5, <1>9, <1>10, <2>1, <2>6, <2>10, <2>11, <2>12, GoneRight DEF x
    <2>14. module_list' = Without(module_list, i)
      BY <1>4, <1>13, <2>7
    <2> QED  BY <1>3, <2>8, <2>13, <2>14
  <1> QED  BY <1>3, <1>12, <1>13 DEF IInv

LEMMA AfterTyped ==
  ASSUME hook_list \in Seq(Nat), NEW id
  PROVE  After(id) \in Nat
  <1> DEFINE later == {j \in 1..Len(hook_list) : \E i \in 1..j - 1 : hook_list[i] = id}
  <1>1. CASE later = {}
    BY <1>1 DEF After, None
  <1>2. CASE later # {}
    <2>1. Min(later) \in later
      <3>1. later \subseteq Nat
        OBVIOUS
      <3> HIDE DEF later
      <3> QED  BY <1>2, <3>1, MinIs
    <2>2. Min(later) \in 1..Len(hook_list)
      BY <2>1
    <2>3. hook_list[Min(later)] \in Nat
      BY <2>2, ElementOf
    <2> QED  BY <1>2, <2>3 DEF After
  <1> QED  BY <1>1, <1>2

LEMMA HookOfIs ==
  ASSUME Typed, NEW id \in Nat
  PROVE  HookOf(id) \in Acts /\ HookOf(id).kind = "hook" /\ HookOf(id).since = asks.made
  <1> DEFINE nobody == ""
             c == Act("hook", id, nobody, After(id))
             phase == IF id = 1 THEN "script" ELSE "runs"
             a == [c EXCEPT !.phase = phase]
  <1>1. After(id) \in Nat
    BY AfterTyped DEF Typed
  <1>2. nobody \in Names /\ "hook" \in Kinds
    BY DEF Names, Kinds
  <1> HIDE DEF nobody
  <1>3. c \in Acts /\ c.kind = "hook" /\ c.since = asks.made
    BY <1>1, <1>2, ActIs
  <1>4. phase \in Phases
    BY DEF Phases
  <1>5. HookOf(id) = a
    BY DEF HookOf, nobody
  <1> HIDE DEF c, phase
  <1>6. a \in Acts /\ a.kind = "hook" /\ a.since = asks.made
    BY <1>3, <1>4, InPhase
  <1> QED  BY <1>5, <1>6

\* A hook begins, when nothing else runs.
LEMMA HookBegins ==
  ASSUME IInv, mishap = {}, mishap' = {}, Right(module_list, dependancy_list, hook_list, <<>>, asks.made),
         NEW id \in Nat, acts' = <<HookOf(id)>>, UNCHANGED <<module_list, dependancy_list, hook_list, asks>>
  PROVE  IInv'
  <1> DEFINE a == HookOf(id)
  <1>1. /\ module_list \in Seq(Entries) /\ hook_list \in Seq(Nat) /\ asks.made \in Nat
    BY TypedIs DEF IInv
  <1>2. a \in Acts /\ a.kind = "hook" /\ a.since = asks.made
    BY HookOfIs DEF IInv
  <1>3. acts' = Append(<<>>, a)
    <2>1. \A x : <<x>> = Append(<<>>, x)
      OBVIOUS
    <2> QED  BY <2>1
  <1> HIDE DEF a
  <1>4. <<>> \in Seq(Acts)
    OBVIOUS
  <1>5. Right(module_list, dependancy_list, hook_list, Append(<<>>, a), asks.made)
    BY <1>1, <1>2, <1>4, PushRight
  <1>6. Append(<<>>, a) \in Seq(Acts)
    BY <1>2, <1>4, PushIs
  <1>7. Typed'
    BY <1>3, <1>6 DEF IInv, Typed
  <1> QED  BY <1>3, <1>5, <1>7 DEF IInv

LEMMA Calls ==
  ASSUME IInv, CallHook
  PROVE  IInv'
  <1>1. mishap = {} /\ mishap' = {} /\ acts = <<>> /\ hook_list # <<>> /\ acts' = <<HookOf(Head(hook_list))>>
        /\ UNCHANGED <<module_list, dependancy_list, hook_list, asks>>
    BY DEF CallHook
  <1>2. Head(hook_list) \in Nat
    <2>1. hook_list \in Seq(Nat)
      BY TypedIs DEF IInv
    <2>2. Head(hook_list) = hook_list[1] /\ 1 \in 1..Len(hook_list)
      BY <1>1, <2>1, TailIs
    <2> QED  BY <2>1, <2>2, ElementOf
  <1>3. Right(module_list, dependancy_list, hook_list, <<>>, asks.made)
    BY <1>1 DEF IInv
  <1> QED  BY <1>1, <1>2, <1>3, HookBegins

LEMMA CallsNext ==
  ASSUME IInv, NextHook
  PROVE  IInv'
  <1> DEFINE pn == Top.other
  <1>1. mishap = {} /\ acts # <<>> /\ Top.kind = "hook"
    BY DEF NextHook, In
  <1>2. /\ mishap' = IF pn # None /\ pn \notin Range(hook_list) THEN {"torn"} ELSE {}
        /\ acts' = IF pn = None \/ mishap' # {} THEN <<>> ELSE <<HookOf(pn)>>
        /\ UNCHANGED <<module_list, dependancy_list, hook_list, asks>>
    BY DEF NextHook
  <1>3. module_list \in Seq(Entries) /\ hook_list \in Seq(Nat) /\ acts \in Seq(Acts) /\ asks.made \in Nat
    BY TypedIs DEF IInv
  <1>4. /\ Right(module_list, dependancy_list, hook_list, acts, asks.made)
        /\ Len(acts) \in 1..Len(acts) /\ Top = acts[Len(acts)] /\ Top \in Acts
    BY <1>1, RightIs
  <1>5. pn \in Nat
    BY <1>4, ActTyped
  <1>6. Len(acts) = 1
    BY <1>1, <1>4 DEF Right, Stacked
  <1>7. Front(acts) = <<>>
    <2>1. Front(acts) \in Seq(Acts) /\ Len(Front(acts)) = 0
      BY <1>1, <1>3, <1>6, PopIs
    <2> QED  BY <2>1, EmptySeq
  <1>8. Right(module_list, dependancy_list, hook_list, <<>>, asks.made)
    <2>1. Popped(acts, Front(acts))
      BY <1>1, <1>3, FrontPopped
    <2>2. ~Starts(acts[Len(acts)])
      BY <1>1, <1>4 DEF Starts
    <2>3. Popped(acts, <<>>)
      BY <1>7, <2>1
    <2> QED  BY <1>1, <1>3, <1>4, <2>2, <2>3, PopRight
  <1> HIDE DEF pn
  <1>9. CASE acts' = <<>>
    <2>1. mishap' \subseteq {"torn", "lost", "left"}
      BY <1>2
    <2>2. Typed'
      BY <1>2, <1>9, <2>1 DEF IInv, Typed
    <2>3. Right(module_list', dependancy_list', hook_list', acts', asks'.made)
      BY <1>2, <1>8, <1>9
    <2> QED  BY <2>2, <2>3 DEF IInv
  <1>10. CASE mishap' = {} /\ acts' = <<HookOf(pn)>>
    BY <1>1, <1>2, <1>5, <1>8, <1>10, HookBegins
  <1> QED  BY <1>2, <1>9, <1>10

LEMMA Restarts ==
  ASSUME IInv, Restart
  PROVE  IInv'
  <1>1. asks' = [asks EXCEPT !.restart = TRUE, !.n = MaxLoads]
        /\ UNCHANGED <<module_list, dependancy_list, hook_list, acts, mishap>>
    BY DEF Restart
  <1>2. asks \in [made : Nat, n : Nat, restart : BOOLEAN] /\ MaxLoads \in Nat
    BY TypedIs, FirstIs DEF IInv
  <1>3. asks' \in [made : Nat, n : Nat, restart : BOOLEAN] /\ asks'.made = asks.made
    BY <1>1, <1>2
  <1>4. Typed'
    BY <1>1, <1>3 DEF IInv, Typed
  <1> QED  BY <1>1, <1>3, <1>4 DEF IInv

LEMMA Loads ==
  ASSUME IInv, NEW m \in Mods, ModuleLoad(m)
  PROVE  IInv'
  <1>1. mishap = {} /\ ~Found(m) /\ LoadBegins(m) /\ (acts # <<>> => Top.phase = "script")
    BY DEF ModuleLoad, MayAsk
  <1>2. asks' = [asks EXCEPT !.made = @ + 1, !.n = @ + 1] /\ UNCHANGED <<dependancy_list, hook_list, mishap>>
    BY DEF ModuleLoad
  <1>3. asks \in [made : Nat, n : Nat, restart : BOOLEAN]
    BY TypedIs DEF IInv
  <1>4. asks' \in [made : Nat, n : Nat, restart : BOOLEAN] /\ asks'.made = asks.made + 1
    BY <1>2, <1>3, AsksBoth
  <1> QED  BY <1>1, <1>2, <1>4, LoadBegun

LEMMA LoadsNeeded ==
  ASSUME IInv, DependLoads
  PROVE  IInv'
  <1>1. mishap = {} /\ acts # <<>> /\ Top.kind = "load" /\ Top.phase = "start" /\ Waits(Top) /\ ~Found(Want) /\ LoadBegins(Want)
    BY DEF DependLoads, Asks, In, Waits
  <1>2. asks' = [asks EXCEPT !.made = @ + 1] /\ UNCHANGED <<dependancy_list, hook_list, mishap>>
    BY DEF DependLoads
  <1>3. asks \in [made : Nat, n : Nat, restart : BOOLEAN]
    BY TypedIs DEF IInv
  <1>4. asks' \in [made : Nat, n : Nat, restart : BOOLEAN] /\ asks'.made = asks.made + 1
    BY <1>2, <1>3, AsksTyped
  <1>5. Starts(Top)
    BY <1>1 DEF Starts
  <1>6. Needs[Top.name] \in Seq(Mods) /\ Top.k \in 1..Len(Needs[Top.name])
    BY <1>1, <1>5, StartIs
  <1>7. Want \in Mods
    BY <1>6, ElementOf DEF Want
  <1> QED  BY <1>1, <1>2, <1>4, <1>7, LoadBegun

LEMMA StepRight == IInv /\ [NextModules]_moduleVars => IInv'
  <1> SUFFICES ASSUME IInv, [NextModules]_moduleVars
               PROVE  IInv'
    OBVIOUS
  <1>1. CASE UNCHANGED moduleVars
    <2>1. module_list' = module_list /\ dependancy_list' = dependancy_list /\ hook_list' = hook_list
          /\ acts' = acts /\ mishap' = mishap /\ asks' = asks
      BY <1>1 DEF moduleVars
    <2>2. Typed'
      BY <2>1 DEF IInv, Typed
    <2> QED  BY <2>1, <2>2 DEF IInv
  <1>2. CASE NextModules
    BY <1>2, Loads, Unloads, LoadsNeeded, Depends, Fails, Ends, Returns, Undone, Calls, CallsNext, Restarts, RestartsUnload
       DEF NextModules
  <1> QED  BY <1>1, <1>2

-----------------------------------------------------------------------------
(* What a reader sees of it.                                                *)

LEMMA RightIsTrue ==
  ASSUME IInv
  PROVE  ModulesKept
  <1>1. /\ module_list \in Seq(Entries) /\ hook_list \in Seq(Nat) /\ acts \in Seq(Acts)
        /\ \A f \in Els(module_list) : f.id \in 1..asks.made
    BY TypedIs DEF IInv
  <1>2. ModulesTypeOK
    <2>1. ASSUME NEW i \in 1..Len(module_list)
          PROVE  module_list[i].id \in 1..asks.made /\ module_list[i].name \in Mods
      BY <1>1, ElementOf, EntryTyped DEF Els
    <2>2. ASSUME NEW i \in 1..Len(acts)
          PROVE  acts[i].kind \in {"load", "unload", "hook"}
      BY <1>1, ElementOf, ActTyped DEF Kinds
    <2> QED  BY <2>1, <2>2, TypedIs DEF ModulesTypeOK, IInv
  <1>3. ASSUME mishap = {}
        PROVE  Right(module_list, dependancy_list, hook_list, acts, asks.made)
    BY <1>3 DEF IInv
  <1>4. Range(module_list) = Els(module_list) /\ Range(hook_list) = Els(hook_list)
    BY <1>1, RangeIsEls
  <1>5. ListTrue
    <2> SUFFICES ASSUME mishap = {}
                 PROVE  /\ IsInjective([i \in 1..Len(module_list) |-> module_list[i].name])
                        /\ \A d \in dependancy_list : Here(module_list, d.needing) /\ Here(module_list, d.needed)
                        /\ \A e \in Range(module_list) : e.id \notin Starting =>
                             \A n \in Range(Needs[e.name]) :
                               \E d \in dependancy_list : d.needing = e.id /\ Found(n) /\ d.needed = ModuleFind(n).id
                        /\ \A h \in Range(hook_list) : Here(module_list, h)
      BY DEF ListTrue
    <2>1. Right(module_list, dependancy_list, hook_list, acts, asks.made)
      BY <1>3
    <2>2. Whole(module_list)
      BY <2>1 DEF Right
    <2>3. IsInjective([i \in 1..Len(module_list) |-> module_list[i].name])
      BY <2>2 DEF Whole, IsInjective
    <2>4. ASSUME NEW d \in dependancy_list
          PROVE  Here(module_list, d.needing) /\ Here(module_list, d.needed)
      <3>1. \E e, f \in Els(module_list) : e.id = d.needing /\ f.id = d.needed
        BY <2>1 DEF Right, Known
      <3> QED  BY <3>1, HereIs
    <2>5. Starting = Begins(acts)
      BY DEF Starting, Begins, Starts
    <2>6. ASSUME NEW e \in Els(module_list), e.id \notin Starting, NEW n \in Range(Needs[e.name])
          PROVE  \E d \in dependancy_list : d.needing = e.id /\ Found(n) /\ d.needed = ModuleFind(n).id
      <3>1. HasNeed(Els(module_list), dependancy_list, e.id, n)
        BY <2>1, <2>5, <2>6 DEF Right, Served
      <3>2. PICK f \in Els(module_list) : f.name = n /\ Dep(e.id, f.id) \in dependancy_list
        BY <3>1 DEF HasNeed
      <3>3. ModuleFind(n) = f /\ Found(n)
        BY <1>1, <2>2, <3>2, ModuleFindIs, FoundIs
      <3>4. Dep(e.id, f.id).needing = e.id /\ Dep(e.id, f.id).needed = f.id
        BY DEF Dep
      <3> QED  BY <3>2, <3>3, <3>4
    <2>7. \A h \in Els(hook_list) : Here(module_list, h)
      BY <2>1, HereIs DEF Right, Hooks
    <2> QED  BY <1>4, <2>3, <2>4, <2>6, <2>7
  <1>6. RestartClears
    <2> SUFFICES ASSUME mishap = {}, acts = <<>>, CanGo = {}, NEW e \in Els(module_list), e.name \notin Refuses
                 PROVE  \E f \in Els(module_list) : e.name \in Range(Needs[f.name])
      BY <1>4 DEF RestartClears
    <2>1. Right(module_list, dependancy_list, hook_list, acts, asks.made)
      BY <1>3
    <2>2. PICK i \in 1..Len(module_list) : e = module_list[i]
      BY DEF Els
    <2>3. Needed(e.id)
      BY <2>2 DEF CanGo
    <2>4. PICK d \in dependancy_list : d.needed = e.id
      BY <2>3 DEF Needed
    <2>5. PICK f \in Els(module_list), g \in Els(module_list) :
             f.id = d.needing /\ g.id = d.needed /\ g.name \in Range(Needs[f.name])
      BY <2>1 DEF Right, Known
    <2>6. g = e
      BY <1>1, <2>1, <2>4, <2>5, Distinct DEF Right
    <2> QED  BY <2>5, <2>6
  <1> QED  BY <1>2, <1>5, <1>6 DEF ModulesKept

\* For any modules and needs: as long as no script has changed the list under an unloading, every
\* module is there once and with all that it needs, what is noted as needed and as needing is
\* there, and so are those whose hooks are called; a restart leaves what does not close and what that needs.
THEOREM ModulesAreKept == SpecModules => []ModulesKept
  <1>1. InitModules => IInv
    BY InitRight
  <1>2. IInv /\ [NextModules]_moduleVars => IInv'
    BY StepRight
  <1>3. IInv => ModulesKept
    BY RightIsTrue
  <1> QED  BY <1>1, <1>2, <1>3, PTL DEF SpecModules

=============================================================================
