------------------------------- MODULE Binds -------------------------------
(***************************************************************************)
(* A table of binds (tclhash.c), and the scripts that are run by it: while   *)
(* the table is walked they bind, unbind and cause further events.  A        *)
(* command has a number, so that one that is bound again is another one;      *)
(* what is deleted is only marked, until the main loop frees it.              *)
(*                                                                         *)
(* Left out: the arguments, and the masks that differ only in case.           *)
(***************************************************************************)
EXTENDS Integers, Sequences, FiniteSets, FiniteSetsExt, SequencesExt

CONSTANTS
  Masks, Procs,
  Events,       \* what happens
  Matches,      \* Matches[e]: the masks that e matches
  Exactly,      \* Exactly[e]: those it is the same as
  Rights,       \* Rights[e]: the flags that whoever causes e has
  Type,         \* "exact", "partial" or "mask"
  Stackable,    \* the table's flag, and what its events ask for
  Wants,        \* "none"; "one": a one ends it (WANTRET); "kept": it is kept (STACKRET);
                \* "empty": an empty answer ends it (ALTER_ARGS)
  First,        \* First: the masks with their procs that are bound at first
  BindFlags,    \* the flags that are bound with
  MaxDepth,     \* bound: walks in walks
  MaxChanges    \* bound: binds and unbinds

VARIABLES tl, walks, binds
vars == <<tl, walks, binds>>

None == 0
\* tl.masks is the list; tl.has what should be bound.
Mask(m, cmds) == [mask |-> m, cmds |-> cmds]
Cmd(id, proc, flags) == [id |-> id, proc |-> proc, flags |-> flags, deleted |-> FALSE]
Init ==
  /\ tl = [masks |-> [i \in 1..Len(First) |->
                        Mask(First[i][1], [j \in 1..Len(First[i][2]) |-> Cmd(10 * i + j, First[i][2][j], "-")])],
           made |-> 100, has |-> UNION {{<<First[i][1], p>> : p \in Range(First[i][2])} : i \in 1..Len(First)}]
  /\ walks = <<>> /\ binds = 0

Has(masks, m) == \E i \in 1..Len(masks) : masks[i].mask = m
At(masks, m) == CHOOSE i \in 1..Len(masks) : masks[i].mask = m
Live(cmds) == {j \in 1..Len(cmds) : ~cmds[j].deleted}
\* The places of commands that the event e meets and may run, behind the place <<i, j>>.
Met(masks, e, i, j) ==
  {p \in (1..Len(masks)) \X (1..9) :
     /\ p[1] > i \/ (p[1] = i /\ p[2] > j)
     /\ masks[p[1]].mask \in Matches[e] /\ p[2] \in Live(masks[p[1]].cmds)
     /\ masks[p[1]].cmds[p[2]].flags \in Rights[e]}
Earliest(ps) == CHOOSE p \in ps : \A q \in ps : p[1] < q[1] \/ (p[1] = q[1] /\ p[2] <= q[2])
Ids(masks, ps) == {masks[p[1]].cmds[p[2]].id : p \in ps}

-----------------------------------------------------------------------------
(* bind, unbind and the main loop.                                          *)

\* unbind_bind_entry
Unbound(masks, m, proc) ==
  LET i == At(masks, m)
      hits == {j \in Live(masks[i].cmds) : masks[i].cmds[j].proc = proc}
  IN IF Has(masks, m) /\ hits # {} THEN [masks EXCEPT ![i].cmds[Min(hits)].deleted = TRUE] ELSE masks
\* bind_bind_entry: a new mask, and a new command of a mask, come first; the same one gets other
\* flags.
\* Mutant: a new mask comes last.
BindBindEntryLast(masks, m, proc, flags, id) ==
  LET ms == IF Has(masks, m) THEN masks ELSE Append(masks, Mask(m, <<>>))
      i == At(ms, m)
      cmds == ms[i].cmds
      same == {j \in Live(cmds) : cmds[j].proc = proc}
      others == IF Stackable \/ Live(cmds) = {} THEN cmds ELSE [cmds EXCEPT ![Min(Live(cmds))].deleted = TRUE]
  IN IF same # {} THEN [ms EXCEPT ![i].cmds[Min(same)].flags = flags]
     ELSE [ms EXCEPT ![i].cmds = <<Cmd(id, proc, flags)>> \o others]
\* Mutant: a table that is not stackable keeps the old command.
BindBindEntryBoth(masks, m, proc, flags, id) ==
  LET ms == IF Has(masks, m) THEN masks ELSE <<Mask(m, <<>>)>> \o masks
      i == At(ms, m)
      cmds == ms[i].cmds
      same == {j \in Live(cmds) : cmds[j].proc = proc}
  IN IF same # {} THEN [ms EXCEPT ![i].cmds[Min(same)].flags = flags]
     ELSE [ms EXCEPT ![i].cmds = <<Cmd(id, proc, flags)>> \o cmds]
BindBindEntry(masks, m, proc, flags, id) ==
  LET ms == IF Has(masks, m) THEN masks ELSE <<Mask(m, <<>>)>> \o masks
      i == At(ms, m)
      cmds == ms[i].cmds
      same == {j \in Live(cmds) : cmds[j].proc = proc}
      others == IF Stackable \/ Live(cmds) = {} THEN cmds ELSE [cmds EXCEPT ![Min(Live(cmds))].deleted = TRUE]
  IN IF same # {} THEN [ms EXCEPT ![i].cmds[Min(same)].flags = flags]
     ELSE [ms EXCEPT ![i].cmds = <<Cmd(id, proc, flags)>> \o others]
\* garbage_collect_tclhash: what is marked, and masks that have no command.
Collected(masks) ==
  SelectSeq([i \in 1..Len(masks) |-> [masks[i] EXCEPT !.cmds = SelectSeq(@, LAMBDA c : ~c.deleted)]],
            LAMBDA m : m.cmds # <<>>)

-----------------------------------------------------------------------------
(* check_tcl_bind.  A walk stands at a command (mask, id) that it has run or   *)
(* chosen, and goes on in the list as that is when the command has returned.  *)
(* cnt, tm_p and result are the code's.  before are the masks there were when  *)
(* it began; due what was met then and has not been changed; ran what was  *)
(* run; only, for a table that is not stackable, which one was to be run.      *)

\* The one that is meant, None if it is not clear.
Meant(masks, e) ==
  LET met == Met(masks, e, 0, 0)
      same == {p \in met : masks[p[1]].mask \in Exactly[e]}
  IN CASE same # {} -> masks[Earliest(same)[1]].cmds[Earliest(same)[2]].id
       [] same = {} /\ met # {} /\ (Type # "partial" \/ Cardinality(met) = 1) ->
            masks[Earliest(met)[1]].cmds[Earliest(met)[2]].id
       [] OTHER -> None
Walk(e) ==
  [event |-> e, mask |-> "", id |-> None, proc |-> "", cnt |-> 0, tm_p |-> "", result |-> 0, phase |-> "walk", ended |-> FALSE,
   before |-> {tl.masks[i].mask : i \in 1..Len(tl.masks)},
   due |-> Ids(tl.masks, Met(tl.masks, e, 0, 0)), only |-> Meant(tl.masks, e), ran |-> <<>>]
Top == walks[Len(walks)]
SetTop(f) == [walks EXCEPT ![Len(walks)] = f]
In(phase) == walks # <<>> /\ Top.phase = phase
\* Scripts act when none is run, or in the innermost one.
Idle == walks # <<>> => Top.phase \in {"run", "only"}

Where(masks, f) ==
  IF f.mask = "" THEN <<0, 0>>
  ELSE LET i == At(masks, f.mask) IN <<i, CHOOSE j \in 1..Len(masks[i].cmds) : masks[i].cmds[j].id = f.id>>
Behind(masks, f) == LET w == Where(masks, f) IN Met(masks, f.event, w[1], w[2])
Before(masks, i) == IF i = 1 THEN "" ELSE masks[i - 1].mask
Noted(f, p, n) ==
  LET m == tl.masks[p[1]].mask  c == tl.masks[p[1]].cmds[p[2]]
  IN [f EXCEPT !.mask = m, !.id = c.id, !.proc = c.proc, !.cnt = n, !.tm_p = Before(tl.masks, p[1])]
Run(f) == Append(f.ran, [mask |-> f.mask, proc |-> f.proc, id |-> f.id])

\* An event, of the bot's or by a script that runs.
CheckTclBind(e) ==
  /\ Idle /\ Len(walks) < MaxDepth
  /\ walks' = Append(walks, Walk(e))
  /\ UNCHANGED <<tl, binds>>
\* Stackable: the next that is met is run.
RunsNext ==
  /\ In("walk") /\ Stackable /\ Behind(tl.masks, Top) # {}
  /\ LET f == Noted(Top, Earliest(Behind(tl.masks, Top)), Top.cnt + 1)
     IN walks' = SetTop([f EXCEPT !.phase = "run", !.ran = Run(f)])
  /\ UNCHANGED <<tl, binds>>
\* Not stackable: the first one, or for parts of a mask the one that is the same, else the last.
\* Mutant: the same does not end the search.
ChoosesOneOfMany ==
  /\ In("walk") /\ ~Stackable
  /\ LET met == Met(tl.masks, Top.event, 0, 0)
         sure == {p \in met : Type # "partial"}
         last == CHOOSE p \in met : \A q \in met : q[1] <= p[1]
     IN /\ met # {}
        /\ walks' = SetTop([IF sure # {} THEN Noted(Top, Earliest(sure), 1) ELSE Noted(Top, last, Cardinality(met))
                            EXCEPT !.phase = "chosen"])
  /\ UNCHANGED <<tl, binds>>
ChoosesOne ==
  /\ In("walk") /\ ~Stackable
  /\ LET met == Met(tl.masks, Top.event, 0, 0)
         sure == {p \in met : Type # "partial" \/ tl.masks[p[1]].mask \in Exactly[Top.event]}
         last == CHOOSE p \in met : \A q \in met : q[1] <= p[1]
     IN /\ met # {}
        /\ walks' = SetTop([IF sure # {} THEN Noted(Top, Earliest(sure), 1) ELSE Noted(Top, last, Cardinality(met))
                            EXCEPT !.phase = "chosen"])
  /\ UNCHANGED <<tl, binds>>

\* The script of a walk in a stackable table has returned x.
\* Mutant: a one ends the walk though the others are to be run.
TriggerBindEnds(x) ==
  LET ends == (x = "empty" /\ Wants = "empty") \/ x = "one"
  IN /\ In("run") /\ UNCHANGED <<tl, binds>>
     /\ walks' = SetTop([Top EXCEPT !.phase = IF ends THEN "end" ELSE "walk", !.ended = ends /\ Wants \in {"one", "empty"},
                                    !.result = IF Wants = "kept" /\ x = "one" THEN 1 ELSE @])
TriggerBind(x) ==
  LET ends == x = Wants
  IN /\ In("run") /\ UNCHANGED <<tl, binds>>
     /\ walks' = SetTop([Top EXCEPT !.phase = IF ends THEN "end" ELSE "walk", !.ended = ends,
                                    !.result = IF Wants = "kept" /\ x = "one" THEN 1 ELSE @])
\* The mask behind tm_p comes first.
\* Mutant: it takes what was before it along.
PreferredLoses(masks, tm_p) ==
  IF tm_p = "" \/ At(masks, tm_p) = Len(masks) THEN masks
  ELSE LET i == At(masks, tm_p) + 1 IN SubSeq(masks, i, Len(masks))
Preferred(masks, tm_p) ==
  IF tm_p = "" \/ At(masks, tm_p) = Len(masks) THEN masks
  ELSE LET i == At(masks, tm_p) + 1 IN <<masks[i]>> \o RemoveAt(masks, i)
\* After the last: when there was exactly one it is preferred the next time, and if it was only
\* chosen it is run now; of masks with wildcards none is.  (For one in a stackable table "" is run.)
Finishes ==
  LET sole == Top.cnt = 1 /\ Top.result = 0 /\ Type # "mask"
      runs == sole /\ Top.phase = "chosen"
  IN /\ \/ In("chosen")
        \/ In("walk") /\ (IF Stackable THEN Behind(tl.masks, Top) ELSE Met(tl.masks, Top.event, 0, 0)) = {}
     /\ tl' = IF sole THEN [tl EXCEPT !.masks = Preferred(@, Top.tm_p)] ELSE tl
     /\ walks' = SetTop([Top EXCEPT !.phase = IF runs THEN "only" ELSE "end",
                                    !.ran = IF runs THEN Run(Top) ELSE @])
     /\ UNCHANGED binds
Returns ==
  /\ In("end") \/ In("only")
  /\ walks' = Front(walks) /\ UNCHANGED <<tl, binds>>

\* What is no longer bound as it was need not be run by those who walk.
Spared(masks) ==
  [i \in 1..Len(walks) |->
     [walks[i] EXCEPT !.due = @ \cap Ids(masks, Met(masks, walks[i].event, 0, 0))]]
Bind(m, proc, flags) ==
  /\ Idle /\ binds < MaxChanges /\ binds' = binds + 1
  /\ LET masks == BindBindEntry(tl.masks, m, proc, flags, tl.made)
         old == IF Stackable THEN {} ELSE {p \in tl.has : p[1] = m}
     IN /\ tl' = [masks |-> masks, made |-> tl.made + 1, has |-> (tl.has \ old) \cup {<<m, proc>>}]
        /\ walks' = Spared(masks)
Unbind(m, proc) ==
  /\ Idle /\ binds < MaxChanges /\ binds' = binds + 1
  /\ LET masks == Unbound(tl.masks, m, proc)
     IN tl' = [tl EXCEPT !.masks = masks, !.has = @ \ {<<m, proc>>}] /\ walks' = Spared(masks)
\* The main loop, which runs no script.
GarbageCollect ==
  /\ walks = <<>> /\ Collected(tl.masks) # tl.masks
  /\ tl' = [tl EXCEPT !.masks = Collected(@)]
  /\ UNCHANGED <<walks, binds>>

Next ==
  \/ \E e \in Events : CheckTclBind(e)
  \/ RunsNext \/ ChoosesOne \/ Finishes \/ Returns \/ GarbageCollect
  \/ \E x \in {"zero", "one", "empty"} : TriggerBind(x)
  \/ \E m \in Masks, proc \in Procs : Unbind(m, proc) \/ \E flags \in BindFlags : Bind(m, proc, flags)
Spec == Init /\ [][Next]_vars

-----------------------------------------------------------------------------
TypeOK ==
  /\ \A i \in 1..Len(tl.masks) : tl.masks[i].mask \in Masks /\ Len(tl.masks[i].cmds) <= 9
  /\ IsInjective([i \in 1..Len(tl.masks) |-> tl.masks[i].mask])
  /\ \A i \in 1..Len(walks) : walks[i].phase \in {"walk", "run", "chosen", "only", "end"}
  /\ binds \in 0..MaxChanges

\* What is bound is what was asked for, whatever is put first meanwhile and whatever is freed.
BoundTrue ==
  {<<tl.masks[p[1]].mask, tl.masks[p[1]].cmds[p[2]].proc>> :
     p \in {q \in (1..Len(tl.masks)) \X (1..9) : q[2] \in Live(tl.masks[q[1]].cmds)}} = tl.has
\* One event runs a command of a mask once, however often it is bound again, and only of masks that
\* there were when it happened (a new command of a mask that is still to come is run); so scripts
\* that bind make no event endless.
EachOnce ==
  \A i \in 1..Len(walks) :
    LET ran == walks[i].ran
    IN /\ IsInjective([j \in 1..Len(ran) |-> <<ran[j].mask, ran[j].proc>>])
       /\ \A j \in 1..Len(ran) : ran[j].mask \in walks[i].before
\* And all of them, in a stackable table, that stay as they are, unless one ends it.
NoneMissed ==
  \A i \in 1..Len(walks) :
    LET f == walks[i] IN Stackable /\ f.phase = "end" /\ ~f.ended => f.due \subseteq {r.id : r \in Range(f.ran)}
\* In another one the one that is meant, and no other.
OneMeant ==
  \A i \in 1..Len(walks) :
    LET f == walks[i]
    IN /\ ~Stackable /\ f.phase = "only" => Len(f.ran) = 1 /\ f.ran[1].id = f.only
       /\ ~Stackable /\ f.phase = "end" /\ Type # "mask" => f.only = None
=============================================================================
