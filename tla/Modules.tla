------------------------------ MODULE Modules ------------------------------
(***************************************************************************)
(* The modules, what they need of each other, and their hooks (modules.c).   *)
(* Loading runs a module's start, which loads what it needs; when one is     *)
(* loaded or about to be unloaded scripts run, which load and unload others.  *)
(* Each loading makes an entry with a number of its own.                      *)
(*                                                                         *)
(* What is done with an entry that has been freed is undefined: "torn", and   *)
(* nothing more is said then.  Left out: versions, the linker, and what a     *)
(* module does when it starts and closes but for its needs and its hook.      *)
(***************************************************************************)
EXTENDS Integers, Sequences, FiniteSets, FiniteSetsExt, SequencesExt

CONSTANTS
  Mods,         \* modules' names, "core" among them
  Needs,        \* Needs[m]: what its start asks for, in order
  Missing,      \* those that cannot be found
  MayFail,      \* those whose start may fail for another reason
  Refuses,      \* those that do not close
  Hooked,       \* those that have a hook for each minute
  AtFirst,      \* what is loaded at first, in order, "core" before all
  MaxLoads      \* bound: loadings and unloadings that are asked for

VARIABLES module_list, dependancy_list, hook_list, acts, mishap, asks
moduleVars == <<module_list, dependancy_list, hook_list, acts, mishap, asks>>

\* Who is loaded at first is there once, with all it needs.
ASSUME ModulesAssumption ==
  /\ Needs \in [Mods -> Seq(Mods)] /\ AtFirst \in Seq(Mods) /\ AtFirst # <<>> /\ MaxLoads \in Nat
  /\ \A i, j \in 1..Len(AtFirst) : AtFirst[i] = AtFirst[j] => i = j
  /\ \A i \in 1..Len(AtFirst) : Range(Needs[AtFirst[i]]) \subseteq Range(AtFirst)

None == 0
ModuleEntry(id, m) == [id |-> id, name |-> m]
IdOf(m) == CHOOSE i \in 1..Len(AtFirst) : AtFirst[i] = m
\* The hooks of the first i that are loaded but the core, the latest first.
HooksOf[i \in 0..Len(AtFirst)] ==
  IF i <= 1 THEN <<>> ELSE (IF AtFirst[i] \in Hooked THEN <<i>> ELSE <<>>) \o HooksOf[i - 1]
\* The core's own hook is added when all others have been loaded, and so comes first.
InitModules ==
  /\ module_list = Reverse([i \in 1..Len(AtFirst) |-> ModuleEntry(i, AtFirst[i])])
  /\ dependancy_list = UNION {{[needing |-> i, needed |-> IdOf(n)] : n \in Range(Needs[AtFirst[i]])} : i \in 1..Len(AtFirst)}
  /\ hook_list = <<1>> \o HooksOf[Len(AtFirst)]
  /\ acts = <<>> /\ mishap = {}
  /\ asks = [made |-> Len(AtFirst), n |-> 0, restart |-> FALSE]

\* module_find
Found(m) == \E i \in 1..Len(module_list) : module_list[i].name = m
At(list, id) == CHOOSE i \in 1..Len(list) : list[i].id = id
Here(list, id) == \E i \in 1..Len(list) : list[i].id = id
ModuleFind(m) == module_list[Min({i \in 1..Len(module_list) : module_list[i].name = m})]
Needed(id) == \E d \in dependancy_list : d.needed = id
\* module_undepend
Undepended(id) == {d \in dependancy_list : d.needing # id}

\* What runs, the innermost last: a start, an unloading, the hooks of a minute.
Act(kind, id, name, other) == [kind |-> kind, id |-> id, name |-> name, k |-> 1, since |-> asks.made, other |-> other, phase |-> "start"]
Top == acts[Len(acts)]
SetTop(a) == [acts EXCEPT ![Len(acts)] = a]
In(kind, phase) == mishap = {} /\ acts # <<>> /\ Top.kind = kind /\ Top.phase = phase
MayAsk == mishap = {} /\ (acts # <<>> => Top.phase = "script") /\ asks.n < MaxLoads
\* What a start waits for has ended, well or not.
Told(as, phase) ==
  IF as # <<>> /\ Last(as).kind = "load" /\ Last(as).phase = "start"
  THEN [as EXCEPT ![Len(as)].phase = phase] ELSE as

-----------------------------------------------------------------------------
(* module_load                                                              *)

LoadBegins(m) ==
  /\ module_list' = <<ModuleEntry(asks.made + 1, m)>> \o module_list
  /\ acts' = Append(acts, Act("load", asks.made + 1, m, None))
ModuleLoad(m) ==
  /\ MayAsk /\ ~Found(m) /\ m \notin Missing
  /\ LoadBegins(m)
  /\ asks' = [asks EXCEPT !.made = @ + 1, !.n = @ + 1]
  /\ UNCHANGED <<dependancy_list, hook_list, mishap>>
\* module_depend, of a start: what is not there is loaded.
Asks == In("load", "start") /\ Top.k <= Len(Needs[Top.name])
Want == Needs[Top.name][Top.k]
DependLoads ==
  /\ Asks /\ ~Found(Want) /\ Want \notin Missing
  /\ LoadBegins(Want)
  /\ asks' = [asks EXCEPT !.made = @ + 1]
  /\ UNCHANGED <<dependancy_list, hook_list, mishap>>
Finds == Asks \/ In("load", "loaded")
ModuleDepend ==
  /\ Finds /\ Found(Want) /\ Found(Top.name)
  /\ dependancy_list' = dependancy_list \cup {[needing |-> ModuleFind(Top.name).id, needed |-> ModuleFind(Want).id]}
  /\ acts' = SetTop([Top EXCEPT !.k = @ + 1, !.phase = "start"])
  /\ UNCHANGED <<module_list, hook_list, mishap, asks>>
\* A start that fails: the first of the list is taken off, and the module's own entry freed.
\* Mutant: what it needed stays noted.
StartFailsNoted ==
  LET without == \/ Asks /\ Want \in Missing /\ ~Found(Want)
                 \/ In("load", "loaded") /\ ~(Found(Want) /\ Found(Top.name))
                 \/ In("load", "failed")
      done == In("load", "start") /\ Top.k > Len(Needs[Top.name]) /\ Top.name \in MayFail
  IN /\ without \/ done
     /\ module_list' = Tail(module_list)
     /\ mishap' = IF Head(module_list).id = Top.id THEN {} ELSE {"torn"}
     /\ acts' = Told(Front(acts), "failed")
     /\ UNCHANGED <<dependancy_list, hook_list, asks>>
StartFails ==
  LET without == \/ Asks /\ Want \in Missing /\ ~Found(Want)
                 \/ In("load", "loaded") /\ ~(Found(Want) /\ Found(Top.name))
                 \/ In("load", "failed")
      done == In("load", "start") /\ Top.k > Len(Needs[Top.name]) /\ Top.name \in MayFail
  IN /\ without \/ done
     /\ dependancy_list' = Undepended(Top.id)
     /\ module_list' = Tail(module_list)
     /\ mishap' = IF Head(module_list).id = Top.id THEN {} ELSE {"torn"}
     /\ acts' = Told(Front(acts), "failed")
     /\ UNCHANGED <<hook_list, asks>>
\* One that succeeds: its hook is added, and scripts are told.
StartEnds ==
  /\ In("load", "start") /\ Top.k > Len(Needs[Top.name])
  /\ hook_list' = IF Top.name \in Hooked THEN <<Top.id>> \o hook_list ELSE hook_list
  /\ acts' = SetTop([Top EXCEPT !.phase = "script"])
  /\ UNCHANGED <<module_list, dependancy_list, mishap, asks>>
LoadReturns ==
  /\ In("load", "script")
  /\ acts' = Told(Front(acts), "loaded")
  /\ UNCHANGED <<module_list, dependancy_list, hook_list, mishap, asks>>

-----------------------------------------------------------------------------
(* module_unload: whether it is needed is asked, then scripts are told, then  *)
(* it is closed, and unlinked from what came before it at first.               *)

Prior(id) == IF Head(module_list).id = id THEN None ELSE module_list[At(module_list, id) - 1].id
\* Mutant: what is needed is unloaded.
ModuleUnloadNeeded(m) ==
  /\ MayAsk /\ Found(m)
  /\ acts' = Append(acts, [Act("unload", ModuleFind(m).id, m, Prior(ModuleFind(m).id)) EXCEPT !.phase = "script"])
  /\ asks' = [asks EXCEPT !.n = @ + 1]
  /\ UNCHANGED <<module_list, dependancy_list, hook_list, mishap>>
ModuleUnload(m) ==
  /\ MayAsk /\ Found(m) /\ ~Needed(ModuleFind(m).id)
  /\ acts' = Append(acts, [Act("unload", ModuleFind(m).id, m, Prior(ModuleFind(m).id)) EXCEPT !.phase = "script"])
  /\ asks' = [asks EXCEPT !.n = @ + 1]
  /\ UNCHANGED <<module_list, dependancy_list, hook_list, mishap>>
Refused ==
  /\ In("unload", "script") /\ Top.name \in Refuses
  /\ acts' = Front(acts)
  /\ UNCHANGED <<module_list, dependancy_list, hook_list, mishap, asks>>
\* When a script has changed the list meanwhile: what came before may be gone, or it itself; what was
\* loaded first may be lost, and what now needs it be left without.
Mishap(id, o, since) ==
  {x \in {"torn", "lost", "left"} :
     CASE x = "torn" -> ~Here(module_list, id) \/ (o # None /\ ~Here(module_list, o))
                          \/ \E i \in 1..Len(acts) : acts[i].kind = "load" /\ acts[i].id = id /\ acts[i].phase # "script"
       [] x = "lost" -> o = None /\ Head(module_list).id # id
       [] OTHER -> \E d \in dependancy_list : d.needed = id /\ d.needing > since}
\* del_hook: the first that is the module's.
DelHook(id) ==
  LET at == {j \in 1..Len(hook_list) : hook_list[j] = id}
  IN IF at = {} THEN hook_list ELSE RemoveAt(hook_list, Min(at))
\* Mutant: the hook stays.
UnloadedHook ==
  LET id == Top.id  o == Top.other  what == Mishap(id, o, Top.since)
  IN /\ In("unload", "script") /\ Top.name \notin Refuses
     /\ dependancy_list' = Undepended(id) /\ UNCHANGED <<hook_list, asks>>
     /\ mishap' = what /\ acts' = Front(acts)
     /\ module_list' =
          IF "torn" \in what THEN module_list
          ELSE LET i == At(module_list, id)
               IN (IF o = None THEN <<>> ELSE SubSeq(module_list, 1, i - 1)) \o SubSeq(module_list, i + 1, Len(module_list))
Unloaded ==
  LET id == Top.id  o == Top.other  what == Mishap(id, o, Top.since)
  IN /\ In("unload", "script") /\ Top.name \notin Refuses
     /\ dependancy_list' = Undepended(id) /\ hook_list' = DelHook(id)
     /\ mishap' = what /\ acts' = Front(acts) /\ UNCHANGED asks
     /\ module_list' =
          IF "torn" \in what THEN module_list
          ELSE LET i == At(module_list, id)
               IN (IF o = None THEN <<>> ELSE SubSeq(module_list, 1, i - 1)) \o SubSeq(module_list, i + 1, Len(module_list))

-----------------------------------------------------------------------------
(* call_hook, which keeps the next one while one runs; the core's runs scripts.  *)

After(id) == LET later == {j \in 1..Len(hook_list) : \E i \in 1..j - 1 : hook_list[i] = id}
             IN IF later = {} THEN None ELSE hook_list[Min(later)]
HookOf(id) == [Act("hook", id, "", After(id)) EXCEPT !.phase = IF id = 1 THEN "script" ELSE "runs"]
CallHook ==
  /\ mishap = {} /\ acts = <<>> /\ asks.n < MaxLoads /\ hook_list # <<>>
  /\ acts' = <<HookOf(Head(hook_list))>>
  /\ UNCHANGED <<module_list, dependancy_list, hook_list, mishap, asks>>
NextHook ==
  LET pn == Top.other
  IN /\ In("hook", "script") \/ In("hook", "runs")
     /\ mishap' = IF pn # None /\ pn \notin Range(hook_list) THEN {"torn"} ELSE {}
     /\ acts' = IF pn = None \/ mishap' # {} THEN <<>> ELSE <<HookOf(pn)>>
     /\ UNCHANGED <<module_list, dependancy_list, hook_list, asks>>

-----------------------------------------------------------------------------
(* A restart (mainloop): as many as possible are unloaded.                    *)

Restart ==
  /\ mishap = {} /\ acts = <<>> /\ ~asks.restart
  /\ asks' = [asks EXCEPT !.restart = TRUE, !.n = MaxLoads]
  /\ UNCHANGED <<module_list, dependancy_list, hook_list, acts, mishap>>
CanGo == {i \in 1..Len(module_list) : ~Needed(module_list[i].id) /\ module_list[i].name \notin Refuses}
RestartUnloads ==
  /\ mishap = {} /\ acts = <<>> /\ asks.restart /\ CanGo # {}
  /\ LET e == module_list[Min(CanGo)]
     IN acts' = <<[Act("unload", e.id, e.name, Prior(e.id)) EXCEPT !.phase = "script"]>>
  /\ UNCHANGED <<module_list, dependancy_list, hook_list, mishap, asks>>

NextModules ==
  \/ \E m \in Mods : ModuleLoad(m) \/ ModuleUnload(m)
  \/ DependLoads \/ ModuleDepend \/ StartFails \/ StartEnds \/ LoadReturns \/ Refused \/ Unloaded
  \/ CallHook \/ NextHook \/ Restart \/ RestartUnloads
SpecModules == InitModules /\ [][NextModules]_moduleVars

-----------------------------------------------------------------------------
ModulesTypeOK ==
  /\ \A i \in 1..Len(module_list) : module_list[i].id \in 1..asks.made /\ module_list[i].name \in Mods
  /\ mishap \subseteq {"torn", "lost", "left"}
  /\ \A i \in 1..Len(acts) : acts[i].kind \in {"load", "unload", "hook"}

Starting == {acts[i].id : i \in {j \in 1..Len(acts) : acts[j].kind = "load" /\ acts[j].phase # "script"}}
\* While no script has changed the list under an unloading and no start failed that had loaded
\* another module: every module is there once, with all that it needs; what is noted as needed and
\* as needing is there; and the hooks are those of modules that are there.
ListTrue ==
  mishap = {} =>
    /\ IsInjective([i \in 1..Len(module_list) |-> module_list[i].name])
    /\ \A d \in dependancy_list : Here(module_list, d.needing) /\ Here(module_list, d.needed)
    /\ \A e \in Range(module_list) : e.id \notin Starting =>
         \A n \in Range(Needs[e.name]) :
           \E d \in dependancy_list : d.needing = e.id /\ Found(n) /\ d.needed = ModuleFind(n).id
    /\ \A h \in Range(hook_list) : Here(module_list, h)
\* At the end of a restart only what does not close is left, and what that needs.
RestartClears ==
  mishap = {} /\ asks.restart /\ acts = <<>> /\ CanGo = {} =>
    \A e \in Range(module_list) :
      e.name \in Refuses \/ \E f \in Range(module_list) : e.name \in Range(Needs[f.name])
\* The list of modules, what they need and their hooks are as they should be.
ModulesKept == ModulesTypeOK /\ ListTrue /\ RestartClears
=============================================================================
