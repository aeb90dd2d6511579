------------------------------- MODULE Timers -------------------------------
(***************************************************************************)
(* Scripts' timers (chanprog.c, tclmisc.c), of seconds and of minutes, and   *)
(* the clock that moves them (main.c).  While the timers of a kind are gone   *)
(* through their list is taken away, and scripts that run add, kill and       *)
(* restart.  wanted is what has been asked for, by the timers' numbers.       *)
(***************************************************************************)
EXTENDS Integers, Sequences, SequencesExt

CONSTANTS
  Times,        \* what timers are asked for, 0 too
  Counts,       \* how often they are to run, 0 for always
  PerMinute,    \* seconds of a minute
  Leaps,        \* how far the clock moves until it is looked at
  MaxNow,       \* bound: seconds
  MaxTimers,    \* bound: timers
  MayRestart    \* whether the bot may be restarted

\* tcl_timer and tcl_utimer refuse what is negative.
ASSUME TimersAssumption ==
  /\ Times \subseteq Nat /\ Counts \subseteq Nat
  /\ PerMinute \in Nat \ {0} /\ Leaps \subseteq Nat /\ {MaxNow, MaxTimers} \subseteq Nat

VARIABLES lists, run, clock, wanted
timerVars == <<lists, run, clock, wanted>>

Kinds == {"utimer", "timer"}
NoTimer == [id |-> 0, mins |-> 0, interval |-> 0, count |-> 0]
\* run.mark are those still to be gone through, run.old the one whose script runs; ticks tells how
\* often the kind has been gone through.
InitTimers ==
  /\ lists = [k \in Kinds |-> <<>>]
  /\ run = [kind |-> "none", mark |-> <<>>, old |-> NoTimer]
  /\ clock = [now |-> 0, lastmin |-> 0, ticks |-> [k \in Kinds |-> 0]]
  /\ wanted = <<>>

\* A timer that is asked for runs last + interval, at once is the next time.
AtLeastOne(n) == IF n > 0 THEN n ELSE 1
Asked(k, elapse, count) ==
  [kind |-> k, interval |-> AtLeastOne(elapse), count |-> count, last |-> clock.ticks[k], ran |-> 0, state |-> "on"]
InScript == run.old # NoTimer
MayAct == run.kind = "none" \/ InScript

-----------------------------------------------------------------------------
(* What scripts ask for.                                                    *)

\* add_timer: it comes first, with the next number of all; remove_timer, of a number that is in the
\* list once (NoneLost).
Added(list, elapse, count) ==
  <<[id |-> Len(wanted) + 1, mins |-> elapse, interval |-> elapse, count |-> count]>> \o list
Without(list, id) == RemoveAt(list, CHOOSE i \in 1..Len(list) : list[i].id = id)
\* tcl_timer, tcl_utimer
TclTimer(k, elapse, count) ==
  /\ MayAct /\ Len(wanted) < MaxTimers
  /\ wanted' = Append(wanted, Asked(k, elapse, count))
  /\ lists' = [lists EXCEPT ![k] = Added(@, elapse, count)]
  /\ UNCHANGED <<run, clock>>
\* tcl_killtimer, tcl_killutimer: only one that is in its list is found.
TclKilltimer(k, id) ==
  /\ MayAct /\ \E i \in 1..Len(lists[k]) : lists[k][i].id = id
  /\ lists' = [lists EXCEPT ![k] = Without(@, id)]
  /\ wanted' = [wanted EXCEPT ![id].state = "killed"]
  /\ UNCHANGED <<run, clock>>
\* wipe_timers, for a restart: those that are being gone through are not in their list.
WipeTimers ==
  /\ MayAct /\ MayRestart /\ lists # [k \in Kinds |-> <<>>]
  /\ lists' = [k \in Kinds |-> <<>>]
  /\ wanted' = [id \in DOMAIN wanted |->
       IF \E k \in Kinds : \E i \in 1..Len(lists[k]) : lists[k][i].id = id
       THEN [wanted[id] EXCEPT !.state = "killed"] ELSE wanted[id]]
  /\ UNCHANGED <<run, clock>>

-----------------------------------------------------------------------------
(* do_check_timers: the first of mark.                                      *)

Begun(k) ==
  /\ run' = [kind |-> k, mark |-> lists[k], old |-> NoTimer]
  /\ lists' = [lists EXCEPT ![k] = <<>>]
Less(t) == [t EXCEPT !.mins = IF @ > 0 THEN @ - 1 ELSE 0]
Back(t) == lists' = [lists EXCEPT ![run.kind] = <<t>> \o @]
\* It has more time, and goes back to its list.
GoesBack ==
  /\ run.mark # <<>> /\ ~InScript /\ Less(Head(run.mark)).mins > 0
  /\ Back(Less(Head(run.mark)))
  /\ run' = [run EXCEPT !.mark = Tail(@)]
  /\ UNCHANGED <<clock, wanted>>
\* Or its script is run.
Fires ==
  /\ run.mark # <<>> /\ ~InScript /\ Less(Head(run.mark)).mins = 0
  /\ run' = [run EXCEPT !.mark = Tail(@), !.old = Less(Head(run.mark))]
  /\ wanted' = [wanted EXCEPT ![Head(run.mark).id].ran = @ + 1]
  /\ UNCHANGED <<lists, clock>>
\* When it has returned: it is done, or begins anew.
\* Mutant: one of no number counts down as well.
HasRunCounts ==
  LET t == run.old
  IN /\ InScript /\ UNCHANGED clock
     /\ run' = [run EXCEPT !.old = NoTimer]
     /\ IF t.count <= 1
        THEN lists' = lists /\ wanted' = [wanted EXCEPT ![t.id].state = "done"]
        ELSE /\ Back([t EXCEPT !.mins = t.interval, !.count = @ - 1])
             /\ wanted' = [wanted EXCEPT ![t.id].last = clock.ticks[run.kind]]
\* Mutant: it goes on with the time that is left of it.
HasRunLate ==
  LET t == run.old
  IN /\ InScript /\ UNCHANGED clock
     /\ run' = [run EXCEPT !.old = NoTimer]
     /\ IF t.count = 1
        THEN lists' = lists /\ wanted' = [wanted EXCEPT ![t.id].state = "done"]
        ELSE /\ Back([t EXCEPT !.count = IF @ > 1 THEN @ - 1 ELSE @])
             /\ wanted' = [wanted EXCEPT ![t.id].last = clock.ticks[run.kind]]
HasRun ==
  LET t == run.old
  IN /\ InScript /\ UNCHANGED clock
     /\ run' = [run EXCEPT !.old = NoTimer]
     /\ IF t.count = 1
        THEN lists' = lists /\ wanted' = [wanted EXCEPT ![t.id].state = "done"]
        ELSE /\ Back([t EXCEPT !.mins = t.interval, !.count = IF @ > 1 THEN @ - 1 ELSE @])
             /\ wanted' = [wanted EXCEPT ![t.id].last = clock.ticks[run.kind]]

-----------------------------------------------------------------------------
(* core_secondly: once for all the seconds that have passed; core_minutely    *)
(* for each minute.                                                          *)

CoreSecondly(n) ==
  /\ run.kind = "none" /\ clock.now + n <= MaxNow
  /\ clock' = [clock EXCEPT !.now = @ + n, !.ticks["utimer"] = @ + 1]
  /\ Begun("utimer") /\ UNCHANGED wanted
AtEnd == run.kind # "none" /\ run.mark = <<>> /\ ~InScript
Minute == clock.now \div PerMinute
\* Mutant: only one minute is made up for.
CoreMinutelyOnce ==
  /\ AtEnd /\ Minute > clock.lastmin /\ run.kind = "utimer"
  /\ clock' = [clock EXCEPT !.lastmin = Minute, !.ticks["timer"] = @ + 1]
  /\ Begun("timer") /\ UNCHANGED wanted
CoreMinutely ==
  /\ AtEnd /\ Minute > clock.lastmin
  /\ clock' = [clock EXCEPT !.lastmin = @ + 1, !.ticks["timer"] = @ + 1]
  /\ Begun("timer") /\ UNCHANGED wanted
AllDone ==
  /\ AtEnd /\ Minute <= clock.lastmin
  /\ run' = [run EXCEPT !.kind = "none"]
  /\ UNCHANGED <<lists, clock, wanted>>

NextTimers ==
  \/ \E k \in Kinds : \/ \E elapse \in Times, count \in Counts : TclTimer(k, elapse, count)
                      \/ \E id \in 1..Len(wanted) : TclKilltimer(k, id)
  \/ WipeTimers \/ GoesBack \/ Fires \/ HasRun \/ CoreMinutely \/ AllDone
  \/ \E n \in Leaps : CoreSecondly(n)
SpecTimers == InitTimers /\ [][NextTimers]_timerVars

-----------------------------------------------------------------------------
TimersTypeOK ==
  /\ \A k \in Kinds : \A i \in 1..Len(lists[k]) : lists[k][i].id \in DOMAIN wanted
  /\ run.kind \in Kinds \cup {"none"}
  /\ \A id \in DOMAIN wanted : wanted[id].state \in {"on", "killed", "done"}

Old == IF InScript THEN <<run.old>> ELSE <<>>
AllOf(k) == lists[k] \o (IF run.kind = k THEN Old \o run.mark ELSE <<>>)
Due(id) == wanted[id].last + wanted[id].interval

\* A timer that is asked for is kept, once, until it has run as often as it should or is killed;
\* one that was killed is in no list and so never runs again, also when timers kill each other and
\* begin new ones while they are gone through.
NoneLost ==
  \A k \in Kinds :
    /\ IsInjective([i \in 1..Len(AllOf(k)) |-> AllOf(k)[i].id])
    /\ {AllOf(k)[i].id : i \in 1..Len(AllOf(k))} = {id \in DOMAIN wanted : wanted[id].kind = k /\ wanted[id].state = "on"}
\* It runs when its time has come, whatever is added before it meanwhile.
OnTime ==
  /\ InScript => Due(run.old.id) = clock.ticks[run.kind]
  /\ \A k \in Kinds : \A i \in 1..Len(lists[k]) :
       LET t == lists[k][i] IN Due(t.id) = clock.ticks[k] + AtLeastOne(t.mins)
\* And as often as was asked for.
CountKept ==
  \A id \in DOMAIN wanted :
    LET w == wanted[id]
    IN /\ w.count > 0 => w.ran <= w.count
       /\ w.state = "done" => w.count > 0 /\ w.ran = w.count
\* Minutes are all made up for.
MinutesKept == run.kind = "none" => clock.lastmin = Minute /\ clock.ticks["timer"] = Minute

\* What add_timer and do_check_timers promise to scripts.
TimersKept == NoneLost /\ OnTime /\ CountKept /\ MinutesKept
=============================================================================
