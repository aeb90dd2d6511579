------------------------------- MODULE Session -------------------------------
(***************************************************************************)
(* What the server module promises the rest of the bot: it is on one       *)
(* server at a time, in sessions that are begun and given up; channels     *)
(* belong to the session they were joined in; and a server somebody asked  *)
(* for is where the next session goes.                                     *)
(***************************************************************************)
EXTENDS Naturals

CONSTANTS Hosts, Chans, NoHost

VARIABLES
  stage,    \* "idle", "trying" or "registered"
  session,  \* the sessions begun
  host,     \* the server of the session
  wanted,   \* the server asked for, or NoHost
  chans     \* the channels the bot takes part in

vars == <<stage, session, host, wanted, chans>>

Init == stage = "idle" /\ session = 0 /\ host = NoHost /\ wanted = NoHost /\ chans = {}

Begin ==
  /\ stage = "idle" /\ stage' = "trying"
  /\ session' = session + 1
  /\ host' \in Hosts
  /\ wanted # NoHost => host' = wanted
  /\ wanted' = NoHost
  /\ chans' = {}

Register ==
  /\ stage = "trying" /\ stage' = "registered"
  /\ UNCHANGED <<session, host, wanted, chans>>

\* A session ends, possibly for a server that is asked for.
End ==
  /\ stage # "idle" /\ stage' = "idle"
  /\ wanted' \in Hosts \cup {wanted}
  /\ chans' = {}
  /\ UNCHANGED <<session, host>>

Ask ==
  /\ wanted' \in Hosts
  /\ UNCHANGED <<stage, session, host, chans>>

Join ==
  /\ stage = "registered"
  /\ chans' \subseteq Chans
  /\ UNCHANGED <<stage, session, host, wanted>>

Next == Begin \/ Register \/ End \/ Ask \/ Join

Spec == Init /\ [][Next]_vars
==============================================================================
