-------------------------- MODULE PartyLine_proofs --------------------------
(***************************************************************************)
(* Proof that a bot shows members of bots that it knows only.  What        *)
(* matters is that a member is taken only behind a bot that is known, and  *)
(* that whatever takes a bot off the list takes its members with it.       *)
(***************************************************************************)
EXTENDS PartyLine, TLAPS

\* The inductive invariant: both lists are there for every bot.
IInv ==
  /\ tandbot = [b \in Bots |-> tandbot[b]] /\ party = [b \in Bots |-> party[b]]
  /\ NoStrangers

-----------------------------------------------------------------------------
(* One bot's lists change. *)

LEMMA Same == ASSUME IInv, UNCHANGED <<tandbot, party>> PROVE IInv'
  BY DEF IInv, NoStrangers

\* Bots are added, or none; members stay, or come behind bots that are there.
LEMMA Grows ==
  ASSUME IInv, NEW b \in Bots, NEW t, NEW p,
         tandbot' = [tandbot EXCEPT ![b] = t], party' = [party EXCEPT ![b] = p],
         \A s \in DOMAIN p : s[1] \in DOMAIN t
  PROVE  IInv'
  <1>1. tandbot' = [x \in Bots |-> tandbot'[x]] /\ party' = [x \in Bots |-> party'[x]]
    BY DEF IInv
  <1>2. tandbot'[b] = t /\ party'[b] = p
    BY DEF IInv
  <1>3. \A x \in Bots : x # b => tandbot'[x] = tandbot[x] /\ party'[x] = party[x]
    BY DEF IInv
  <1>4. NoStrangers'
    BY <1>2, <1>3 DEF IInv, NoStrangers
  <1> QED  BY <1>1, <1>4 DEF IInv

LEMMA UnviaKeeps == ASSUME IInv, NEW b \in Bots, NEW x, Unvia(b, x) PROVE IInv'
  <1> DEFINE lost == Subtree(tandbot[b], x)
             t == Restrict(tandbot[b], DOMAIN tandbot[b] \ lost)
             p == Restrict(party[b], {s \in DOMAIN party[b] : s[1] \notin lost})
  <1>1. tandbot' = [tandbot EXCEPT ![b] = t] /\ party' = [party EXCEPT ![b] = p]
    BY DEF Unvia
  <1>2. /\ DOMAIN t = DOMAIN tandbot[b] \ lost
        /\ DOMAIN p = {s \in DOMAIN party[b] : s[1] \notin lost}
    BY DEF Restrict
  <1>3. \A s \in DOMAIN party[b] : s[1] \in DOMAIN tandbot[b]
    BY DEF IInv, NoStrangers
  <1> HIDE DEF lost, t, p
  <1>4. \A s \in DOMAIN p : s[1] \in DOMAIN t
    BY <1>2, <1>3
  <1> QED  BY <1>1, <1>4, Grows

\* Only what is known of a bot changes.
LEMMA Learns ==
  ASSUME IInv, NEW b \in Bots, NEW x, NEW r, tandbot' = [tandbot EXCEPT ![b] = With(@, x, r)], UNCHANGED party
  PROVE  IInv'
  <1> DEFINE t == With(tandbot[b], x, r)
  <1>1. DOMAIN tandbot[b] \subseteq DOMAIN t
    BY DEF With
  <1>2. tandbot' = [tandbot EXCEPT ![b] = t] /\ party' = [party EXCEPT ![b] = party[b]]
    BY DEF IInv
  <1>3. \A s \in DOMAIN party[b] : s[1] \in DOMAIN tandbot[b]
    BY DEF IInv, NoStrangers
  <1> HIDE DEF t
  <1>4. \A s \in DOMAIN party[b] : s[1] \in DOMAIN t
    BY <1>1, <1>3
  <1> QED  BY <1>2, <1>4, Grows

\* Only what is shown of members changes, and who is shown.
LEMMA Shows ==
  ASSUME IInv, NEW b \in Bots, NEW p, party' = [party EXCEPT ![b] = p], UNCHANGED tandbot,
         \A s \in DOMAIN p : s \in DOMAIN party[b] \/ s[1] \in DOMAIN tandbot[b]
  PROVE  IInv'
  <1>1. tandbot' = [tandbot EXCEPT ![b] = tandbot[b]]
    BY DEF IInv
  <1>2. \A s \in DOMAIN p : s[1] \in DOMAIN tandbot[b]
    BY DEF IInv, NoStrangers
  <1> QED  BY <1>1, <1>2, Grows

LEMMA DomainAddParty == ASSUME NEW p, NEW m PROVE DOMAIN AddParty(p, m) \subseteq DOMAIN p \cup {m.seat}
  BY DEF AddParty, With

LEMMA DomainMarked == ASSUME NEW p, NEW s, NEW isAway PROVE DOMAIN Marked(p, s, isAway) = DOMAIN p
  BY DEF Marked

-----------------------------------------------------------------------------
LEMMA InitIInv == Init => IInv
  BY DEF Init, IInv, NoStrangers

LEMMA ClosesKeeps == ASSUME IInv, NEW b \in Bots, NEW c, NEW w, Closes(b, c, w) PROVE IInv'
  <1>1. CASE Unvia(b, c)
    BY <1>1, UnviaKeeps
  <1>2. CASE UNCHANGED <<tandbot, party>>
    BY <1>2, Same
  <1> QED  BY <1>1, <1>2 DEF Closes

\* A line that was read.
LEMMA HandleKeeps == ASSUME IInv, NEW b \in Bots, NEW c \in Bots, Handle(c, b) PROVE IInv'
  <1> DEFINE m == Head(wire[<<c, b>>])
  <1>1. CASE BotVersion(c, b)
    <2>1. /\ tandbot' = [tandbot EXCEPT ![b] = With(@, c, [via |-> c, up |-> b])]
          /\ UNCHANGED party
      BY <1>1 DEF BotVersion
    <2> QED  BY <2>1, Learns
  <1>2. CASE ReadsEof(c, b)
    BY <1>2, ClosesKeeps DEF ReadsEof
  <1>3. CASE BotNlinked(c, b, m)
    <2>1. CASE /\ tandbot' = [tandbot EXCEPT ![b] = With(@, m.bot, [via |-> c, up |-> m.up])]
               /\ UNCHANGED party
      BY <2>1, Learns
    <2>2. CASE UNCHANGED <<tandbot, party>>
      BY <2>2, Same
    <2> QED  BY <1>3, <2>1, <2>2 DEF BotNlinked, FakeAlert
  <1>4. CASE BotUnlinked(c, b, m)
    <2>1. Unvia(b, m.bot) \/ UNCHANGED <<tandbot, party>>
      BY <1>4 DEF BotUnlinked, FakeAlert
    <2> QED  BY <2>1, UnviaKeeps, Same
  <1>5. CASE BotJoin(c, b, m)
    <2>1. CASE /\ IsBehind(b, m.seat[1], c)
               /\ party' = [party EXCEPT ![b] = AddParty(@, m)] /\ UNCHANGED tandbot
      <3>1. party' = [party EXCEPT ![b] = AddParty(party[b], m)] /\ UNCHANGED tandbot
        BY <2>1
      <3>2. m.seat[1] \in DOMAIN tandbot[b]
        BY <2>1 DEF IsBehind
      <3>3. \A s \in DOMAIN AddParty(party[b], m) : s \in DOMAIN party[b] \/ s[1] \in DOMAIN tandbot[b]
        BY <3>2, DomainAddParty
      <3> QED  BY <3>1, <3>3, Shows
    <2>2. CASE UNCHANGED <<tandbot, party>>
      BY <2>2, Same
    <2> QED  BY <1>5, <2>1, <2>2 DEF BotJoin, FakeAlert
  <1>6. CASE BotPart(c, b, m)
    <2> DEFINE p == Restrict(party[b], DOMAIN party[b] \ {m.seat})
    <2>1. party' = [party EXCEPT ![b] = p] /\ UNCHANGED tandbot
      BY <1>6 DEF BotPart
    <2>2. \A s \in DOMAIN p : s \in DOMAIN party[b]
      BY DEF Restrict
    <2> HIDE DEF p
    <2> QED  BY <2>1, <2>2, Shows
  <1>7. CASE BotNickchange(c, b, m)
    <2> DEFINE p == [party[b] EXCEPT ![m.seat].nick = m.nick]
    <2>1. CASE party' = [party EXCEPT ![b][m.seat].nick = m.nick] /\ UNCHANGED tandbot
      <3>1. party' = [party EXCEPT ![b] = p]
        BY <2>1 DEF IInv
      <3>2. \A s \in DOMAIN p : s \in DOMAIN party[b]
        OBVIOUS
      <3> HIDE DEF p
      <3> QED  BY <2>1, <3>1, <3>2, Shows
    <2>2. CASE UNCHANGED <<tandbot, party>>
      BY <2>2, Same
    <2> QED  BY <1>7, <2>1, <2>2 DEF BotNickchange, FakeAlert
  <1>8. CASE BotAway(c, b, m)
    <2> DEFINE p == Marked(party[b], m.seat, m.away)
    <2>1. party' = [party EXCEPT ![b] = p] /\ UNCHANGED tandbot
      BY <1>8 DEF BotAway
    <2>2. \A s \in DOMAIN p : s \in DOMAIN party[b]
      BY DomainMarked
    <2> HIDE DEF p
    <2> QED  BY <2>1, <2>2, Shows
  <1>9. CASE BotIdle(c, b, m)
    <2> DEFINE p == IF m.away THEN Marked(party[b], m.seat, TRUE) ELSE party[b]
    <2>1. party' = [party EXCEPT ![b] = p] /\ UNCHANGED tandbot
      BY <1>9 DEF BotIdle
    <2>2. \A s \in DOMAIN p : s \in DOMAIN party[b]
      BY DomainMarked
    <2> HIDE DEF p
    <2> QED  BY <2>1, <2>2, Shows
  <1> QED  BY <1>1, <1>2, <1>3, <1>4, <1>5, <1>6, <1>7, <1>8, <1>9 DEF Handle

\* What users do changes only what is sent.
LEMMA UsersKeep ==
  ASSUME IInv, NEW s \in Seats, NEW u, NEW ms, UserStep(s, u, ms)
  PROVE  IInv'
  BY Same DEF UserStep, links

LEMMA NextKeeps == ASSUME IInv, [Next]_vars PROVE IInv'
  <1>1. CASE UNCHANGED vars
    BY <1>1, Same DEF vars
  <1>2. ASSUME NEW b \in Bots, NEW c \in Bots, Connect(b, c) \/ Break(b, c) \/ Handle(c, b) PROVE IInv'
    <2>1. CASE Connect(b, c)
      BY <2>1, Same DEF Connect
    <2>2. CASE Break(b, c)
      BY <2>2, ClosesKeeps DEF Break
    <2>3. CASE Handle(c, b)
      BY <2>3, HandleKeeps
    <2> QED  BY <1>2, <2>1, <2>2, <2>3
  <1>3. ASSUME NEW s \in Seats, NEW n \in Nicks, Chatter(s, n) \/ ChangeHandle(s, n) PROVE IInv'
    BY <1>3, UsersKeep DEF Chatter, ChangeHandle
  <1>4. ASSUME NEW s \in Seats, NEW c \in Global \cup Local, CmdChat(s, c) PROVE IInv'
    BY <1>4, UsersKeep DEF CmdChat
  <1>5. ASSUME NEW s \in Seats, ChatOff(s) \/ SetAway(s) \/ NotAway(s) \/ EofChat(s) PROVE IInv'
    BY <1>5, UsersKeep DEF ChatOff, SetAway, NotAway, EofChat
  <1>6. ASSUME NEW s \in Seats,
               \/ TandemRelay(s) \/ ContRelay(s) \/ EofRelay(s) \/ EofRelaying(s)
               \/ FailedRelay(s) \/ FailedPreRelay(s) \/ ByeRelaying(s)
        PROVE  IInv'
    BY <1>6, UsersKeep
       DEF TandemRelay, ContRelay, EofRelay, EofRelaying, FailedRelay, FailedPreRelay, ByeRelaying, Retyped
  <1> QED  BY <1>1, <1>2, <1>3, <1>4, <1>5, <1>6 DEF Next

\* A bot shows members of bots that it knows only, for any tree of bots, any users and channels,
\* and whatever links are lost and made again, and relays fail, while lines are under way.
THEOREM NoStrangersShown == Spec => []NoStrangers
  <1>1. IInv /\ [Next]_vars => IInv'
    BY NextKeeps
  <1>2. IInv => NoStrangers
    BY DEF IInv
  <1> QED  BY InitIInv, <1>1, <1>2, PTL DEF Spec
=============================================================================
