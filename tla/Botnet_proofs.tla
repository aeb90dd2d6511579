--------------------------- MODULE Botnet_proofs ---------------------------
(***************************************************************************)
(* Proofs about the botnet: as long as no remote unlink is typed, every    *)
(* bot's list matches its links and is ordered parents first, whatever the *)
(* number of bots and connections and however logins, news, timeouts and   *)
(* shutdowns interleave.                                                   *)
(*                                                                         *)
(* The argument is local: Good says of one bot's list and ends what the    *)
(* properties say of all bots, and every handler keeps it for its own bot. *)
(* What a handler reads matters in two places only, so the invariant also  *)
(* bounds what can be in transit: no bot is told that its own neighbour on *)
(* that connection is unlinked, and no unlink request travels.             *)
(***************************************************************************)
EXTENDS Botnet, SequenceTheorems, FiniteSetTheorems, WellFoundedInduction, TLAPS

BotEnds(b, e) == {c \in Ends(b) : e[c] = "bot"}

Good(b, t, e) ==
  /\ ListType(b, t)
  /\ OrderOK(t)
  /\ RoutesOK(b, t, e)
  /\ ParentsOK(b, t)

\* The messages bot p may send.
MsgFrom(p) ==
  {m \in Messages : m.cmd # "ul" /\ (m.cmd = "un" => m.bot # p)}

EndsTyped(ends) ==
  /\ ends \in [Bots -> [Conns -> DccTypes]]
  /\ \A b \in Bots : \A c \in Conns \ Ends(b) : ends[b][c] = "none"

\* The callee's end appears when the call is accepted, both ends after the dial.
Dialling(ends, dial) ==
  \A c \in Conns :
    /\ ends[Callee[c]][c] \notin CallerTypes
    /\ ends[Caller[c]][c] \in CallerTypes => ends[Callee[c]][c] = "none"
    /\ c \notin dial => ends[Caller[c]][c] = "none" /\ ends[Callee[c]][c] = "none"

\* The inductive invariant.
IInv ==
  /\ DOMAIN tandbot = Bots
  /\ EndsTyped(dcc)
  /\ Dialling(dcc, dialled)
  /\ \A b \in Bots : Good(b, tandbot[b], dcc[b])
  /\ wire \in [Conns -> [Bots -> Seq(Messages)]]
  /\ \A c \in Conns, b \in Bots : wire[c][b] \in Seq(MsgFrom(Peer(c, b)))
  /\ dialled \subseteq Conns
  /\ typed \subseteq Unlinks

\* The new ends after a handler of b: typed, and no other bot's links changed.
EndsOK(b, ends) ==
  /\ EndsTyped(ends)
  /\ \A x \in Bots \ {b} : BotEnds(x, ends[x]) = BotEnds(x, dcc[x])

SentOK(b, sent)     == sent \in [Conns -> Seq(MsgFrom(b))]
UnreadOK(b, unread) == \A c \in Conns : unread[c] \in Seq(MsgFrom(Peer(c, b)))

-----------------------------------------------------------------------------
(* Connections and their ends *)

LEMMA PeerFacts ==
  ASSUME NEW b \in Bots, NEW c \in Ends(b)
  PROVE  /\ c \in Conns
         /\ Peer(c, b) \in Bots \ {b}
         /\ c \in Ends(Peer(c, b))
         /\ Peer(c, Peer(c, b)) = b
  BY EndsAssumption DEF Ends, Peer

LEMMA GoodSame ==
  ASSUME NEW b, NEW t, NEW e, NEW f, Good(b, t, e),
         BotEnds(b, e) = BotEnds(b, f)
  PROVE  Good(b, t, f)
  BY DEF Good, RoutesOK, LinksListed, BotEnds

LEMMA SetEndsTyped ==
  ASSUME NEW ends, EndsTyped(ends), NEW b \in Bots,
         NEW K, NEW type \in DccTypes, K \subseteq Ends(b) \/ type = "none"
  PROVE  /\ EndsTyped(SetEnds(ends, b, K, type))
         /\ \A x \in Bots \ {b} : SetEnds(ends, b, K, type)[x] = ends[x]
         /\ \A c \in Conns : SetEnds(ends, b, K, type)[b][c]
                               = IF c \in K THEN type ELSE ends[b][c]
  BY DEF EndsTyped, SetEnds

LEMMA SetEndsOK ==
  ASSUME NEW b \in Bots, NEW ends, EndsOK(b, ends),
         NEW K, NEW type \in DccTypes, K \subseteq Ends(b) \/ type = "none"
  PROVE  EndsOK(b, SetEnds(ends, b, K, type))
  BY SetEndsTyped DEF EndsOK

LEMMA DccOK ==
  ASSUME NEW b \in Bots, IInv
  PROVE  EndsOK(b, dcc)
  BY DEF EndsOK, IInv

-----------------------------------------------------------------------------
(* Messages *)

LEMMA MsgTypes ==
  ASSUME NEW p \in Bots
  PROVE  /\ {Id, Passreq, Digest, Hello, Version, Bye, EOF} \subseteq MsgFrom(p)
         /\ \A x, up \in Bots : N(x, up) \in MsgFrom(p)
         /\ \A x \in Bots \ {p} : Un(x) \in MsgFrom(p)
         /\ \A f, x \in Bots : Rej(f, x) \in MsgFrom(p)
<1>1. \A m \in {Id, Passreq, Digest, Hello, Version, Bye, EOF} :
        m \in Messages /\ m.cmd # "ul" /\ m.cmd # "un"
  BY DEF Messages, Id, Passreq, Digest, Hello, Version, Bye, EOF
<1>2. \A x, up \in Bots :
        N(x, up) \in Messages /\ N(x, up).cmd # "ul" /\ N(x, up).cmd # "un"
  BY DEF Messages, N
<1>3. \A x \in Bots : Un(x) \in Messages /\ Un(x).cmd # "ul" /\ Un(x).bot = x
  BY DEF Messages, Un
<1>4. \A f, x \in Bots :
        Rej(f, x) \in Messages /\ Rej(f, x).cmd # "ul" /\ Rej(f, x).cmd # "un"
  BY DEF Messages, Rej
<1> QED  BY <1>1, <1>2, <1>3, <1>4 DEF MsgFrom

LEMMA MsgShapes ==
  ASSUME NEW m \in Messages
  PROVE  /\ m.cmd = "n" => m.bot \in Bots /\ m.up \in Bots
         /\ m.cmd = "un" => m.bot \in Bots
         /\ m.cmd = "r" => m.bot \in Bots /\ m.from \in Bots
  BY DEF Messages, Id, Passreq, Digest, Hello, Version, Bye, EOF, N, Un, Rej, Ul

-----------------------------------------------------------------------------
(* What hangs below a bot *)

\* With a bot, R has all the bots below it.
Downward(t, R) == \A y \in DOMAIN t : t[y].uplink \in R => y \in R

LEMMA SubtreeFacts ==
  ASSUME NEW t, NEW W
  PROVE  /\ W \subseteq Subtree(t, W)
         /\ Subtree(t, W) \subseteq DOMAIN t \cup W
         /\ Downward(t, Subtree(t, W))
  BY DEF Subtree, Downward

LEMMA SubtreeLeast ==
  ASSUME NEW t, NEW W, NEW S \in SUBSET (DOMAIN t \cup W), W \subseteq S,
         Downward(t, S)
  PROVE  Subtree(t, W) \subseteq S
  BY DEF Subtree, Downward

\* Whatever was heard over a link hangs below the bot at its end: following the
\* parents from any such bot, each stands earlier in the list than the last.
LEMMA ViaInSubtree ==
  ASSUME NEW b \in Bots, NEW t, ListType(b, t), OrderOK(t), ParentsOK(b, t), NEW n
  PROVE  \A y \in DOMAIN t : t[y].via = n => y \in Subtree(t, {n})
<1> DEFINE Missed == {y \in DOMAIN t : t[y].via = n /\ y \notin Subtree(t, {n})}
           Less   == StrictSubsetOrdering(Bots)
           Places == {t[y].before : y \in Missed}
<1> SUFFICES ASSUME Missed # {} PROVE FALSE
  OBVIOUS
<1>1. IsWellFoundedOn(Less, SUBSET Bots)
  BY BotsAssumption, FS_StrictSubsetOrderingWellFounded, FS_FiniteSubsetsOfFinite
<1>2. Places \subseteq SUBSET Bots /\ Places # {}
  BY DEF ListType
<1>3. \E s \in Places : \A r \in Places : <<r, s>> \notin Less
  <2> HIDE DEF Places, Less
  <2> QED  BY <1>1, <1>2, WFMin
<1>4. PICK y \in Missed : \A z \in Missed : <<t[z].before, t[y].before>> \notin Less
  BY <1>3
<1>5. n \in Subtree(t, {n}) /\ t[y].uplink \notin Subtree(t, {n})
  BY SubtreeFacts DEF Downward
<1>6. t[y].uplink \in t[y].before /\ t[y].uplink \in Missed
  BY <1>5 DEF ParentsOK
<1>7. /\ t[t[y].uplink].before \subseteq t[y].before
      /\ t[y].uplink \notin t[t[y].uplink].before
  BY <1>6 DEF OrderOK
<1>8. <<t[t[y].uplink].before, t[y].before>> \in Less
  <2>1. t[y].before \in SUBSET Bots /\ t[t[y].uplink].before \in SUBSET Bots
    BY <1>2, <1>6
  <2>2. t[t[y].uplink].before # t[y].before
    BY <1>6, <1>7
  <2> QED  BY <1>7, <2>1, <2>2 DEF StrictSubsetOrdering
<1> QED  BY <1>4, <1>6, <1>8

\* Removing a set of names that is closed towards the leaves leaves a list of
\* the same kind, parents still first.
\* u is t without R, and t with x.
Kept(t, R, u) ==
  /\ DOMAIN u = DOMAIN t \ R
  /\ \A y \in DOMAIN u : u[y].via = t[y].via /\ u[y].uplink = t[y].uplink

Added(t, x, via, up, u) ==
  /\ DOMAIN u = DOMAIN t \cup {x}
  /\ u[x] = [via |-> via, uplink |-> up, before |-> DOMAIN t]
  /\ \A y \in DOMAIN t : u[y] = t[y]

LEMMA WithoutKeeps ==
  ASSUME NEW b \in Bots, NEW t, ListType(b, t), OrderOK(t), ParentsOK(b, t),
         NEW R, Downward(t, R), NEW u, u = Without(t, R)
  PROVE  /\ ListType(b, u)
         /\ OrderOK(u)
         /\ ParentsOK(b, u)
         /\ Kept(t, R, u)
<1>1. DOMAIN u = DOMAIN t \ R
  BY DEF Without
<1>2. \A y \in DOMAIN t \ R :
        u[y] = [via |-> t[y].via, uplink |-> t[y].uplink, before |-> t[y].before \ R]
  BY DEF Without, ListType
<1>3. \A y \in DOMAIN u : u[y] \in [via : Bots, uplink : Bots, before : SUBSET Bots]
  <2> SUFFICES ASSUME NEW y \in DOMAIN t \ R
               PROVE  u[y] \in [via : Bots, uplink : Bots, before : SUBSET Bots]
    BY <1>1
  <2>1. t[y] \in [via : Bots, uplink : Bots, before : SUBSET Bots]
    BY DEF ListType
  <2>2. /\ t[y].via \in Bots
        /\ t[y].uplink \in Bots
        /\ t[y].before \ R \in SUBSET Bots
    BY <2>1
  <2>3. [via |-> t[y].via, uplink |-> t[y].uplink, before |-> t[y].before \ R]
          \in [via : Bots, uplink : Bots, before : SUBSET Bots]
    BY <2>2
  <2> QED  BY <1>2, <2>3, Zenon
<1>4. ListType(b, u)
  BY <1>1, <1>3 DEF ListType, Without
<1>5. OrderOK(u)
  BY <1>1, <1>2 DEF OrderOK
<1>6. ParentsOK(b, u)
  BY <1>1, <1>2 DEF ParentsOK, Downward
<1>7. Kept(t, R, u)
  BY <1>1, <1>2 DEF Kept
<1> QED  BY <1>4, <1>5, <1>6, <1>7

-----------------------------------------------------------------------------
(* How the handlers change a bot's list *)

LEMMA GoodRemoved ==
  ASSUME NEW b \in Bots, NEW t, NEW e, Good(b, t, e),
         NEW R, Downward(t, R),
         NEW f, BotEnds(b, f) \subseteq BotEnds(b, e),
         \A d \in BotEnds(b, f) : Peer(d, b) \notin R,
         \A x \in DOMAIN t \ R : \E d \in BotEnds(b, f) : t[x].via = Peer(d, b)
  PROVE  Good(b, Without(t, R), f)
<1>1. ListType(b, t) /\ OrderOK(t) /\ ParentsOK(b, t) /\ RoutesOK(b, t, e)
  BY DEF Good
<1>2. PICK u : u = Without(t, R)
  OBVIOUS
<1>3. /\ ListType(b, u) /\ OrderOK(u) /\ ParentsOK(b, u)
      /\ Kept(t, R, u)
  BY <1>1, <1>2, WithoutKeeps
<1>4. \A d \in BotEnds(b, f) :
        /\ Peer(d, b) \in DOMAIN t
        /\ t[Peer(d, b)].via = Peer(d, b)
        /\ t[Peer(d, b)].uplink = b
        /\ \A g \in BotEnds(b, f) : Peer(g, b) = Peer(d, b) => g = d
  BY <1>1 DEF RoutesOK, LinksListed, BotEnds
<1>5. RoutesOK(b, u, f)
  BY <1>3, <1>4 DEF RoutesOK, LinksListed, BotEnds, Kept
<1> QED  BY <1>2, <1>3, <1>5 DEF Good

\* A neighbour and all that was heard from it leave with its link.
LEMMA GoodWithoutNeighbour ==
  ASSUME NEW b \in Bots, NEW t, NEW e, Good(b, t, e),
         NEW c \in BotEnds(b, e),
         NEW f, BotEnds(b, f) = BotEnds(b, e) \ {c}
  PROVE  Good(b, Without(t, Subtree(t, {Peer(c, b)})), f)
<1>1. PICK n : n = Peer(c, b)
  OBVIOUS
<1>2. PICK R : R = Subtree(t, {n})
  OBVIOUS
<1>3. PICK T : T = {y \in DOMAIN t : t[y].via = n}
  OBVIOUS
<1>4. n \in DOMAIN t /\ t[n].via = n /\ n \in T
  BY <1>1, <1>3 DEF Good, RoutesOK, LinksListed, BotEnds
<1>5. T \subseteq R
  BY <1>2, <1>3, ViaInSubtree DEF Good
<1>6. R \subseteq T
  <2>1. Downward(t, T)
    BY <1>3, <1>4 DEF Good, ParentsOK, ListType, Downward
  <2> QED  BY <1>2, <1>3, <1>4, <2>1, SubtreeLeast
<1>7. Downward(t, R)
  BY <1>2, SubtreeFacts
<1>8. \A d \in BotEnds(b, f) : Peer(d, b) \notin R
  BY <1>1, <1>3, <1>6 DEF Good, RoutesOK, LinksListed, BotEnds
<1>9. \A x \in DOMAIN t \ R : \E d \in BotEnds(b, f) : t[x].via = Peer(d, b)
  BY <1>1, <1>3, <1>5 DEF Good, RoutesOK, LinksListed, BotEnds
<1> QED  BY <1>1, <1>2, <1>7, <1>8, <1>9, GoodRemoved

\* So do a bot further off and what is below it, when its news comes over the
\* link it was heard on; no neighbour is below another bot.
LEMMA GoodWithoutRemote ==
  ASSUME NEW b \in Bots, NEW t, NEW e, Good(b, t, e),
         NEW x \in DOMAIN t, t[x].via # x,
         NEW f, BotEnds(b, f) = BotEnds(b, e)
  PROVE  Good(b, Without(t, Subtree(t, {x})), f)
<1>1. PICK R : R = Subtree(t, {x})
  OBVIOUS
<1>2. PICK T : T = {y \in DOMAIN t : t[y].via # y}
  OBVIOUS
<1>3. \A y \in DOMAIN t : t[y].via = y => t[y].uplink = b
  BY DEF Good, RoutesOK, LinksListed
<1>4. Downward(t, T)
  BY <1>2, <1>3 DEF Good, ParentsOK, ListType, Downward
<1>5. R \subseteq T
  BY <1>1, <1>2, <1>4, SubtreeLeast
<1>6. Downward(t, R)
  BY <1>1, SubtreeFacts
<1>7. \A d \in BotEnds(b, f) : Peer(d, b) \notin R
  BY <1>2, <1>5 DEF Good, RoutesOK, LinksListed, BotEnds
<1>8. \A y \in DOMAIN t \ R : \E d \in BotEnds(b, f) : t[y].via = Peer(d, b)
  BY DEF Good, RoutesOK, LinksListed, BotEnds
<1> QED  BY <1>1, <1>6, <1>7, <1>8, GoodRemoved

LEMMA WithBotKeeps ==
  ASSUME NEW b \in Bots, NEW t, ListType(b, t), OrderOK(t),
         NEW x \in Bots \ {b}, x \notin DOMAIN t, NEW via \in Bots, NEW up \in Bots,
         NEW u, u = WithBot(t, x, via, up)
  PROVE  /\ ListType(b, u)
         /\ OrderOK(u)
         /\ Added(t, x, via, up, u)
<1>2. /\ DOMAIN u = DOMAIN t \cup {x}
      /\ u[x] = [via |-> via, uplink |-> up, before |-> DOMAIN t]
      /\ \A y \in DOMAIN t : u[y] = t[y]
      /\ u = [y \in DOMAIN u |-> u[y]]
  BY DEF WithBot
<1>3. ListType(b, u)
  <2>1. \A y \in DOMAIN u : u[y] \in [via : Bots, uplink : Bots, before : SUBSET Bots]
    BY <1>2 DEF ListType
  <2>2. DOMAIN u \subseteq Bots \ {b}
    BY <1>2 DEF ListType
  <2> QED  BY <1>2, <2>1, <2>2 DEF ListType
<1>4. OrderOK(u)
  BY <1>2 DEF OrderOK
<1> QED  BY <1>2, <1>3, <1>4 DEF Added

\* A new neighbour is listed under us ...
LEMMA GoodWithNeighbour ==
  ASSUME NEW b \in Bots, NEW t, NEW e, Good(b, t, e),
         NEW c \in Ends(b), c \notin BotEnds(b, e), Peer(c, b) \notin DOMAIN t,
         NEW f, BotEnds(b, f) = BotEnds(b, e) \cup {c}
  PROVE  Good(b, WithBot(t, Peer(c, b), Peer(c, b), b), f)
<1>1. PICK n : n = Peer(c, b)
  OBVIOUS
<1>2. PICK u : u = WithBot(t, n, n, b)
  OBVIOUS
<1>3. n \in Bots \ {b}
  BY <1>1, PeerFacts
<1>4. /\ ListType(b, u) /\ OrderOK(u)
      /\ Added(t, n, n, b, u)
  <2>1. ListType(b, t) /\ OrderOK(t) /\ n \notin DOMAIN t /\ n \in Bots
    BY <1>1, <1>3 DEF Good
  <2> QED  BY <1>2, <1>3, <2>1, WithBotKeeps
<1>5. ParentsOK(b, u)
  BY <1>1, <1>4 DEF Good, ParentsOK, ListType, Added
<1>6. RoutesOK(b, u, f)
  BY <1>1, <1>4 DEF Good, RoutesOK, LinksListed, BotEnds, Added
<1> QED  BY <1>1, <1>2, <1>4, <1>5, <1>6 DEF Good

\* ... and a bot further off after its parent.
LEMMA GoodWithRemote ==
  ASSUME NEW b \in Bots, NEW t, NEW e, Good(b, t, e),
         NEW x \in Bots \ {b}, x \notin DOMAIN t, NEW up \in DOMAIN t
  PROVE  Good(b, WithBot(t, x, t[up].via, up), e)
<1>1. PICK u : u = WithBot(t, x, t[up].via, up)
  OBVIOUS
<1>2. t[up].via \in Bots /\ up \in Bots /\ up # b
  BY DEF Good, ListType
<1>3. /\ ListType(b, u) /\ OrderOK(u)
      /\ Added(t, x, t[up].via, up, u)
  <2>1. ListType(b, t) /\ OrderOK(t)
    BY DEF Good
  <2> QED  BY <1>1, <1>2, <2>1, WithBotKeeps
<1>4. ParentsOK(b, u)
  BY <1>2, <1>3 DEF Good, ParentsOK, ListType, Added
<1>5. RoutesOK(b, u, e)
  BY <1>3 DEF Good, RoutesOK, LinksListed, Added
<1> QED  BY <1>1, <1>3, <1>4, <1>5 DEF Good

-----------------------------------------------------------------------------
(* What the handlers send and leave unread *)

LEMMA SendOnOK ==
  ASSUME NEW p, NEW m \in Seq(MsgFrom(p)), NEW K
  PROVE  SentOK(p, SendOn(K, m))
  BY DEF SentOK, SendOn

LEMMA SendButOK ==
  ASSUME NEW p, NEW m \in Seq(MsgFrom(p)), NEW K
  PROVE  SentOK(p, SendBut(p, K, m))
  BY DEF SentOK, SendBut

LEMMA SendLineOK ==
  ASSUME NEW p \in Bots, NEW m \in MsgFrom(p), NEW K
  PROVE  /\ SentOK(p, SendOn(K, <<m>>))
         /\ SentOK(p, SendBut(p, K, <<m>>))
<1>1. <<m>> \in Seq(MsgFrom(p))
  OBVIOUS
<1> QED  BY <1>1, SendOnOK, SendButOK

LEMMA LoginLinesOK ==
  ASSUME NEW p \in Bots, NEW K
  PROVE  \A m \in {Id, Passreq, Digest, Hello, Version, Bye, EOF} :
           <<m>> \in Seq(MsgFrom(p)) /\ SentOK(p, SendOn(K, <<m>>))
<1> SUFFICES ASSUME NEW m \in {Id, Passreq, Digest, Hello, Version, Bye, EOF}
             PROVE  <<m>> \in Seq(MsgFrom(p)) /\ SentOK(p, SendOn(K, <<m>>))
  OBVIOUS
<1>1. m \in MsgFrom(p)
  BY MsgTypes
<1> QED  BY <1>1, SendLineOK

LEMMA SendBothOK ==
  ASSUME NEW p, NEW s1, SentOK(p, s1), NEW s2, SentOK(p, s2)
  PROVE  SentOK(p, s1 ++ s2)
  BY DEF SentOK, ++

LEMMA NothingOK ==
  ASSUME NEW p
  PROVE  SentOK(p, Nothing)
  BY DEF SentOK, Nothing

LEMMA InboxOK ==
  ASSUME IInv, NEW b \in Bots
  PROVE  UnreadOK(b, Inbox(b))
  BY DEF IInv, UnreadOK, Inbox

LEMMA ConsumedOK ==
  ASSUME IInv, NEW b \in Bots, NEW c \in Conns, wire[c][b] # <<>>
  PROVE  /\ UnreadOK(b, Consumed(b, c))
         /\ Head(wire[c][b]) \in MsgFrom(Peer(c, b))
<1>1. wire[c][b] \in Seq(MsgFrom(Peer(c, b)))
  BY DEF IInv
<1>2. Head(wire[c][b]) \in MsgFrom(Peer(c, b)) /\ Tail(wire[c][b]) \in Seq(MsgFrom(Peer(c, b)))
  BY <1>1
<1> QED  BY <1>2 DEF IInv, UnreadOK, Consumed, Inbox

\* In a list of n bots the numbers of bots that stand before each one are
\* exactly 0 to n - 1, so dump_links finds a bot for every place.
LEMMA PlacesFilled ==
  ASSUME NEW b \in Bots, NEW t, ListType(b, t), OrderOK(t)
  PROVE  /\ Cardinality(DOMAIN t) \in Nat
         /\ \A y \in DOMAIN t :
              Cardinality(t[y].before) \in 0..(Cardinality(DOMAIN t) - 1)
         /\ \A x, y \in DOMAIN t :
              x \in t[y].before => Cardinality(t[x].before) < Cardinality(t[y].before)
         /\ \A k \in 1..Cardinality(DOMAIN t) :
              \E y \in DOMAIN t : Cardinality(t[y].before) = k - 1
<1> DEFINE X == DOMAIN t
           n == Cardinality(X)
           f == [y \in X |-> Cardinality(t[y].before)]
<1>1. IsFiniteSet(X) /\ n \in Nat
  <2>1. X \in SUBSET Bots
    BY DEF ListType
  <2> QED  BY <2>1, BotsAssumption, FS_Subset, FS_CardinalityType
<1>2. ASSUME NEW y \in X
      PROVE  /\ IsFiniteSet(t[y].before)
             /\ Cardinality(t[y].before) \in 0..(n - 1)
  <2>1. t[y].before \in SUBSET (X \ {y})
    BY DEF OrderOK
  <2>2. IsFiniteSet(X \ {y}) /\ Cardinality(X \ {y}) = n - 1
    BY <1>1, FS_RemoveElement
  <2>3. /\ IsFiniteSet(t[y].before)
        /\ Cardinality(t[y].before) <= Cardinality(X \ {y})
        /\ Cardinality(t[y].before) \in Nat
    BY <2>1, <2>2, FS_Subset, FS_CardinalityType
  <2> QED  BY <1>1, <2>2, <2>3
<1>3. ASSUME NEW x \in X, NEW y \in X, x \in t[y].before
      PROVE  Cardinality(t[x].before) < Cardinality(t[y].before)
  <2>1. t[x].before \in SUBSET t[y].before /\ t[x].before # t[y].before
    BY <1>3 DEF OrderOK
  <2>2. /\ Cardinality(t[x].before) <= Cardinality(t[y].before)
        /\ Cardinality(t[x].before) # Cardinality(t[y].before)
    BY <1>2, <2>1, FS_Subset
  <2> QED  BY <1>1, <1>2, <2>2
<1>4. f \in Injection(X, 0..(n - 1))
  <2>1. f \in [X -> 0..(n - 1)]
    BY <1>2
  <2>2. \A x, y \in X : f[x] = f[y] => x = y
    BY <1>1, <1>2, <1>3 DEF OrderOK
  <2> QED  BY <2>1, <2>2 DEF Injection, IsInjective
<1>5. IsFiniteSet(0..(n - 1)) /\ Cardinality(0..(n - 1)) = n
  <2> HIDE DEF n
  <2>1. 0 \in Int /\ n - 1 \in Int
    BY <1>1
  <2> QED  BY <1>1, <2>1, FS_Interval
<1>6. f \in Surjection(X, 0..(n - 1))
  <2> HIDE DEF f
  <2> QED  BY <1>4, <1>5, FS_Injection
<1>7. \A k \in 1..n : \E y \in X : f[y] = k - 1
  <2> HIDE DEF n, f, X
  <2> SUFFICES ASSUME NEW k \in 1..n PROVE \E y \in X : f[y] = k - 1
    OBVIOUS
  <2>1. k - 1 \in 0..(n - 1)
    BY <1>1
  <2> QED  BY <1>6, <2>1 DEF Surjection
<1> QED  BY <1>1, <1>2, <1>3, <1>7

LEMMA DumpLinksOK ==
  ASSUME NEW b \in Bots, NEW t, ListType(b, t), OrderOK(t)
  PROVE  DumpLinks(t) \in Seq(MsgFrom(b))
<1> DEFINE n == Cardinality(DOMAIN t)
           who(k) == CHOOSE y \in DOMAIN t : Cardinality(t[y].before) = k - 1
<1>1. n \in Nat
  BY PlacesFilled
<1>2. \A k \in 1..n : who(k) \in DOMAIN t
  BY PlacesFilled
<1>3. \A k \in 1..n : who(k) \in Bots /\ t[who(k)].uplink \in Bots
  <2> HIDE DEF who
  <2> QED  BY <1>2 DEF ListType
<1>4. \A k \in 1..n : N(who(k), t[who(k)].uplink) \in MsgFrom(b)
  <2> HIDE DEF who
  <2> QED  BY <1>3, MsgTypes
<1>5. DumpLinks(t) = [k \in 1..n |-> N(who(k), t[who(k)].uplink)]
  BY DEF DumpLinks
<1> HIDE DEF n, who
<1> QED  BY <1>1, <1>4, <1>5

\* What dump_links sends can be read line by line: the parent named in a line
\* is the sender or the bot of an earlier line, so bot_nlinked of a peer that
\* learns of the net this way finds every parent ("bogus link notice" is not
\* raised while the dump is read).
THEOREM DumpParentsFirst ==
  ASSUME NEW b \in Bots, NEW t, ListType(b, t), OrderOK(t), ParentsOK(b, t)
  PROVE  \A k \in 1..Len(DumpLinks(t)) :
           \/ DumpLinks(t)[k].up = b
           \/ \E j \in 1..(k - 1) : DumpLinks(t)[j].bot = DumpLinks(t)[k].up
<1> DEFINE n == Cardinality(DOMAIN t)
           who(k) == CHOOSE y \in DOMAIN t : Cardinality(t[y].before) = k - 1
<1>1. n \in Nat
  BY PlacesFilled
<1>2. \A k \in 1..n : who(k) \in DOMAIN t /\ Cardinality(t[who(k)].before) = k - 1
  BY PlacesFilled
<1>3. /\ DumpLinks(t) = [k \in 1..n |-> N(who(k), t[who(k)].uplink)]
      /\ Len(DumpLinks(t)) = n
  <2>1. DumpLinks(t) = [k \in 1..n |-> N(who(k), t[who(k)].uplink)]
    BY DEF DumpLinks
  <2> HIDE DEF n, who
  <2> QED  BY <1>1, <2>1
<1>4. ASSUME NEW k \in 1..n
      PROVE  DumpLinks(t)[k].bot = who(k) /\ DumpLinks(t)[k].up = t[who(k)].uplink
  <2> HIDE DEF n, who
  <2> QED  BY <1>3 DEF N
<1>5. \A y \in DOMAIN t : Cardinality(t[y].before) \in 0..(n - 1)
  BY PlacesFilled
<1>6. \A x, y \in DOMAIN t :
        x \in t[y].before => Cardinality(t[x].before) < Cardinality(t[y].before)
  BY PlacesFilled
<1> SUFFICES ASSUME NEW k \in 1..n, t[who(k)].uplink # b
             PROVE  \E j \in 1..(k - 1) : j \in 1..n /\ who(j) = t[who(k)].uplink
  <2>1. ASSUME NEW i \in 1..n
        PROVE  \/ DumpLinks(t)[i].up = b
               \/ \E j \in 1..(i - 1) : DumpLinks(t)[j].bot = DumpLinks(t)[i].up
    <3>1. CASE t[who(i)].uplink = b
      BY <1>4, <3>1
    <3>2. CASE t[who(i)].uplink # b
      <4>1. PICK j \in 1..(i - 1) : j \in 1..n /\ who(j) = t[who(i)].uplink
        BY <3>2
      <4>2. DumpLinks(t)[j].bot = DumpLinks(t)[i].up
        <5> HIDE DEF n, who
        <5> QED  BY <1>4, <4>1
      <4> QED  BY <4>1, <4>2
    <3> QED  BY <3>1, <3>2
  <2> HIDE DEF n, who
  <2> QED  BY <1>3, <2>1
<1>7. PICK y : y = who(k)
  OBVIOUS
<1>8. PICK up : up = t[y].uplink
  OBVIOUS
<1>9. up \in DOMAIN t /\ up \in t[y].before
  BY <1>2, <1>7, <1>8 DEF ParentsOK
<1>10. PICK j : j = Cardinality(t[up].before) + 1
  OBVIOUS
<1>11. j \in 1..(k - 1) /\ j \in 1..n
  <2>1. Cardinality(t[up].before) < k - 1 /\ Cardinality(t[up].before) \in 0..(n - 1)
    BY <1>2, <1>5, <1>6, <1>7, <1>9
  <2> HIDE DEF n, who
  <2> QED  BY <1>1, <1>10, <2>1
<1>12. who(j) = up
  <2>1. who(j) \in DOMAIN t /\ Cardinality(t[who(j)].before) = Cardinality(t[up].before)
    <3>1. who(j) \in DOMAIN t /\ Cardinality(t[who(j)].before) = j - 1
      BY <1>2, <1>11
    <3> HIDE DEF n, who
    <3> QED  BY <1>5, <1>9, <1>10, <3>1
  <2>2. ~(who(j) \in t[up].before) /\ ~(up \in t[who(j)].before)
    <3> HIDE DEF who, n
    <3>1. Cardinality(t[up].before) \in 0..(n - 1)
      BY <1>5, <1>9
    <3> QED  BY <1>1, <1>6, <1>9, <2>1, <3>1
  <2> HIDE DEF who
  <2> QED  BY <1>9, <2>1, <2>2 DEF OrderOK
<1> QED  BY <1>7, <1>8, <1>11, <1>12

-----------------------------------------------------------------------------
(* What every handler has in common *)

LEMMA CommitKeeps ==
  ASSUME IInv, NEW b \in Bots,
         NEW list, NEW ends, NEW unread, NEW sent,
         Commit(b, list, ends, unread, sent),
         EndsOK(b, ends), Dialling(ends, dialled'),
         Good(b, list, ends[b]), UnreadOK(b, unread), SentOK(b, sent),
         dialled' \subseteq Conns, typed' \subseteq Unlinks
  PROVE  IInv'
<1>1. DOMAIN tandbot' = Bots /\ \A x \in Bots : tandbot'[x] = IF x = b THEN list ELSE tandbot[x]
  BY DEF IInv, Commit
<1>2. dcc' = ends
  BY DEF Commit
<1>3. \A x \in Bots : Good(x, tandbot'[x], dcc'[x])
  <2> SUFFICES ASSUME NEW x \in Bots PROVE Good(x, tandbot'[x], dcc'[x])
    OBVIOUS
  <2>1. CASE x = b
    BY <1>1, <1>2, <2>1
  <2>2. CASE x # b
    <3>1. Good(x, tandbot[x], dcc[x]) /\ BotEnds(x, dcc[x]) = BotEnds(x, ends[x])
      BY <2>2 DEF IInv, EndsOK
    <3> QED  BY <1>1, <1>2, <2>2, <3>1, GoodSame
  <2> QED  BY <2>1, <2>2
<1>4. \A c \in Conns, x \in Bots : wire'[c][x] \in Seq(MsgFrom(Peer(c, x)))
  <2> SUFFICES ASSUME NEW c \in Conns, NEW x \in Bots
               PROVE  wire'[c][x] \in Seq(MsgFrom(Peer(c, x)))
    OBVIOUS
  <2>1. CASE x = b
    <3>1. wire'[c][b] = IF ends[b][c] = "none" THEN <<>> ELSE unread[c]
      BY PeerFacts DEF Commit
    <3>2. unread[c] \in Seq(MsgFrom(Peer(c, x))) /\ <<>> \in Seq(MsgFrom(Peer(c, x)))
      BY <2>1 DEF UnreadOK
    <3> QED  BY <2>1, <3>1, <3>2
  <2>2. CASE x # b /\ c \in Ends(b) /\ x = Peer(c, b) /\ ends[x][c] # "none"
    <3>1. Peer(c, x) = b
      BY <2>2, PeerFacts
    <3>2. wire[c][x] \in Seq(MsgFrom(b)) /\ sent[c] \in Seq(MsgFrom(b))
      BY <3>1 DEF IInv, SentOK
    <3>3. /\ <<EOF>> \in Seq(MsgFrom(b)) /\ <<>> \in Seq(MsgFrom(b))
      BY MsgTypes
    <3>4. wire'[c][x] = wire[c][x] \o sent[c]
                          \o IF dcc[b][c] # "none" /\ ends[b][c] = "none"
                             THEN <<EOF>> ELSE <<>>
      BY <2>2 DEF Commit
    <3> QED  BY <3>1, <3>2, <3>3, <3>4
  <2>3. CASE ~(x = b) /\ ~(c \in Ends(b) /\ x = Peer(c, b) /\ ends[x][c] # "none")
    <3>1. wire'[c][x] = wire[c][x]
      BY <2>3 DEF Commit
    <3> QED  BY <3>1 DEF IInv
  <2> QED  BY <2>1, <2>2, <2>3
<1>5. wire' \in [Conns -> [Bots -> Seq(Messages)]]
  <2>1. wire' = [c \in Conns |-> [x \in Bots |-> wire'[c][x]]]
    BY DEF Commit
  <2>2. \A c \in Conns, x \in Bots : wire'[c][x] \in Seq(Messages)
    <3>1. \A p : MsgFrom(p) \subseteq Messages
      BY DEF MsgFrom
    <3>2. \A p : Seq(MsgFrom(p)) \subseteq Seq(Messages)
      BY <3>1, SeqMonotonic
    <3> QED  BY <1>4, <3>2
  <2> QED  BY <2>1, <2>2
<1> QED  BY <1>1, <1>2, <1>3, <1>4, <1>5 DEF IInv, EndsOK

LEMMA DiallingKept ==
  ASSUME NEW b \in Bots, NEW ends, EndsTyped(ends),
         NEW dial, Dialling(ends, dial),
         NEW K, NEW type \in DccTypes \ CallerTypes,
         type = "none" \/ \A c \in K \cap Conns : ends[b][c] # "none"
  PROVE  Dialling(SetEnds(ends, b, K, type), dial)
<1>1. "none" \notin CallerTypes
  BY DEF CallerTypes
<1>2. PICK f : f = SetEnds(ends, b, K, type)
  OBVIOUS
<1>3. /\ \A x \in Bots \ {b} : f[x] = ends[x]
      /\ \A c \in Conns : f[b][c] = IF c \in K THEN type ELSE ends[b][c]
  BY <1>2 DEF SetEnds, EndsTyped
<1>4. ASSUME NEW c \in Conns
      PROVE  Caller[c] \in Bots /\ Callee[c] \in Bots /\ Caller[c] # Callee[c]
  BY EndsAssumption
<1> QED  BY <1>1, <1>2, <1>3, <1>4 DEF Dialling

\* A handler that leaves the list and the links alone.
LEMMA QuietKeeps ==
  ASSUME IInv, NEW b \in Bots,
         NEW ends, NEW unread, NEW sent,
         Commit(b, tandbot[b], ends, unread, sent),
         EndsOK(b, ends), Dialling(ends, dialled'),
         BotEnds(b, ends[b]) = BotEnds(b, dcc[b]),
         UnreadOK(b, unread), SentOK(b, sent),
         dialled' \subseteq Conns, typed' \subseteq Unlinks
  PROVE  IInv'
<1>1. Good(b, tandbot[b], ends[b])
  BY GoodSame DEF IInv
<1> QED  BY <1>1, CommitKeeps

\* One that only moves ends of b, none of them a link, to another login state.
LEMMA LoginKeeps ==
  ASSUME IInv, NEW b \in Bots,
         NEW K, K \subseteq Ends(b), \A c \in K : dcc[b][c] \notin {"none", "bot"},
         NEW type \in DccTypes \ CallerTypes, type # "bot",
         NEW unread, NEW sent,
         Commit(b, tandbot[b], SetEnds(dcc, b, K, type), unread, sent),
         UnreadOK(b, unread), SentOK(b, sent), UNCHANGED <<dialled, typed>>
  PROVE  IInv'
<1>1. EndsOK(b, SetEnds(dcc, b, K, type))
  BY DccOK, SetEndsOK
<1>2. EndsTyped(dcc) /\ Dialling(dcc, dialled)
  BY DEF IInv
<1>3. Dialling(SetEnds(dcc, b, K, type), dialled')
  BY <1>2, DiallingKept
<1>4. BotEnds(b, SetEnds(dcc, b, K, type)[b]) = BotEnds(b, dcc[b])
  BY <1>2, SetEndsTyped DEF BotEnds, Ends
<1> QED  BY <1>1, <1>3, <1>4, QuietKeeps DEF IInv

\* A handler that drops a link.
LEMMA DropLinkKeeps ==
  ASSUME IInv, NEW b \in Bots, NEW c \in BotEnds(b, dcc[b]),
         NEW bye \in Seq(MsgFrom(b)), NEW ends, NEW unread, NEW sent,
         DropLink(b, c, bye, ends, unread, sent),
         EndsOK(b, ends), Dialling(ends, dialled'),
         BotEnds(b, ends[b]) = BotEnds(b, dcc[b]),
         \A d \in Conns : dcc[b][d] = "dupwait" => ends[b][d] = "dupwait",
         UnreadOK(b, unread), SentOK(b, sent),
         dialled' \subseteq Conns, typed' \subseteq Unlinks
  PROVE  IInv'
<1>1. PICK R : R = Subtree(tandbot[b], {Peer(c, b)})
  OBVIOUS
<1>2. PICK S \in Resumable(b, R) :
        Commit(b, Without(tandbot[b], R),
               SetEnds(Closed(ends, b, {c}), b, S, "pass"), unread,
               SendBut(b, {c}, <<Un(Peer(c, b))>>) ++ sent
                 ++ SendOn({c}, bye) ++ SendOn(S, <<Passreq>>))
  BY <1>1 DEF DropLink
<1>3. PICK cl : cl = SetEnds(ends, b, {c}, "none")
  OBVIOUS
<1>4. PICK new : new = SetEnds(cl, b, S, "pass")
  OBVIOUS
<1>5. /\ c \in Conns /\ c \in Ends(b) /\ dcc[b][c] = "bot"
      /\ Peer(c, b) \in Bots \ {b}
  BY PeerFacts DEF BotEnds
<1>6. S \subseteq Ends(b) /\ \A d \in S : d \in Conns /\ d # c /\ ends[b][d] = "dupwait"
  BY <1>5 DEF Resumable, IInv, EndsTyped
<1>7. EndsTyped(ends)
  BY DEF EndsOK
<1>8. "none" \in DccTypes \ CallerTypes /\ "pass" \in DccTypes \ CallerTypes
  BY DEF DccTypes, CallerTypes, CalleeTypes
<1>9. /\ EndsOK(b, cl) /\ EndsTyped(cl) /\ Dialling(cl, dialled')
      /\ \A d \in Conns : cl[b][d] = IF d = c THEN "none" ELSE ends[b][d]
  <2>1. EndsOK(b, cl)
    BY <1>3, <1>8, SetEndsOK
  <2>2. Dialling(cl, dialled')
    BY <1>3, <1>7, <1>8, DiallingKept
  <2> QED  BY <1>3, <1>7, <1>8, <2>1, <2>2, SetEndsTyped DEF EndsOK
<1>10. \A d \in S \cap Conns : cl[b][d] = "dupwait"
  BY <1>6, <1>9
<1>11. EndsOK(b, new) /\ Dialling(new, dialled')
  <2>1. EndsOK(b, new)
    BY <1>4, <1>6, <1>8, <1>9, SetEndsOK
  <2> QED  BY <1>4, <1>8, <1>9, <1>10, <2>1, DiallingKept
<1>12. BotEnds(b, new[b]) = BotEnds(b, dcc[b]) \ {c}
  <2>1. \A d \in Conns : new[b][d] = IF d \in S THEN "pass" ELSE cl[b][d]
    BY <1>4, <1>6, <1>8, <1>9, SetEndsTyped
  <2>2. \A d \in Ends(b) : new[b][d] = "bot" <=> ends[b][d] = "bot" /\ d # c
    BY <1>6, <1>9, <2>1 DEF Ends
  <2> QED  BY <2>2 DEF BotEnds
<1>13. Good(b, Without(tandbot[b], R), new[b])
  BY <1>1, <1>12, GoodWithoutNeighbour DEF IInv
<1>14. SentOK(b, SendBut(b, {c}, <<Un(Peer(c, b))>>) ++ sent
                   ++ SendOn({c}, bye) ++ SendOn(S, <<Passreq>>))
  <2>1. <<Un(Peer(c, b))>> \in Seq(MsgFrom(b)) /\ <<Passreq>> \in Seq(MsgFrom(b))
    BY <1>5, MsgTypes
  <2> QED  BY <2>1, SendButOK, SendOnOK, SendBothOK
<1> QED  BY <1>2, <1>3, <1>4, <1>11, <1>13, <1>14, CommitKeeps DEF Closed

-----------------------------------------------------------------------------
(* Dialling *)

LEMMA Types ==
  /\ {"none", "new", "bot", "telnet", "dupwait", "pass"} = DccTypes \ CallerTypes
  /\ {"dns", "fork"} = CallerTypes
  /\ CallerTypes \subseteq DccTypes
  BY DEF DccTypes, CallerTypes, CalleeTypes

\* Our own dial is the first thing that happens on a connection.
LEMMA DialFacts ==
  ASSUME NEW b \in Bots, NEW ends, EndsTyped(ends), EndsOK(b, ends),
         NEW K, K \subseteq {c \in Conns : Caller[c] = b /\ c \notin dialled},
         Dialling(ends, dialled)
  PROVE  /\ EndsOK(b, SetEnds(ends, b, K, "dns"))
         /\ Dialling(SetEnds(ends, b, K, "dns"), dialled \cup K)
         /\ BotEnds(b, SetEnds(ends, b, K, "dns")[b]) = BotEnds(b, ends[b])
<1>1. K \subseteq Ends(b)
  BY EndsAssumption DEF Ends
<1>2. PICK f : f = SetEnds(ends, b, K, "dns")
  OBVIOUS
<1>3. /\ \A x \in Bots \ {b} : f[x] = ends[x]
      /\ \A c \in Conns : f[b][c] = IF c \in K THEN "dns" ELSE ends[b][c]
  BY <1>1, <1>2, Types, SetEndsTyped
<1>4. \A c \in Conns : /\ Caller[c] \in Bots /\ Callee[c] \in Bots
                       /\ Caller[c] # Callee[c]
  BY EndsAssumption
<1>5. Dialling(f, dialled \cup K)
  <2> SUFFICES ASSUME NEW c \in Conns
               PROVE  /\ f[Callee[c]][c] \notin CallerTypes
                      /\ f[Caller[c]][c] \in CallerTypes => f[Callee[c]][c] = "none"
                      /\ c \notin dialled \cup K =>
                           f[Caller[c]][c] = "none" /\ f[Callee[c]][c] = "none"
    BY DEF Dialling
  <2>1. CASE c \in K
    BY <1>3, <1>4, <2>1, Types DEF Dialling
  <2>2. CASE c \notin K
    BY <1>3, <1>4, <2>2 DEF Dialling
  <2> QED  BY <2>1, <2>2
<1>6. BotEnds(b, f[b]) = BotEnds(b, ends[b])
  BY <1>1, <1>3 DEF BotEnds, Ends, Dialling
<1> QED  BY <1>1, <1>2, <1>5, <1>6, Types, SetEndsOK

LEMMA DialKeeps ==
  ASSUME IInv, NEW b \in Bots, NEW c, Botlink(b, c) \/ Autolink(b, c), c \in Conns
  PROVE  IInv'
<1>1. CanLink(b, c, FALSE) \/ CanLink(b, c, TRUE)
  BY DEF Botlink, Autolink, AutoChoices
<1>2. Dial(b, c) /\ Caller[c] = b /\ c \notin dialled
  BY <1>1 DEF Botlink, Autolink, CanLink
<1>3. /\ Commit(b, tandbot[b], SetEnds(dcc, b, {c}, "dns"), Inbox(b), Nothing)
      /\ dialled' = dialled \cup {c}
      /\ typed' = typed
  BY <1>2 DEF Dial
<1>4. EndsTyped(dcc) /\ EndsOK(b, dcc) /\ Dialling(dcc, dialled)
  BY DccOK DEF IInv
<1>5. /\ EndsOK(b, SetEnds(dcc, b, {c}, "dns"))
      /\ Dialling(SetEnds(dcc, b, {c}, "dns"), dialled')
      /\ BotEnds(b, SetEnds(dcc, b, {c}, "dns")[b]) = BotEnds(b, dcc[b])
  BY <1>2, <1>3, <1>4, DialFacts
<1>6. dialled' \subseteq Conns /\ typed' \subseteq Unlinks
  BY <1>3 DEF IInv
<1> QED  BY <1>3, <1>5, <1>6, InboxOK, NothingOK, QuietKeeps

LEMMA ResolveKeeps ==
  ASSUME IInv, NEW b \in Bots, NEW c \in Ends(b), ResolveSuccess(b, c)
  PROVE  IInv'
<1>1. PICK f : f = SetEnds(dcc, b, {c}, "fork")
  OBVIOUS
<1>2. EndsTyped(dcc) /\ EndsOK(b, dcc) /\ Dialling(dcc, dialled) /\ c \in Conns
  BY DccOK, PeerFacts DEF IInv
<1>3. EndsOK(b, f)
  BY <1>1, <1>2, Types, SetEndsOK
<1>4. /\ \A x \in Bots \ {b} : f[x] = dcc[x]
      /\ \A d \in Conns : f[b][d] = IF d = c THEN "fork" ELSE dcc[b][d]
  BY <1>1, <1>2, Types, SetEndsTyped
<1>5. dcc[b][c] = "dns" /\ UNCHANGED <<dialled, typed>>
  BY DEF ResolveSuccess
<1>6. \A d \in Conns : /\ Caller[d] \in Bots /\ Callee[d] \in Bots
                       /\ Caller[d] # Callee[d]
  BY EndsAssumption
<1>7. Dialling(f, dialled')
  BY <1>2, <1>4, <1>5, <1>6, Types DEF Dialling
<1>8. BotEnds(b, f[b]) = BotEnds(b, dcc[b])
  BY <1>4, <1>5 DEF BotEnds, Ends
<1>9. Commit(b, tandbot[b], f, Inbox(b), Nothing)
  BY <1>1 DEF ResolveSuccess
<1> QED  BY <1>3, <1>5, <1>7, <1>8, <1>9, InboxOK, NothingOK, QuietKeeps DEF IInv

LEMMA FailedLinkKeeps ==
  ASSUME IInv, NEW b \in Bots, NEW c \in Ends(b), FailedLink(b, c)
  PROVE  IInv'
<1>1. PICK next \in {{}} \cup {{d} : d \in AutoChoices(b, {c})} :
        /\ Commit(b, tandbot[b],
                  SetEnds(Closed(dcc, b, {c}), b, next, "dns"), Inbox(b), Nothing)
        /\ dialled' = dialled \cup next
        /\ UNCHANGED typed
  BY DEF FailedLink
<1>2. next \subseteq {d \in Conns : Caller[d] = b /\ d \notin dialled}
  BY <1>1 DEF AutoChoices, CanLink
<1>3. PICK f : f = SetEnds(dcc, b, {c}, "none")
  OBVIOUS
<1>4. EndsTyped(dcc) /\ EndsOK(b, dcc) /\ Dialling(dcc, dialled) /\ c \in Conns
  BY DccOK, PeerFacts DEF IInv
<1>5. EndsOK(b, f) /\ EndsTyped(f)
  BY <1>3, <1>4, Types, SetEndsOK DEF EndsOK
<1>6. Dialling(f, dialled)
  BY <1>3, <1>4, Types, DiallingKept
<1>7. /\ EndsOK(b, SetEnds(f, b, next, "dns"))
      /\ Dialling(SetEnds(f, b, next, "dns"), dialled')
      /\ BotEnds(b, SetEnds(f, b, next, "dns")[b]) = BotEnds(b, f[b])
  BY <1>1, <1>2, <1>5, <1>6, DialFacts
<1>8. BotEnds(b, f[b]) = BotEnds(b, dcc[b])
  <2>1. \A d \in Conns : f[b][d] = IF d = c THEN "none" ELSE dcc[b][d]
    BY <1>3, <1>4, Types, SetEndsTyped
  <2>2. dcc[b][c] # "bot"
    BY DEF FailedLink
  <2> QED  BY <2>1, <2>2 DEF BotEnds, Ends
<1>9. dialled' \subseteq Conns /\ typed' \subseteq Unlinks
  BY <1>1, <1>2 DEF IInv
<1>10. Commit(b, tandbot[b], SetEnds(f, b, next, "dns"), Inbox(b), Nothing)
  BY <1>1, <1>3 DEF Closed
<1> QED  BY <1>7, <1>8, <1>9, <1>10, InboxOK, NothingOK, QuietKeeps

\* The ends when a call is accepted: ours is in, the callee's appears, some attempts of ours stop.
CallAccepted(b, c, x, lost) == [Closed(dcc, b, lost) EXCEPT ![b][c] = "new", ![x][c] = "telnet"]

LEMMA AcceptedEnds ==
  ASSUME IInv, NEW b \in Bots, NEW c \in Ends(b), dcc[b][c] = "fork", NEW x, x = Peer(c, b),
         NEW lost, lost \subseteq Conns, c \notin lost,
         NEW ends, ends = CallAccepted(b, c, x, lost)
  PROVE  /\ c \in Conns /\ x \in Bots /\ x # b
         /\ Caller[c] = b /\ Callee[c] = x /\ dcc[x][c] = "none" /\ c \in dialled
         /\ ends \in [Bots -> [Conns -> DccTypes]]
         /\ \A y \in Bots : \A d \in Conns :
              ends[y][d] = IF y = b /\ d = c THEN "new"
                           ELSE IF y = x /\ d = c THEN "telnet"
                           ELSE IF y = b /\ d \in lost THEN "none" ELSE dcc[y][d]
<1>1. c \in Conns /\ x \in Bots /\ x # b /\ {Caller[c], Callee[c]} = {b, x}
  BY PeerFacts, EndsAssumption DEF Peer, Ends
<1>2. EndsTyped(dcc) /\ Dialling(dcc, dialled)
  BY DEF IInv
<1>3. Caller[c] = b /\ Callee[c] = x /\ dcc[x][c] = "none" /\ c \in dialled
  BY <1>1, <1>2, Types DEF Dialling
<1>4. /\ ends \in [Bots -> [Conns -> DccTypes]]
      /\ \A y \in Bots : \A d \in Conns :
           ends[y][d] = IF y = b /\ d = c THEN "new"
                        ELSE IF y = x /\ d = c THEN "telnet"
                        ELSE IF y = b /\ d \in lost THEN "none" ELSE dcc[y][d]
  <2>1. PICK f : f = Closed(dcc, b, lost)
    OBVIOUS
  <2>2. /\ f \in [Bots -> [Conns -> DccTypes]]
        /\ \A y \in Bots : \A d \in Conns :
             f[y][d] = IF y = b /\ d \in lost THEN "none" ELSE dcc[y][d]
    BY <1>2, <2>1, Types, SetEndsTyped DEF Closed, EndsTyped
  <2>3. "new" \in DccTypes /\ "telnet" \in DccTypes
    BY Types
  <2>4. PICK g : g = [f EXCEPT ![b][c] = "new"]
    OBVIOUS
  <2>5. /\ g \in [Bots -> [Conns -> DccTypes]]
        /\ \A y \in Bots : \A d \in Conns :
             g[y][d] = IF y = b /\ d = c THEN "new" ELSE f[y][d]
    BY <1>1, <2>2, <2>3, <2>4
  <2>6. ends = [g EXCEPT ![x][c] = "telnet"]
    BY <2>1, <2>4 DEF CallAccepted
  <2>7. /\ ends \in [Bots -> [Conns -> DccTypes]]
        /\ \A y \in Bots : \A d \in Conns :
             ends[y][d] = IF y = x /\ d = c THEN "telnet" ELSE g[y][d]
    BY <1>1, <2>3, <2>5, <2>6
  <2> QED  BY <1>1, <2>2, <2>5, <2>7
<1> QED  BY <1>1, <1>3, <1>4

LEMMA ContLinkKeeps ==
  ASSUME IInv, NEW b \in Bots, NEW c \in Ends(b), ContLink(b, c)
  PROVE  IInv'
<1> DEFINE lost0  == {d \in Ends(b) \ {c} : /\ <<b, Peer(d, b)>> \in Alt
                                           /\ dcc[b][d] \in {"fork", "new"}}
           lost1  == IF <<b, Peer(c, b)>> \in Hub THEN lost0 ELSE {}
           route1 == IF <<b, Peer(c, b)>> \in Hub THEN NextBots(b, Peer(c, b)) ELSE {}
<1>1. PICK x : x = Peer(c, b)
  OBVIOUS
<1>2. PICK lost : lost = lost1
  OBVIOUS
<1>3. PICK ends : ends = CallAccepted(b, c, x, lost)
  OBVIOUS
<1>4. /\ dcc[b][c] = "fork"
      /\ UNCHANGED <<dialled, typed>>
      /\ \/ Commit(b, tandbot[b], ends, Inbox(b), SendOn({c}, <<Id>>))
         \/ \E d \in route1 :
              DropLink(b, d, <<Bye>>, ends, Inbox(b), SendOn({c}, <<Id>>))
  BY <1>1, <1>2, <1>3 DEF ContLink, CallAccepted
<1>5. /\ lost \subseteq Conns /\ c \notin lost
      /\ \A d \in lost : dcc[b][d] \in {"fork", "new"}
  BY <1>2 DEF Ends
<1>6. c \in Conns /\ x \in Bots /\ x # b /\ {Caller[c], Callee[c]} = {b, x}
  BY <1>1, PeerFacts, EndsAssumption DEF Peer, Ends
<1>7. EndsTyped(dcc) /\ Dialling(dcc, dialled)
  BY DEF IInv
<1>8. Caller[c] = b /\ Callee[c] = x /\ dcc[x][c] = "none" /\ c \in dialled
  BY <1>1, <1>3, <1>4, <1>5, AcceptedEnds
<1>9. /\ ends \in [Bots -> [Conns -> DccTypes]]
      /\ \A y \in Bots : \A d \in Conns :
           ends[y][d] = IF y = b /\ d = c THEN "new"
                        ELSE IF y = x /\ d = c THEN "telnet"
                        ELSE IF y = b /\ d \in lost THEN "none" ELSE dcc[y][d]
  BY <1>1, <1>3, <1>4, <1>5, AcceptedEnds
<1>10. \A y \in Bots : BotEnds(y, ends[y]) = BotEnds(y, dcc[y])
  <2>1. \A y \in Bots : \A d \in Conns : ends[y][d] = "bot" <=> dcc[y][d] = "bot"
    BY <1>4, <1>5, <1>8, <1>9
  <2> QED  BY <2>1 DEF BotEnds, Ends
<1>11. EndsOK(b, ends)
  <2>1. \A y \in Bots : \A d \in Conns \ Ends(y) : ends[y][d] = "none"
    <3>1. c \in Ends(x)
      BY <1>1, PeerFacts
    <3> QED  BY <1>7, <1>9, <3>1 DEF EndsTyped
  <2> QED  BY <1>9, <1>10, <2>1 DEF EndsOK, EndsTyped
<1>12. Dialling(ends, dialled')
  <2>1. \A d \in Conns : Caller[d] \in Bots /\ Callee[d] \in Bots
    BY EndsAssumption
  <2> QED  BY <1>4, <1>5, <1>6, <1>7, <1>8, <1>9, <2>1, Types DEF Dialling
<1>13. /\ <<Id>> \in Seq(MsgFrom(b)) /\ <<Bye>> \in Seq(MsgFrom(b))
       /\ SentOK(b, SendOn({c}, <<Id>>))
  BY LoginLinesOK
<1>14. dialled' \subseteq Conns /\ typed' \subseteq Unlinks
  BY <1>4 DEF IInv
<1>15. CASE Commit(b, tandbot[b], ends, Inbox(b), SendOn({c}, <<Id>>))
  BY <1>10, <1>11, <1>12, <1>13, <1>14, <1>15, InboxOK, QuietKeeps
<1>16. CASE \E d \in route1 :
              DropLink(b, d, <<Bye>>, ends, Inbox(b), SendOn({c}, <<Id>>))
  <2>1. PICK d \in route1 :
          DropLink(b, d, <<Bye>>, ends, Inbox(b), SendOn({c}, <<Id>>))
    BY <1>16
  <2>2. d \in BotEnds(b, dcc[b])
    BY <1>7 DEF NextBots, Links, BotEnds, EndsTyped
  <2>3. \A e \in Conns : dcc[b][e] = "dupwait" => ends[b][e] = "dupwait"
    BY <1>4, <1>5, <1>6, <1>9
  <2> QED  BY <1>10, <1>11, <1>12, <1>13, <1>14, <2>1, <2>2, <2>3, InboxOK, DropLinkKeeps
<1> QED  BY <1>4, <1>15, <1>16

-----------------------------------------------------------------------------
(* Login *)

LEMMA TelnetIdKeeps ==
  ASSUME IInv, NEW b \in Bots, NEW c \in Ends(b), TelnetId(b, c)
  PROVE  IInv'
<1>1. c \in Conns /\ wire[c][b] # <<>> /\ dcc[b][c] = "telnet"
  BY PeerFacts DEF TelnetId, Reads
<1>2. UnreadOK(b, Consumed(b, c)) /\ UNCHANGED <<dialled, typed>>
  BY <1>1, ConsumedOK DEF TelnetId
<1>3. SentOK(b, Nothing) /\ SentOK(b, SendOn({c}, <<Passreq>>))
  BY LoginLinesOK, NothingOK
<1>4. \/ Commit(b, tandbot[b], SetEnds(dcc, b, {c}, "dupwait"), Consumed(b, c), Nothing)
      \/ Commit(b, tandbot[b], SetEnds(dcc, b, {c}, "pass"), Consumed(b, c),
                SendOn({c}, <<Passreq>>))
  BY DEF TelnetId
<1> QED  BY <1>1, <1>2, <1>3, <1>4, Types, LoginKeeps

LEMMA TimeoutDupwaitKeeps ==
  ASSUME IInv, NEW b \in Bots, NEW c \in Ends(b), TimeoutDupwait(b, c)
  PROVE  IInv'
<1>1. dcc[b][c] = "dupwait" /\ UNCHANGED <<dialled, typed>>
  BY DEF TimeoutDupwait
<1>2. SentOK(b, Nothing) /\ SentOK(b, SendOn({c}, <<Passreq>>))
  BY LoginLinesOK, NothingOK
<1>3. \/ Commit(b, tandbot[b], SetEnds(dcc, b, {c}, "none"), Inbox(b), Nothing)
      \/ Commit(b, tandbot[b], SetEnds(dcc, b, {c}, "pass"), Inbox(b),
                SendOn({c}, <<Passreq>>))
  BY DEF TimeoutDupwait, Closed
<1> QED  BY <1>1, <1>2, <1>3, InboxOK, Types, LoginKeeps

LEMMA AnswerKeeps ==
  ASSUME IInv, NEW b \in Bots, NEW c \in Ends(b),
         AnswerChallenge(b, c) \/ IgnoreBye(b, c)
  PROVE  IInv'
<1>1. c \in Conns /\ wire[c][b] # <<>>
  BY PeerFacts DEF AnswerChallenge, IgnoreBye, Reads
<1>2. UnreadOK(b, Consumed(b, c)) /\ UNCHANGED <<dialled, typed>>
  BY <1>1, ConsumedOK DEF AnswerChallenge, IgnoreBye
<1>3. SentOK(b, Nothing) /\ SentOK(b, SendOn({c}, <<Digest>>))
  BY LoginLinesOK, NothingOK
<1>4. \/ Commit(b, tandbot[b], dcc, Consumed(b, c), SendOn({c}, <<Digest>>))
      \/ Commit(b, tandbot[b], dcc, Consumed(b, c), Nothing)
  BY DEF AnswerChallenge, IgnoreBye
<1> QED  BY <1>2, <1>3, <1>4, DccOK, QuietKeeps DEF IInv

LEMMA GreetKeeps ==
  ASSUME IInv, NEW b \in Bots, NEW c \in Ends(b), NEW first \in Seq(MsgFrom(b)),
         GreetNewBot(b, c, first), wire[c][b] # <<>>,
         dcc[b][c] \in {"pass", "new"}, UNCHANGED <<dialled, typed>>
  PROVE  IInv'
<1>1. PICK forks : forks = {d \in Conns : dcc[b][d] = "fork"}
  OBVIOUS
<1>2. PICK f : f = SetEnds(dcc, b, {c}, "new")
  OBVIOUS
<1>3. \/ Commit(b, tandbot[b], SetEnds(dcc, b, {c}, "none"), Consumed(b, c),
                SendOn({c}, first \o <<Bye>>))
      \/ Commit(b, tandbot[b], SetEnds(f, b, forks, "none"), Consumed(b, c),
                SendOn({c}, first \o <<Version>>))
  BY <1>1, <1>2 DEF GreetNewBot, Closed
<1>4. c \in Conns /\ UnreadOK(b, Consumed(b, c))
  BY PeerFacts, ConsumedOK
<1>5. /\ SentOK(b, SendOn({c}, first \o <<Bye>>))
      /\ SentOK(b, SendOn({c}, first \o <<Version>>))
  <2>1. <<Bye>> \in Seq(MsgFrom(b)) /\ <<Version>> \in Seq(MsgFrom(b))
    BY LoginLinesOK
  <2>2. first \o <<Bye>> \in Seq(MsgFrom(b)) /\ first \o <<Version>> \in Seq(MsgFrom(b))
    BY <2>1
  <2> QED  BY <2>2, SendOnOK
<1>6. EndsTyped(dcc) /\ EndsOK(b, dcc) /\ Dialling(dcc, dialled)
  BY DccOK DEF IInv
<1>7. /\ EndsTyped(f) /\ EndsOK(b, f) /\ Dialling(f, dialled)
      /\ \A d \in Conns : f[b][d] = IF d = c THEN "new" ELSE dcc[b][d]
  <2>1. EndsOK(b, f)
    BY <1>2, <1>6, Types, SetEndsOK
  <2>2. Dialling(f, dialled)
    BY <1>2, <1>4, <1>6, Types, DiallingKept
  <2> QED  BY <1>2, <1>6, <2>1, <2>2, Types, SetEndsTyped
<1>8. /\ EndsOK(b, SetEnds(f, b, forks, "none"))
      /\ Dialling(SetEnds(f, b, forks, "none"), dialled)
  BY <1>7, Types, SetEndsOK, DiallingKept
<1>9. BotEnds(b, SetEnds(f, b, forks, "none")[b]) = BotEnds(b, dcc[b])
  <2>1. \A d \in Conns : SetEnds(f, b, forks, "none")[b][d]
                           = IF d \in forks THEN "none" ELSE f[b][d]
    BY <1>7, Types, SetEndsTyped
  <2> QED  BY <1>1, <1>7, <2>1 DEF BotEnds, Ends
<1>10. CASE Commit(b, tandbot[b], SetEnds(dcc, b, {c}, "none"), Consumed(b, c),
                   SendOn({c}, first \o <<Bye>>))
  BY <1>4, <1>5, <1>10, Types, LoginKeeps
<1>11. CASE Commit(b, tandbot[b], SetEnds(f, b, forks, "none"), Consumed(b, c),
                   SendOn({c}, first \o <<Version>>))
  BY <1>4, <1>5, <1>8, <1>9, <1>11, QuietKeeps DEF IInv
<1> QED  BY <1>3, <1>10, <1>11

LEMMA GreetingsKeep ==
  ASSUME IInv, NEW b \in Bots, NEW c \in Ends(b),
         ChatPass(b, c) \/ ReadHello(b, c)
  PROVE  IInv'
<1>1. <<Hello>> \in Seq(MsgFrom(b)) /\ <<>> \in Seq(MsgFrom(b))
  BY MsgTypes
<1>2. wire[c][b] # <<>> /\ dcc[b][c] \in {"pass", "new"} /\ UNCHANGED <<dialled, typed>>
  BY DEF ChatPass, ReadHello, Reads
<1>3. GreetNewBot(b, c, <<Hello>>) \/ GreetNewBot(b, c, <<>>)
  BY DEF ChatPass, ReadHello
<1> QED  BY <1>1, <1>2, <1>3, GreetKeeps

LEMMA LoginLostKeeps ==
  ASSUME IInv, NEW b \in Bots, NEW c \in Ends(b), LoginLost(b, c)
  PROVE  IInv'
<1>1. dcc[b][c] \in {"telnet", "pass", "new", "dupwait"}
  BY DEF LoginLost
<1>2. Commit(b, tandbot[b], SetEnds(dcc, b, {c}, "none"), Inbox(b), Nothing)
  BY DEF LoginLost, Closed
<1>3. UNCHANGED <<dialled, typed>>
  BY DEF LoginLost
<1> QED  BY <1>1, <1>2, <1>3, InboxOK, NothingOK, Types, LoginKeeps

LEMMA BotVersionKeeps ==
  ASSUME IInv, NEW b \in Bots, NEW c \in Ends(b), BotVersion(b, c)
  PROVE  IInv'
<1>1. PICK x : x = Peer(c, b)
  OBVIOUS
<1>2. PICK f : f = SetEnds(dcc, b, {c}, "bot")
  OBVIOUS
<1>3. PICK sent : sent = SendBut(b, {c}, <<N(x, b)>>) ++ SendOn({c}, DumpLinks(tandbot[b]))
  OBVIOUS
<1>4. /\ dcc[b][c] = "new" /\ wire[c][b] # <<>> /\ UNCHANGED <<dialled, typed>>
      /\ \/ Commit(b, tandbot[b], SetEnds(dcc, b, {c}, "none"), Consumed(b, c),
                   SendOn({c}, <<Bye>>))
         \/ /\ ~InChain(b, x)
            /\ Commit(b, WithBot(tandbot[b], x, x, b), f, Consumed(b, c), sent)
  BY <1>1, <1>2, <1>3 DEF BotVersion, Reads, Closed
<1>5. c \in Conns /\ x \in Bots \ {b} /\ UnreadOK(b, Consumed(b, c))
  BY <1>1, <1>4, PeerFacts, ConsumedOK
<1>6. CASE Commit(b, tandbot[b], SetEnds(dcc, b, {c}, "none"), Consumed(b, c),
                  SendOn({c}, <<Bye>>))
  <2>1. SentOK(b, SendOn({c}, <<Bye>>))
    BY LoginLinesOK
  <2> QED  BY <1>4, <1>5, <1>6, <2>1, Types, LoginKeeps
<1>7. CASE /\ ~InChain(b, x)
           /\ Commit(b, WithBot(tandbot[b], x, x, b), f, Consumed(b, c), sent)
  <2>1. EndsTyped(dcc) /\ EndsOK(b, dcc) /\ Dialling(dcc, dialled) /\ Good(b, tandbot[b], dcc[b])
    BY DccOK DEF IInv
  <2>2. EndsOK(b, f)
    BY <1>2, <2>1, Types, SetEndsOK
  <2>3. Dialling(f, dialled')
    BY <1>2, <1>4, <2>1, Types, DiallingKept
  <2>4. BotEnds(b, f[b]) = BotEnds(b, dcc[b]) \cup {c} /\ c \notin BotEnds(b, dcc[b])
    <3>1. \A d \in Conns : f[b][d] = IF d = c THEN "bot" ELSE dcc[b][d]
      BY <1>2, <2>1, Types, SetEndsTyped
    <3> QED  BY <1>4, <1>5, <3>1 DEF BotEnds, Ends
  <2>5. Good(b, WithBot(tandbot[b], x, x, b), f[b])
    <3>1. x \notin DOMAIN tandbot[b]
      BY <1>7 DEF InChain
    <3> QED  BY <1>1, <2>1, <2>4, <3>1, GoodWithNeighbour
  <2>6. SentOK(b, sent)
    <3>1. SentOK(b, SendBut(b, {c}, <<N(x, b)>>))
      BY <1>5, MsgTypes, SendLineOK
    <3>2. SentOK(b, SendOn({c}, DumpLinks(tandbot[b])))
      BY <2>1, DumpLinksOK, SendOnOK DEF Good
    <3> QED  BY <1>3, <3>1, <3>2, SendBothOK
  <2> QED  BY <1>4, <1>5, <1>7, <2>2, <2>3, <2>5, <2>6, CommitKeeps DEF IInv
<1> QED  BY <1>4, <1>6, <1>7

-----------------------------------------------------------------------------
(* The established link *)

LEMMA RouteFacts ==
  ASSUME IInv, NEW b \in Bots, NEW x, NEW d \in NextBots(b, x)
  PROVE  /\ d \in BotEnds(b, dcc[b])
         /\ x \in DOMAIN tandbot[b]
         /\ tandbot[b][x].via = Peer(d, b)
         /\ x \in Bots
  BY DEF NextBots, Links, BotEnds, IInv, EndsTyped, Good, ListType

LEMMA HeardFacts ==
  ASSUME IInv, NEW b \in Bots, NEW c \in Ends(b), Next1(b, c)
  PROVE  /\ c \in Conns /\ c \in BotEnds(b, dcc[b])
         /\ UnreadOK(b, Consumed(b, c))
         /\ Head(wire[c][b]) \in MsgFrom(Peer(c, b))
         /\ Head(wire[c][b]) \in Messages
  BY PeerFacts, ConsumedOK DEF Next1, BotEnds, MsgFrom

\* The handlers that drop link c for what they have read, and those that only
\* read and pass on.
LEMMA PlainDropKeeps ==
  ASSUME IInv, NEW b \in Bots, NEW c \in BotEnds(b, dcc[b]),
         NEW bye \in {<<>>, <<Bye>>}, NEW unread, UnreadOK(b, unread),
         DropLink(b, c, bye, dcc, unread, Nothing),
         dialled' = dialled, typed' \subseteq Unlinks
  PROVE  IInv'
<1>1. bye \in Seq(MsgFrom(b))
  <2>1. <<>> \in Seq(MsgFrom(b)) /\ <<Bye>> \in Seq(MsgFrom(b))
    BY LoginLinesOK
  <2> QED  BY <2>1
<1>2. EndsOK(b, dcc) /\ Dialling(dcc, dialled') /\ dialled' \subseteq Conns
  BY DccOK DEF IInv
<1> QED  BY <1>1, <1>2, NothingOK, DropLinkKeeps

LEMMA PassOnKeeps ==
  ASSUME IInv, NEW b \in Bots, NEW unread, UnreadOK(b, unread),
         NEW sent, SentOK(b, sent),
         Commit(b, tandbot[b], dcc, unread, sent), UNCHANGED <<dialled, typed>>
  PROVE  IInv'
  BY DccOK, QuietKeeps DEF IInv

LEMMA BotNlinkedKeeps ==
  ASSUME IInv, NEW b \in Bots, NEW c \in Ends(b), BotNlinked(b, c)
  PROVE  IInv'
<1>1. PICK m : m = Head(wire[c][b])
  OBVIOUS
<1>2. PICK sent : sent = SendBut(b, {c}, <<m>>)
                           ++ SendOn(IF <<b, m.bot>> \in Reject THEN {c} ELSE {},
                                     <<Rej(b, m.bot)>>)
  OBVIOUS
<1>3. Next1(b, c) /\ m.cmd = "n" /\ UNCHANGED <<dialled, typed>>
  BY <1>1 DEF BotNlinked
<1>4. /\ c \in Conns /\ c \in BotEnds(b, dcc[b]) /\ UnreadOK(b, Consumed(b, c))
      /\ m \in Messages /\ m.bot \in Bots /\ m.up \in Bots
  BY <1>1, <1>3, HeardFacts, MsgShapes
<1>5. \/ DropLink(b, c, <<Bye>>, dcc, Consumed(b, c), Nothing)
      \/ /\ ~Loop(b, m) /\ ~Bogus(b, c, m)
         /\ Commit(b, WithBot(tandbot[b], m.bot, Peer(c, b), m.up), dcc,
                   Consumed(b, c), sent)
  BY <1>1, <1>2 DEF BotNlinked
<1>6. CASE DropLink(b, c, <<Bye>>, dcc, Consumed(b, c), Nothing)
  BY <1>3, <1>4, <1>6, PlainDropKeeps DEF IInv
<1>7. CASE /\ ~Loop(b, m) /\ ~Bogus(b, c, m)
           /\ Commit(b, WithBot(tandbot[b], m.bot, Peer(c, b), m.up), dcc,
                     Consumed(b, c), sent)
  <2>1. m.bot # b /\ m.bot \notin DOMAIN tandbot[b]
    BY <1>7 DEF Loop, InChain
  <2>2. m.up \in DOMAIN tandbot[b] /\ tandbot[b][m.up].via = Peer(c, b)
    BY <1>7, RouteFacts DEF Bogus
  <2>3. Good(b, WithBot(tandbot[b], m.bot, Peer(c, b), m.up), dcc[b])
    <3>1. Good(b, tandbot[b], dcc[b])
      BY DEF IInv
    <3> QED  BY <1>4, <2>1, <2>2, <3>1, GoodWithRemote
  <2>4. SentOK(b, sent)
    <3>1. m \in MsgFrom(b)
      BY <1>3, <1>4 DEF MsgFrom
    <3>2. Rej(b, m.bot) \in MsgFrom(b)
      BY <1>4, MsgTypes
    <3> QED  BY <1>2, <3>1, <3>2, SendLineOK, SendBothOK
  <2>5. EndsOK(b, dcc) /\ Dialling(dcc, dialled') /\ dialled' \subseteq Conns
        /\ typed' \subseteq Unlinks
    BY <1>3, DccOK DEF IInv
  <2> QED  BY <1>4, <1>7, <2>3, <2>4, <2>5, CommitKeeps
<1> QED  BY <1>5, <1>6, <1>7

LEMMA BotUnlinkedKeeps ==
  ASSUME IInv, NEW b \in Bots, NEW c \in Ends(b), BotUnlinked(b, c)
  PROVE  IInv'
<1>1. PICK x : x = Head(wire[c][b]).bot
  OBVIOUS
<1>2. PICK R : R = Subtree(tandbot[b], {x})
  OBVIOUS
<1>3. Next1(b, c) /\ Head(wire[c][b]).cmd = "un" /\ UNCHANGED <<dialled, typed>>
  BY DEF BotUnlinked
<1>4. /\ c \in Conns /\ c \in BotEnds(b, dcc[b]) /\ UnreadOK(b, Consumed(b, c))
      /\ x \in Bots /\ x # Peer(c, b)
  BY <1>1, <1>3, HeardFacts, MsgShapes DEF MsgFrom
<1>5. \/ Commit(b, tandbot[b], dcc, Consumed(b, c), Nothing)
      \/ /\ c \in NextBots(b, x)
         /\ \E S \in Resumable(b, R) :
              Commit(b, Without(tandbot[b], R), SetEnds(dcc, b, S, "pass"),
                     Consumed(b, c),
                     SendBut(b, {c}, <<Un(x)>>) ++ SendOn(S, <<Passreq>>))
  BY <1>1, <1>2 DEF BotUnlinked
<1>6. CASE Commit(b, tandbot[b], dcc, Consumed(b, c), Nothing)
  BY <1>3, <1>4, <1>6, NothingOK, PassOnKeeps
<1>7. CASE /\ c \in NextBots(b, x)
           /\ \E S \in Resumable(b, R) :
                Commit(b, Without(tandbot[b], R), SetEnds(dcc, b, S, "pass"),
                       Consumed(b, c),
                       SendBut(b, {c}, <<Un(x)>>) ++ SendOn(S, <<Passreq>>))
  <2>1. PICK S \in Resumable(b, R) :
          Commit(b, Without(tandbot[b], R), SetEnds(dcc, b, S, "pass"),
                 Consumed(b, c),
                 SendBut(b, {c}, <<Un(x)>>) ++ SendOn(S, <<Passreq>>))
    BY <1>7
  <2>2. /\ EndsTyped(dcc) /\ EndsOK(b, dcc) /\ Dialling(dcc, dialled)
        /\ Good(b, tandbot[b], dcc[b])
    BY DccOK DEF IInv
  <2>3. S \subseteq Ends(b) /\ S \subseteq Conns /\ \A d \in S : dcc[b][d] = "dupwait"
    BY <2>2 DEF Resumable, EndsTyped
  <2>4. PICK f : f = SetEnds(dcc, b, S, "pass")
    OBVIOUS
  <2>5. EndsOK(b, f)
    BY <2>2, <2>3, <2>4, Types, SetEndsOK
  <2>6. Dialling(f, dialled')
    BY <1>3, <2>2, <2>3, <2>4, Types, DiallingKept
  <2>7. BotEnds(b, f[b]) = BotEnds(b, dcc[b])
    <3>1. \A d \in Conns : f[b][d] = IF d \in S THEN "pass" ELSE dcc[b][d]
      BY <2>2, <2>3, <2>4, Types, SetEndsTyped
    <3> QED  BY <2>3, <3>1 DEF BotEnds, Ends
  <2>8. x \in DOMAIN tandbot[b] /\ tandbot[b][x].via # x
    BY <1>4, <1>7, RouteFacts
  <2>9. Good(b, Without(tandbot[b], R), f[b])
    BY <1>2, <2>2, <2>7, <2>8, GoodWithoutRemote
  <2>10. SentOK(b, SendBut(b, {c}, <<Un(x)>>) ++ SendOn(S, <<Passreq>>))
    <3>1. x # b
      BY <2>2, <2>8 DEF Good, ListType
    <3>2. Un(x) \in MsgFrom(b) /\ Passreq \in MsgFrom(b)
      BY <1>4, <3>1, MsgTypes
    <3> QED  BY <3>2, SendLineOK, SendBothOK
  <2> QED  BY <1>3, <1>4, <2>1, <2>4, <2>5, <2>6, <2>9, <2>10, CommitKeeps DEF IInv
<1> QED  BY <1>5, <1>6, <1>7

LEMMA BotByeKeeps ==
  ASSUME IInv, NEW b \in Bots, NEW c \in Ends(b), BotBye(b, c) \/ PingTimeout(b, c)
  PROVE  IInv'
<1>1. c \in BotEnds(b, dcc[b])
  BY DEF BotBye, PingTimeout, Next1, BotEnds
<1>2. DropLink(b, c, <<>>, dcc, Inbox(b), Nothing) /\ UNCHANGED <<dialled, typed>>
  BY DEF BotBye, PingTimeout
<1> QED  BY <1>1, <1>2, InboxOK, PlainDropKeeps DEF IInv

LEMMA BotRejectKeeps ==
  ASSUME IInv, NEW b \in Bots, NEW c \in Ends(b), BotReject(b, c)
  PROVE  IInv'
<1>1. PICK m : m = Head(wire[c][b])
  OBVIOUS
<1>2. Next1(b, c) /\ m.cmd = "r" /\ UNCHANGED <<dialled, typed>>
  BY <1>1 DEF BotReject
<1>3. /\ c \in Conns /\ UnreadOK(b, Consumed(b, c)) /\ m \in Messages
  BY <1>1, <1>2, HeardFacts
<1>4. \/ Commit(b, tandbot[b], dcc, Consumed(b, c), Nothing)
      \/ \E d \in NextBots(b, m.bot) :
           \/ DropLink(b, d, <<Bye>>, dcc, Consumed(b, c), Nothing)
           \/ Commit(b, tandbot[b], dcc, Consumed(b, c), SendOn({d}, <<m>>))
  BY <1>1 DEF BotReject
<1>5. CASE Commit(b, tandbot[b], dcc, Consumed(b, c), Nothing)
  BY <1>2, <1>3, <1>5, NothingOK, PassOnKeeps
<1>6. ASSUME NEW d \in NextBots(b, m.bot),
             DropLink(b, d, <<Bye>>, dcc, Consumed(b, c), Nothing)
      PROVE  IInv'
  BY <1>2, <1>3, <1>6, RouteFacts, PlainDropKeeps DEF IInv
<1>7. ASSUME NEW d \in NextBots(b, m.bot),
             Commit(b, tandbot[b], dcc, Consumed(b, c), SendOn({d}, <<m>>))
      PROVE  IInv'
  <2>1. m \in MsgFrom(b)
    BY <1>2, <1>3 DEF MsgFrom
  <2>2. SentOK(b, SendOn({d}, <<m>>))
    BY <2>1, SendLineOK
  <2> QED  BY <1>2, <1>3, <1>7, <2>2, PassOnKeeps
<1> QED  BY <1>4, <1>5, <1>6, <1>7

\* No unlink request travels.
LEMMA NoBotUnlink ==
  ASSUME IInv, NEW b \in Bots, NEW c \in Ends(b)
  PROVE  ~BotUnlink(b, c)
  BY HeardFacts DEF BotUnlink, MsgFrom

-----------------------------------------------------------------------------
(* Operators and shutdowns *)

\* An operator unlinks a neighbour, or a bot that is not on the net.
LocalUnlink(b, x) == \A d \in NextBots(b, x) : Peer(d, b) = x

LEMMA CmdUnlinkKeeps ==
  ASSUME IInv, NEW b \in Bots, NEW x \in Bots, CmdUnlink(b, x), LocalUnlink(b, x)
  PROVE  IInv'
<1>1. /\ dialled' = dialled /\ typed' = typed \cup {<<b, x>>} /\ <<b, x>> \in Unlinks
      /\ Unlink(b, x, Inbox(b))
  BY DEF CmdUnlink, LocalUnlink
<1>2. typed' \subseteq Unlinks
  BY <1>1 DEF IInv
<1>3. ~IsGhost(b, x)
  <2> SUFFICES ASSUME x \in DOMAIN tandbot[b] PROVE Unlinkable(b, x) # {}
    BY DEF IsGhost
  <2>1. PICK d \in Ends(b) : dcc[b][d] = "bot" /\ tandbot[b][x].via = Peer(d, b)
    BY DEF IInv, Good, RoutesOK, LinksListed
  <2>2. d \in NextBots(b, x)
    BY <2>1, PeerFacts DEF NextBots, Links
  <2> QED  BY <2>1, <2>2 DEF LocalUnlink, Unlinkable
<1>4. PICK d \in Unlinkable(b, x) :
        IF dcc[b][d] = "bot"
        THEN DropLink(b, d, <<Bye>>, dcc, Inbox(b), Nothing)
        ELSE Commit(b, tandbot[b], Closed(dcc, b, {d}), Inbox(b), Nothing)
  BY <1>1, <1>3 DEF Unlink
<1>5. CASE dcc[b][d] = "bot"
  <2>1. d \in BotEnds(b, dcc[b])
    BY <1>5 DEF Unlinkable, BotEnds
  <2> QED  BY <1>1, <1>2, <1>4, <1>5, <2>1, InboxOK, PlainDropKeeps
<1>6. CASE dcc[b][d] # "bot"
  <2>1. EndsTyped(dcc) /\ EndsOK(b, dcc) /\ Dialling(dcc, dialled) /\ dialled \subseteq Conns
    BY DccOK DEF IInv
  <2>2. PICK f : f = SetEnds(dcc, b, {d}, "none")
    OBVIOUS
  <2>3. EndsOK(b, f)
    BY <2>1, <2>2, Types, SetEndsOK
  <2>4. Dialling(f, dialled')
    BY <1>1, <2>1, <2>2, Types, DiallingKept
  <2>5. BotEnds(b, f[b]) = BotEnds(b, dcc[b])
    BY <1>6, <2>1, <2>2, Types, SetEndsTyped DEF BotEnds, Ends
  <2>6. Commit(b, tandbot[b], f, Inbox(b), Nothing)
    BY <1>4, <1>6, <2>2 DEF Closed
  <2> QED  BY <1>1, <1>2, <2>1, <2>3, <2>4, <2>5, <2>6, InboxOK, NothingOK, QuietKeeps
<1> QED  BY <1>5, <1>6

LEMMA NoBotsGood ==
  ASSUME NEW b \in Bots, NEW e, BotEnds(b, e) = {}
  PROVE  Good(b, NoBots, e)
<1>1. DOMAIN NoBots = {}
  BY DEF NoBots
<1>2. ListType(b, NoBots)
  BY <1>1 DEF ListType, NoBots
<1> QED  BY <1>1, <1>2 DEF Good, OrderOK, ParentsOK, RoutesOK, LinksListed, BotEnds

LEMMA DieKeeps ==
  ASSUME IInv, NEW b \in Bots, Die(b)
  PROVE  IInv'
<1>1. PICK f : f = SetEnds(dcc, b, Conns, "none")
  OBVIOUS
<1>2. /\ Commit(b, NoBots, f, Inbox(b), SendBut(b, {}, <<Bye>>))
      /\ UNCHANGED <<dialled, typed>>
  BY <1>1 DEF Die, Closed
<1>3. EndsTyped(dcc) /\ EndsOK(b, dcc) /\ Dialling(dcc, dialled)
  BY DccOK DEF IInv
<1>4. EndsOK(b, f) /\ Dialling(f, dialled')
  <2>1. EndsOK(b, f)
    BY <1>1, <1>3, Types, SetEndsOK
  <2> QED  BY <1>1, <1>2, <1>3, <2>1, Types, DiallingKept
<1>5. BotEnds(b, f[b]) = {}
  <2>1. \A d \in Conns : f[b][d] = "none"
    BY <1>1, <1>3, Types, SetEndsTyped
  <2> QED  BY <2>1 DEF BotEnds, Ends
<1>6. SentOK(b, SendBut(b, {}, <<Bye>>))
  BY MsgTypes, SendLineOK
<1> QED  BY <1>2, <1>4, <1>5, <1>6, InboxOK, NoBotsGood, CommitKeeps DEF IInv

-----------------------------------------------------------------------------
(* The theorems *)

LEMMA InitIInv == Init => IInv
<1> SUFFICES ASSUME Init PROVE IInv
  OBVIOUS
<1>1. \A b \in Bots : BotEnds(b, dcc[b]) = {}
  BY DEF Init, BotEnds, Ends
<1>2. \A b \in Bots : Good(b, tandbot[b], dcc[b])
  BY <1>1, NoBotsGood DEF Init
<1>3. EndsTyped(dcc)
  BY Types DEF Init, EndsTyped, Ends
<1>4. Dialling(dcc, dialled)
  BY EndsAssumption, Types DEF Init, Dialling
<1>5. \A p : <<>> \in Seq(MsgFrom(p)) /\ <<>> \in Seq(Messages)
  OBVIOUS
<1>6. wire \in [Conns -> [Bots -> Seq(Messages)]]
  BY <1>5 DEF Init
<1>7. \A c \in Conns, b \in Bots : wire[c][b] \in Seq(MsgFrom(Peer(c, b)))
  BY <1>5 DEF Init
<1> QED  BY <1>2, <1>3, <1>4, <1>6, <1>7 DEF Init, IInv

\* Operators only unlink neighbours.
OnlyLocalUnlinks ==
  [][\A b, x \in Bots : CmdUnlink(b, x) => LocalUnlink(b, x)]_vars

LEMMA NextIInv ==
  ASSUME IInv, [Next]_vars,
         [\A b, x \in Bots : CmdUnlink(b, x) => LocalUnlink(b, x)]_vars
  PROVE  IInv'
<1>1. CASE UNCHANGED vars
  BY <1>1 DEF vars, IInv
<1>2. CASE /\ Next
           /\ \A b, x \in Bots : CmdUnlink(b, x) => LocalUnlink(b, x)
  <2>1. PICK b \in Bots :
          \/ \E c \in Ends(b) : \/ Handle(b, c) \/ Botlink(b, c) \/ Autolink(b, c)
                                \/ FailedLink(b, c) \/ PingTimeout(b, c)
          \/ \E x \in Bots : CmdUnlink(b, x)
          \/ Die(b)
    BY <1>2 DEF Next
  <2>2. ASSUME NEW c \in Ends(b), Handle(b, c)
        PROVE  IInv'
    <3>1. CASE ResolveSuccess(b, c)  BY <3>1, ResolveKeeps
    <3>2. CASE ContLink(b, c)        BY <3>2, ContLinkKeeps
    <3>3. CASE TelnetId(b, c)        BY <3>3, TelnetIdKeeps
    <3>4. CASE TimeoutDupwait(b, c)  BY <3>4, TimeoutDupwaitKeeps
    <3>5. CASE AnswerChallenge(b, c) \/ IgnoreBye(b, c)  BY <3>5, AnswerKeeps
    <3>6. CASE ChatPass(b, c) \/ ReadHello(b, c)         BY <3>6, GreetingsKeep
    <3>7. CASE BotVersion(b, c)      BY <3>7, BotVersionKeeps
    <3>8. CASE LoginLost(b, c)       BY <3>8, LoginLostKeeps
    <3>9. CASE BotNlinked(b, c)      BY <3>9, BotNlinkedKeeps
    <3>10. CASE BotUnlinked(b, c)    BY <3>10, BotUnlinkedKeeps
    <3>11. CASE BotBye(b, c)         BY <3>11, BotByeKeeps
    <3>12. CASE BotReject(b, c)      BY <3>12, BotRejectKeeps
    <3>13. ~BotUnlink(b, c)          BY NoBotUnlink
    <3> QED  BY <2>2, <3>1, <3>2, <3>3, <3>4, <3>5, <3>6, <3>7, <3>8, <3>9,
                <3>10, <3>11, <3>12, <3>13 DEF Handle
  <2>3. ASSUME NEW c \in Ends(b), Botlink(b, c) \/ Autolink(b, c)
        PROVE  IInv'
    BY <2>3, PeerFacts, DialKeeps
  <2>4. ASSUME NEW c \in Ends(b), FailedLink(b, c)
        PROVE  IInv'
    BY <2>4, FailedLinkKeeps
  <2>5. ASSUME NEW c \in Ends(b), PingTimeout(b, c)
        PROVE  IInv'
    BY <2>5, BotByeKeeps
  <2>6. ASSUME NEW x \in Bots, CmdUnlink(b, x)
        PROVE  IInv'
    BY <1>2, <2>6, CmdUnlinkKeeps
  <2>7. CASE Die(b)
    BY <2>7, DieKeeps
  <2> QED  BY <2>1, <2>2, <2>3, <2>4, <2>5, <2>6, <2>7
<1> QED  BY <1>1, <1>2

\* The invariant holds in every run in which operators unlink only neighbours.
THEOREM Invariance == Spec /\ OnlyLocalUnlinks => []IInv
<1>1. Init => IInv
  BY InitIInv
<1>2. /\ IInv /\ [Next]_vars
      /\ [\A b, x \in Bots : CmdUnlink(b, x) => LocalUnlink(b, x)]_vars
      => IInv'
  BY NextIInv
<1> QED  BY <1>1, <1>2, PTL DEF Spec, OnlyLocalUnlinks

\* Every variable keeps its type, and every list is one list.
THEOREM TypeCorrect == Spec /\ OnlyLocalUnlinks => []TypeOK
<1>1. IInv => TypeOK
  BY DEF IInv, TypeOK, EndsTyped, Good
<1> QED  BY <1>1, Invariance, PTL

\* A bot's list of bots and its list of links never disagree: each link's bot is
\* listed as ours, with no second link, and every listed bot has a route.
THEOREM ListsMatchLinks == Spec /\ OnlyLocalUnlinks => []ListMatchesLinks
<1>1. IInv => ListMatchesLinks
  BY DEF IInv, ListMatchesLinks, Good
<1> QED  BY <1>1, Invariance, PTL

\* Parents always come first, so dump_links can be followed by its reader.
THEOREM ParentsAreFirst == Spec /\ OnlyLocalUnlinks => []ParentsFirst
<1>1. IInv => ParentsFirst
  BY DEF IInv, ParentsFirst, Good
<1> QED  BY <1>1, Invariance, PTL

\* Whatever the net, whoever dials whom and whatever fails: each bot's list has its shape,
\* agrees with its links, and can be sent by dump_links, as long as operators unlink
\* neighbours only (addbot, rembot, unvia, nextbot).
THEOREM ListsAreKept == Spec /\ OnlyLocalUnlinks => []ListsKept
<1>1. TypeOK /\ ListMatchesLinks /\ ParentsFirst => ListsKept
  BY DEF ListsKept
<1> QED  BY <1>1, TypeCorrect, ListsMatchLinks, ParentsAreFirst, PTL
-----------------------------------------------------------------------------
(***************************************************************************)
(* What the bots of a net see of it: proofs about the lists of Botnet and  *)
(* the lines that are under way between them.                              *)
(*                                                                         *)
(* A view is what a bot has of the net behind a neighbour p: p's bots with *)
(* their parents.  Via is the view b has now, Shown the view p wants it to *)
(* have: all that p lists but did not hear from b.  The invariant says of  *)
(* every direction of every connection that the lines under way, told one  *)
(* after the other, turn the one into the other, and that each finds in    *)
(* the view it is told to the parent, or the bot that goes (Lines).  An    *)
(* end that is closed or dials has nothing to read (QuietEnds), and where  *)
(* the peer has closed, EOF is the last there is to read (Farewells).  So  *)
(* nobody is ever accused of a false line.                                 *)
(*                                                                         *)
(* At rest, therefore, neighbours agree: what y has heard from z is z, and *)
(* what z lists and did not hear from y.  One may go from bot to bot       *)
(* asking each where it has heard of x, and is never sent back.  That such *)
(* a walk has to end (NoWalk) is the heart of the rest: a wrong entry in   *)
(* one list would give a walk that does not.                               *)
(***************************************************************************)

\* A view of the part of the net behind bot p, as p's neighbour b has it or will have it: its
\* bots, each with its parent.  At first p is alone.
Base(p, b) == [x \in {p} |-> b]

\* What list t has heard from p.
Via(t, p) == [x \in {y \in DOMAIN t : t[y].via = p} |-> t[x].uplink]

\* What p has told b about, or is telling: everything in its list t but what came from b, once
\* its end of the link is of type "bot".
Shown(p, b, t, type) ==
  IF type = "bot"
  THEN [x \in {p} \cup {y \in DOMAIN t : t[y].via # b} |-> IF x = p THEN b ELSE t[x].uplink]
  ELSE Base(p, b)

\* The bots of view v that hang below x, itself included.
Below(v, x) ==
  {y \in DOMAIN v : \A S \in SUBSET DOMAIN v :
     x \in S /\ (\A z \in DOMAIN v : v[z] \in S => z \in S) => y \in S}

With1(v, x, up) == [y \in DOMAIN v \cup {x} |-> IF y = x THEN up ELSE v[y]]
Less1(v, x)     == [y \in DOMAIN v \ Below(v, x) |-> v[y]]

\* Line m turns view v into w, and is justified: the parent, or the bot that goes, is in v.
Told(v, m, w) ==
  /\ m.cmd = "n"  => m.up \in DOMAIN v /\ w = With1(v, m.bot, m.up)
  /\ m.cmd = "un" => m.bot \in DOMAIN v /\ w = Less1(v, m.bot)
  /\ m.cmd \notin {"n", "un"} => w = v

\* The lines of q behind the first i turn v into w.
Turns(q, i, v, w) ==
  \E f : /\ f[i] = v /\ f[Len(q)] = w
         /\ \A k \in (i + 1)..Len(q) : Told(f[k - 1], q[k], f[k])

\* A line that says nothing of the net and does not end the login.
Plain(m) == m.cmd \notin {"n", "un", "v"}

-----------------------------------------------------------------------------
(* Telling one line after the other *)

LEMMA TurnsOn ==
  ASSUME NEW S, NEW q \in Seq(S), NEW s \in Seq(S), NEW i \in 0..Len(q),
         NEW u, NEW v, NEW w, Turns(q, i, u, v), Turns(s, 0, v, w)
  PROVE  Turns(q \o s, i, u, w)
<1>1. PICK f : /\ f[i] = u /\ f[Len(q)] = v
               /\ \A k \in (i + 1)..Len(q) : Told(f[k - 1], q[k], f[k])
  BY DEF Turns
<1>2. PICK g : /\ g[0] = v /\ g[Len(s)] = w
               /\ \A k \in 1..Len(s) : Told(g[k - 1], s[k], g[k])
  BY DEF Turns
<1>3. PICK m : m = Len(q)
  OBVIOUS
<1>4. PICK n : n = Len(s)
  OBVIOUS
<1>5. m \in Nat /\ n \in Nat /\ i \in 0..m
  BY <1>3, <1>4, LenProperties
<1>6. PICK h : h = [k \in 0..(m + n) |-> IF k <= m THEN f[k] ELSE g[k - m]]
  OBVIOUS
<1>7. /\ Len(q \o s) = m + n
      /\ \A k \in 1..(m + n) : (q \o s)[k] = IF k <= m THEN q[k] ELSE s[k - m]
  BY <1>3, <1>4, ConcatProperties
<1>8. h[i] = u
  BY <1>1, <1>5, <1>6
<1>9. h[m + n] = w
  <2>1. CASE n = 0
    BY <1>1, <1>2, <1>3, <1>4, <1>5, <1>6, <2>1
  <2>2. CASE n # 0
    BY <1>2, <1>4, <1>5, <1>6, <2>2
  <2> QED  BY <2>1, <2>2
<1>10. ASSUME NEW k \in (i + 1)..(m + n)
       PROVE  Told(h[k - 1], (q \o s)[k], h[k])
  <2>1. CASE k <= m
    <3>1. Told(f[k - 1], q[k], f[k]) /\ h[k - 1] = f[k - 1] /\ h[k] = f[k] /\ (q \o s)[k] = q[k]
      BY <1>1, <1>3, <1>5, <1>6, <1>7, <2>1
    <3> QED  BY <3>1
  <2>2. CASE k > m
    <3>1. PICK j : j = k - m
      OBVIOUS
    <3>2. j \in 1..n /\ h[k] = g[j] /\ (q \o s)[k] = s[j]
      BY <1>5, <1>6, <1>7, <2>2, <3>1
    <3>3. h[k - 1] = g[j - 1]
      <4>1. CASE k = m + 1
        BY <1>1, <1>2, <1>3, <1>5, <1>6, <3>1, <4>1
      <4>2. CASE k # m + 1
        BY <1>5, <1>6, <2>2, <3>1, <4>2
      <4> QED  BY <4>1, <4>2
    <3>4. Told(g[j - 1], s[j], g[j])
      BY <1>2, <1>4, <3>2
    <3> QED  BY <3>2, <3>3, <3>4
  <2>3. k <= m \/ k > m
    BY <1>5
  <2> QED  BY <2>1, <2>2, <2>3
<1> QED  BY <1>7, <1>8, <1>9, <1>10 DEF Turns

LEMMA TurnsTail ==
  ASSUME NEW S, NEW q \in Seq(S), q # <<>>, NEW i \in 1..Len(q), NEW v, NEW w, Turns(q, i, v, w)
  PROVE  Turns(Tail(q), i - 1, v, w)
<1>1. PICK f : /\ f[i] = v /\ f[Len(q)] = w
               /\ \A k \in (i + 1)..Len(q) : Told(f[k - 1], q[k], f[k])
  BY DEF Turns
<1>2. PICK m : m = Len(q)
  OBVIOUS
<1>3. /\ m \in Nat /\ i \in 1..m
      /\ Len(Tail(q)) = m - 1
      /\ \A k \in 1..(m - 1) : Tail(q)[k] = q[k + 1]
  BY <1>2, LenProperties, HeadTailProperties
<1>4. PICK h : h = [k \in 0..(m - 1) |-> f[k + 1]]
  OBVIOUS
<1>5. h[i - 1] = v /\ h[m - 1] = w
  BY <1>1, <1>2, <1>3, <1>4
<1>6. ASSUME NEW k \in ((i - 1) + 1)..(m - 1)
      PROVE  Told(h[k - 1], Tail(q)[k], h[k])
  <2>1. PICK j : j = k + 1
    OBVIOUS
  <2>2. j \in (i + 1)..m /\ h[k] = f[j] /\ h[k - 1] = f[j - 1] /\ Tail(q)[k] = q[j]
    BY <1>3, <1>4, <2>1
  <2> QED  BY <1>1, <1>2, <2>2
<1> QED  BY <1>3, <1>5, <1>6 DEF Turns

LEMMA TurnsHead ==
  ASSUME NEW S, NEW q \in Seq(S), q # <<>>, NEW v, NEW w, Turns(q, 0, v, w)
  PROVE  \E u : Told(v, Head(q), u) /\ Turns(Tail(q), 0, u, w)
<1>1. PICK f : /\ f[0] = v /\ f[Len(q)] = w
               /\ \A k \in 1..Len(q) : Told(f[k - 1], q[k], f[k])
  BY DEF Turns
<1>2. 1 \in 1..Len(q) /\ Len(q) \in Nat /\ Head(q) = q[1]
  BY LenProperties, EmptySeq, HeadTailProperties
<1>3. Turns(q, 1, f[1], w)
  <2>1. \A k \in (1 + 1)..Len(q) : Told(f[k - 1], q[k], f[k])
    BY <1>1, <1>2
  <2> QED  BY <1>1, <2>1 DEF Turns
<1>4. Turns(Tail(q), 1 - 1, f[1], w)
  BY <1>2, <1>3, TurnsTail
<1>5. Told(v, Head(q), f[1])
  BY <1>1, <1>2
<1> QED  BY <1>4, <1>5

LEMMA TurnsPlain ==
  ASSUME NEW S, NEW q \in Seq(S), NEW i \in 0..Len(q),
         \A k \in 1..Len(q) : q[k].cmd \notin {"n", "un"}, NEW v
  PROVE  Turns(q, i, v, v)
<1>1. PICK f : f = [k \in 0..Len(q) |-> v]
  OBVIOUS
<1>2. Len(q) \in Nat
  BY LenProperties
<1>3. f[i] = v /\ f[Len(q)] = v
  BY <1>1, <1>2
<1>4. ASSUME NEW k \in (i + 1)..Len(q) PROVE Told(f[k - 1], q[k], f[k])
  <2>1. k \in 1..Len(q) /\ f[k - 1] = v /\ f[k] = v
    BY <1>1, <1>2
  <2> QED  BY <2>1 DEF Told
<1> QED  BY <1>3, <1>4 DEF Turns

LEMMA TurnsOne ==
  ASSUME NEW v, NEW m, NEW w, Told(v, m, w)
  PROVE  Turns(<<m>>, 0, v, w)
<1>1. PICK f : f = [k \in 0..1 |-> IF k = 0 THEN v ELSE w]
  OBVIOUS
<1>2. f[0] = v /\ f[1] = w /\ Len(<<m>>) = 1 /\ <<m>>[1] = m
  BY <1>1
<1>3. ASSUME NEW k \in (0 + 1)..Len(<<m>>) PROVE Told(f[k - 1], <<m>>[k], f[k])
  <2>1. k = 1
    BY <1>2
  <2> QED  BY <1>2, <2>1
<1> QED  BY <1>2, <1>3 DEF Turns

-----------------------------------------------------------------------------
(* Views of a list that changes                                            *)

\* View v has all that list t has heard over the link of y; of what is not in t, nothing hangs in R.
Covers(t, y, R, v) ==
  /\ \A z \in DOMAIN t : t[z].via = t[y].via => z \in DOMAIN v
  /\ \A z \in DOMAIN v : \/ z \in DOMAIN t /\ v[z] = t[z].uplink
                         \/ z \notin DOMAIN t /\ v[z] \notin R

\* What hangs below a listed bot was heard over the same link, and a view that has all that was
\* heard over this link has it too.
LEMMA BelowIsSubtree ==
  ASSUME NEW b \in Bots, NEW t, ListType(b, t), ParentsOK(b, t), NEW y \in DOMAIN t,
         NEW R, R = Subtree(t, {y}), NEW v, Covers(t, y, R, v)
  PROVE  /\ \A z \in R : z \in DOMAIN t /\ t[z].via = t[y].via
         /\ Below(v, y) = R
<1>1. PICK S : S = {z \in DOMAIN t : t[z].via = t[y].via}
  OBVIOUS
<1>2. y \in R /\ R \subseteq DOMAIN t /\ Downward(t, R)
  BY SubtreeFacts
<1>3. Downward(t, S)
  BY <1>1 DEF Downward, ParentsOK, ListType
<1>4. R \subseteq S
  BY <1>1, <1>3, SubtreeLeast
<1>5. Below(v, y) \subseteq R
  <2>1. R \in SUBSET DOMAIN v
    BY <1>1, <1>4 DEF Covers
  <2>2. ASSUME NEW z \in DOMAIN v, v[z] \in R PROVE z \in R
    BY <1>2, <2>2 DEF Downward, Covers
  <2> QED  BY <1>2, <2>1, <2>2 DEF Below
<1>6. Downward(t, Below(v, y))
  <2> SUFFICES ASSUME NEW z \in DOMAIN t, t[z].uplink \in Below(v, y)
               PROVE  z \in Below(v, y)
    BY DEF Downward
  <2>1. z \in R
    BY <1>2, <1>5 DEF Downward
  <2>2. z \in DOMAIN v /\ v[z] = t[z].uplink
    BY <1>1, <1>4, <2>1 DEF Covers
  <2> QED  BY <2>2 DEF Below
<1>7. R \subseteq Below(v, y)
  <2>1. y \in Below(v, y)
    BY <1>1, <1>2, <1>4 DEF Below, Covers
  <2>2. Below(v, y) \subseteq DOMAIN t \cup {y}
    BY <1>2, <1>5
  <2> QED  BY <1>6, <2>1, <2>2, SubtreeLeast
<1> QED  BY <1>1, <1>4, <1>5, <1>7

LEMMA ViaWithout ==
  ASSUME NEW b \in Bots, NEW t, ListType(b, t), OrderOK(t), ParentsOK(b, t), NEW y \in DOMAIN t, NEW p
  PROVE  Via(Without(t, Subtree(t, {y})), p)
           = IF p = t[y].via THEN Less1(Via(t, p), y) ELSE Via(t, p)
<1>1. PICK R : R = Subtree(t, {y})
  OBVIOUS
<1>2. PICK u : u = Without(t, R)
  OBVIOUS
<1>3. Kept(t, R, u)
  BY <1>1, <1>2, SubtreeFacts, WithoutKeeps
<1>4. PICK v : v = Via(t, t[y].via)
  OBVIOUS
<1>5. /\ DOMAIN v = {z \in DOMAIN t : t[z].via = t[y].via}
      /\ \A z \in DOMAIN v : v[z] = t[z].uplink
  BY <1>4 DEF Via
<1>6. /\ \A z \in R : z \in DOMAIN t /\ t[z].via = t[y].via
      /\ Below(v, y) = R
  BY <1>1, <1>5, BelowIsSubtree DEF Covers
<1>7. CASE p = t[y].via
  <2>1. {z \in DOMAIN u : u[z].via = p} = DOMAIN v \ R
    BY <1>3, <1>5, <1>7 DEF Kept
  <2>2. \A z \in DOMAIN v \ R : u[z].uplink = v[z]
    BY <1>3, <1>5 DEF Kept
  <2>3. Via(u, p) = [z \in DOMAIN v \ R |-> v[z]]
    BY <2>1, <2>2 DEF Via
  <2>4. Less1(v, y) = [z \in DOMAIN v \ R |-> v[z]]
    BY <1>6 DEF Less1
  <2> QED  BY <1>1, <1>2, <1>4, <1>7, <2>3, <2>4
<1>8. CASE p # t[y].via
  <2>1. {z \in DOMAIN u : u[z].via = p} = {z \in DOMAIN t : t[z].via = p}
    BY <1>3, <1>6, <1>8 DEF Kept
  <2>2. \A z \in DOMAIN u : u[z].uplink = t[z].uplink
    BY <1>3 DEF Kept
  <2> QED  BY <1>1, <1>2, <1>8, <2>1, <2>2 DEF Via
<1> QED  BY <1>7, <1>8

\* A neighbour over another link is told that y is gone, and that is all that changes for it; for
\* the one over which y was heard nothing changes.
LEMMA ShownWithout ==
  ASSUME NEW b \in Bots, NEW t, ListType(b, t), OrderOK(t), ParentsOK(b, t), NEW y \in DOMAIN t,
         NEW x \in DOMAIN t, t[x].via = x
  PROVE  LET v == Shown(b, x, t, "bot")
             w == Shown(b, x, Without(t, Subtree(t, {y})), "bot")
         IN  IF x = t[y].via THEN v = w ELSE Told(v, Un(y), w)
<1>1. PICK R : R = Subtree(t, {y})
  OBVIOUS
<1>2. PICK u : u = Without(t, R)
  OBVIOUS
<1>3. Kept(t, R, u) /\ b \notin DOMAIN t /\ y \in R
  BY <1>1, <1>2, SubtreeFacts, WithoutKeeps DEF ListType
<1>4. PICK v : v = Shown(b, x, t, "bot")
  OBVIOUS
<1>5. PICK w : w = Shown(b, x, u, "bot")
  OBVIOUS
<1>6. /\ v = [z \in {b} \cup {a \in DOMAIN t : t[a].via # x} |-> IF z = b THEN x ELSE t[z].uplink]
      /\ w = [z \in {b} \cup {a \in DOMAIN u : u[a].via # x} |-> IF z = b THEN x ELSE u[z].uplink]
  BY <1>4, <1>5 DEF Shown
<1>7. CASE x = t[y].via
  <2>1. \A z \in R : z \in DOMAIN t /\ t[z].via = x
    <3>1. PICK s : s = Via(t, x)
      OBVIOUS
    <3>2. Covers(t, y, R, s)
      BY <1>7, <3>1 DEF Via, Covers
    <3> QED  BY <1>1, <1>7, <3>2, BelowIsSubtree
  <2>2. {a \in DOMAIN u : u[a].via # x} = {a \in DOMAIN t : t[a].via # x}
    BY <1>3, <2>1 DEF Kept
  <2>3. \A z \in DOMAIN u : u[z].uplink = t[z].uplink
    BY <1>3 DEF Kept
  <2>4. v = w
    BY <1>6, <2>2, <2>3
  <2> QED  BY <1>1, <1>2, <1>4, <1>5, <1>7, <2>4
<1>8. CASE x # t[y].via
  <2>1. /\ DOMAIN v = {b} \cup {a \in DOMAIN t : t[a].via # x}
        /\ v[b] = x /\ \A z \in DOMAIN v \ {b} : v[z] = t[z].uplink
    BY <1>3, <1>6
  <2>2. x \notin R
    <3>1. PICK s : s = Via(t, t[y].via)
      OBVIOUS
    <3>2. Covers(t, y, R, s)
      BY <3>1 DEF Via, Covers
    <3>3. \A z \in R : z \in DOMAIN t /\ t[z].via = t[y].via
      BY <1>1, <3>2, BelowIsSubtree
    <3> QED  BY <1>8, <3>3
  <2>3. /\ \A z \in R : z \in DOMAIN t /\ t[z].via = t[y].via
        /\ Below(v, y) = R
    <3>1. Covers(t, y, R, v)
      BY <1>3, <1>8, <2>1, <2>2 DEF Covers
    <3> QED  BY <1>1, <3>1, BelowIsSubtree
  <2>4. y \in DOMAIN v
    BY <1>8, <2>1
  <2>5. w = Less1(v, y)
    <3>1. DOMAIN w = DOMAIN v \ R
      BY <1>3, <1>6, <2>1, <2>3 DEF Kept
    <3>2. \A z \in DOMAIN w : w[z] = v[z]
      BY <1>3, <1>6, <2>1 DEF Kept
    <3>3. w = [z \in DOMAIN w |-> w[z]]
      BY <1>6
    <3> QED  BY <2>3, <3>1, <3>2, <3>3 DEF Less1
  <2>6. Told(v, Un(y), w)
    BY <2>4, <2>5 DEF Told, Un
  <2> QED  BY <1>1, <1>2, <1>4, <1>5, <1>8, <2>6
<1> QED  BY <1>7, <1>8

LEMMA ViaWithBot ==
  ASSUME NEW t, NEW z, z \notin DOMAIN t, NEW via, NEW up, NEW p
  PROVE  Via(WithBot(t, z, via, up), p)
           = IF p = via THEN With1(Via(t, p), z, up) ELSE Via(t, p)
<1>1. PICK u : u = WithBot(t, z, via, up)
  OBVIOUS
<1>2. /\ DOMAIN u = DOMAIN t \cup {z}
      /\ u[z].via = via /\ u[z].uplink = up
      /\ \A y \in DOMAIN t : u[y] = t[y]
  BY <1>1 DEF WithBot
<1>3. CASE p = via
  <2>1. {y \in DOMAIN u : u[y].via = p} = {y \in DOMAIN t : t[y].via = p} \cup {z}
    BY <1>2, <1>3
  <2> QED  BY <1>1, <1>2, <1>3, <2>1 DEF Via, With1
<1>4. CASE p # via
  <2>1. {y \in DOMAIN u : u[y].via = p} = {y \in DOMAIN t : t[y].via = p}
    BY <1>2, <1>4
  <2> QED  BY <1>1, <1>2, <1>4, <2>1 DEF Via
<1> QED  BY <1>3, <1>4

LEMMA ShownWithBot ==
  ASSUME NEW b, NEW t, b \notin DOMAIN t, NEW z, z \notin DOMAIN t, z # b,
         NEW via, NEW up, NEW x,
         x # via => (up = b \/ (up \in DOMAIN t /\ t[up].via # x))
  PROVE  LET v == Shown(b, x, t, "bot")
             w == Shown(b, x, WithBot(t, z, via, up), "bot")
         IN  IF x = via THEN v = w ELSE Told(v, N(z, up), w)
<1>1. PICK u : u = WithBot(t, z, via, up)
  OBVIOUS
<1>2. /\ DOMAIN u = DOMAIN t \cup {z}
      /\ u[z].via = via /\ u[z].uplink = up
      /\ \A y \in DOMAIN t : u[y] = t[y]
  BY <1>1 DEF WithBot
<1>3. PICK v : v = Shown(b, x, t, "bot")
  OBVIOUS
<1>4. PICK w : w = Shown(b, x, u, "bot")
  OBVIOUS
<1>5. /\ v = [y \in {b} \cup {a \in DOMAIN t : t[a].via # x} |-> IF y = b THEN x ELSE t[y].uplink]
      /\ w = [y \in {b} \cup {a \in DOMAIN u : u[a].via # x} |-> IF y = b THEN x ELSE u[y].uplink]
  BY <1>3, <1>4 DEF Shown
<1>6. CASE x = via
  <2>1. {a \in DOMAIN u : u[a].via # x} = {a \in DOMAIN t : t[a].via # x}
    BY <1>2, <1>6
  <2>2. v = w
    BY <1>2, <1>5, <2>1
  <2> QED  BY <1>1, <1>3, <1>4, <1>6, <2>2
<1>7. CASE x # via
  <2>1. {a \in DOMAIN u : u[a].via # x} = {a \in DOMAIN t : t[a].via # x} \cup {z}
    BY <1>2, <1>7
  <2>2. w = With1(v, z, up)
    BY <1>2, <1>5, <2>1 DEF With1
  <2>3. up \in DOMAIN v
    BY <1>5, <1>7
  <2>4. Told(v, N(z, up), w)
    BY <2>2, <2>3 DEF Told, N
  <2> QED  BY <1>1, <1>3, <1>4, <1>7, <2>4
<1> QED  BY <1>6, <1>7

\* dump_links tells a new neighbour everything, from nothing.
LEMMA DumpShows ==
  ASSUME NEW b \in Bots, NEW t, ListType(b, t), OrderOK(t), ParentsOK(b, t),
         NEW x, x \notin DOMAIN t, \A y \in DOMAIN t : t[y].via # x
  PROVE  Turns(DumpLinks(t), 0, Base(b, x), Shown(b, x, WithBot(t, x, x, b), "bot"))
<1>1. PICK n : n = Cardinality(DOMAIN t)
  OBVIOUS
<1>2. PICK place : place = [y \in DOMAIN t |-> Cardinality(t[y].before)]
  OBVIOUS
<1>3. /\ n \in Nat
      /\ \A y \in DOMAIN t : place[y] \in 0..(n - 1)
      /\ \A y, z \in DOMAIN t : y \in t[z].before => place[y] < place[z]
      /\ \A k \in 1..n : \E y \in DOMAIN t : Cardinality(t[y].before) = k - 1
  BY <1>1, <1>2, PlacesFilled
<1>4. \A y, z \in DOMAIN t : place[y] = place[z] => y = z
  <2> SUFFICES ASSUME NEW y \in DOMAIN t, NEW z \in DOMAIN t, place[y] = place[z], y # z PROVE FALSE
    OBVIOUS
  <2>1. y \in t[z].before \/ z \in t[y].before
    BY DEF OrderOK
  <2>2. place[y] < place[z] \/ place[z] < place[y]
    BY <1>3, <2>1
  <2>3. place[y] \in Int /\ place[z] \in Int
    BY <1>3
  <2> QED  BY <2>2, <2>3
<1>5. PICK who : who = [k \in 1..n |-> CHOOSE y \in DOMAIN t : Cardinality(t[y].before) = k - 1]
  OBVIOUS
<1>6. \A k \in 1..n : who[k] \in DOMAIN t /\ place[who[k]] = k - 1
  BY <1>2, <1>3, <1>5
<1>7. /\ Len(DumpLinks(t)) = n
      /\ \A k \in 1..n : DumpLinks(t)[k] = N(who[k], t[who[k]].uplink)
  <2>1. DumpLinks(t) = [k \in 1..n |-> N(who[k], t[who[k]].uplink)]
    BY <1>1, <1>5 DEF DumpLinks
  <2> QED  BY <1>3, <2>1
<1>8. PICK f : f = [k \in 0..n |-> [y \in {b} \cup {z \in DOMAIN t : place[z] < k} |->
                                      IF y = b THEN x ELSE t[y].uplink]]
  OBVIOUS
<1>9. b \notin DOMAIN t
  BY DEF ListType
<1>10. f[0] = Base(b, x)
  <2>1. {z \in DOMAIN t : place[z] < 0} = {}
    BY <1>3
  <2> QED  BY <1>3, <1>8, <2>1 DEF Base
<1>11. f[n] = Shown(b, x, WithBot(t, x, x, b), "bot")
  <2>1. PICK u : u = WithBot(t, x, x, b)
    OBVIOUS
  <2>2. /\ {y \in DOMAIN u : u[y].via # x} = DOMAIN t
        /\ \A y \in DOMAIN t : u[y].uplink = t[y].uplink
    BY <2>1 DEF WithBot
  <2>3. {z \in DOMAIN t : place[z] < n} = DOMAIN t
    <3>1. n \in Nat /\ \A y \in DOMAIN t : place[y] \in 0..(n - 1)
      BY <1>3
    <3>2. \A y \in DOMAIN t : place[y] < n
      BY <3>1
    <3> QED  BY <3>2
  <2>4. f[n] = [y \in {b} \cup DOMAIN t |-> IF y = b THEN x ELSE t[y].uplink]
    BY <1>3, <1>8, <2>3
  <2>5. Shown(b, x, u, "bot") = [y \in {b} \cup DOMAIN t |-> IF y = b THEN x ELSE t[y].uplink]
    BY <2>2 DEF Shown
  <2> QED  BY <2>1, <2>4, <2>5
<1>12. ASSUME NEW k \in 1..n
       PROVE  Told(f[k - 1], DumpLinks(t)[k], f[k])
  <2>1. PICK w : w = who[k]
    OBVIOUS
  <2>2. w \in DOMAIN t /\ place[w] = k - 1
    BY <1>6, <2>1
  <2>3. PICK v : v = f[k - 1]
    OBVIOUS
  <2>4. v = [y \in {b} \cup {z \in DOMAIN t : place[z] < k - 1} |-> IF y = b THEN x ELSE t[y].uplink]
    BY <1>3, <1>8, <2>3
  <2>5. f[k] = [y \in {b} \cup {z \in DOMAIN t : place[z] < k} |-> IF y = b THEN x ELSE t[y].uplink]
    BY <1>3, <1>8
  <2>6. {z \in DOMAIN t : place[z] < k} = {z \in DOMAIN t : place[z] < k - 1} \cup {w}
    <3>1. \A z \in DOMAIN t : place[z] < k <=> place[z] < k - 1 \/ place[z] = k - 1
      BY <1>3
    <3>2. \A z \in DOMAIN t : place[z] = k - 1 <=> z = w
      BY <1>4, <2>2
    <3> QED  BY <2>2, <3>1, <3>2
  <2>7. t[w].uplink \in DOMAIN v
    <3>1. CASE t[w].uplink = b
      BY <2>4, <3>1
    <3>2. CASE t[w].uplink # b
      <4>1. t[w].uplink \in DOMAIN t /\ t[w].uplink \in t[w].before
        BY <2>2, <3>2 DEF ParentsOK
      <4>2. place[t[w].uplink] < k - 1
        BY <1>3, <2>2, <4>1
      <4> QED  BY <2>4, <4>1, <4>2
    <3> QED  BY <3>1, <3>2
  <2>8. f[k] = With1(v, w, t[w].uplink)
    BY <1>9, <2>2, <2>4, <2>5, <2>6 DEF With1
  <2> QED  BY <1>7, <2>1, <2>3, <2>7, <2>8 DEF Told, N
<1>13. \A k \in (0 + 1)..n : Told(f[k - 1], DumpLinks(t)[k], f[k])
  BY <1>12
<1> QED  BY <1>7, <1>10, <1>11, <1>13 DEF Turns

LEMMA TurnsBehind ==
  ASSUME NEW S, NEW q \in Seq(S), NEW s \in Seq(S), NEW i \in 0..Len(s), NEW v, NEW w, Turns(s, i, v, w)
  PROVE  Turns(q \o s, Len(q) + i, v, w)
<1>1. PICK f : /\ f[i] = v /\ f[Len(s)] = w
               /\ \A k \in (i + 1)..Len(s) : Told(f[k - 1], s[k], f[k])
  BY DEF Turns
<1>2. PICK m : m = Len(q)
  OBVIOUS
<1>3. PICK n : n = Len(s)
  OBVIOUS
<1>4. m \in Nat /\ n \in Nat /\ i \in 0..n
  BY <1>2, <1>3, LenProperties
<1>5. PICK h : h = [k \in m..(m + n) |-> f[k - m]]
  OBVIOUS
<1>6. /\ Len(q \o s) = m + n
      /\ \A k \in 1..(m + n) : (q \o s)[k] = IF k <= m THEN q[k] ELSE s[k - m]
  BY <1>2, <1>3, ConcatProperties
<1>7. h[m + i] = v /\ h[m + n] = w
  BY <1>1, <1>3, <1>4, <1>5
<1>8. ASSUME NEW k \in ((m + i) + 1)..(m + n)
      PROVE  Told(h[k - 1], (q \o s)[k], h[k])
  <2>1. PICK j : j = k - m
    OBVIOUS
  <2>2. j \in (i + 1)..n /\ h[k] = f[j] /\ h[k - 1] = f[j - 1] /\ (q \o s)[k] = s[j]
    BY <1>4, <1>5, <1>6, <2>1
  <2> QED  BY <1>1, <1>3, <2>2
<1> QED  BY <1>2, <1>6, <1>7, <1>8 DEF Turns

-----------------------------------------------------------------------------
(* One direction of a connection                                           *)

\* The lines of q behind the first i turn v into something, into w if "known".
Leads(q, i, v, known, w) == \E u : Turns(q, i, v, u) /\ (known => u = w)

\* The lines q that bot b, whose list is t, has still to read from its neighbour p on an end of
\* that type.  The sender's view is w, as long as it has its end of the connection.  During the
\* login it is what comes behind the version that matters.
LineOK(q, type, t, p, b, known, w) ==
  /\ type = "bot" => Leads(q, 0, Via(t, p), known, w)
  /\ type # "bot" => \A k \in 1..Len(q) : q[k] = Version => Leads(q, k, Base(p, b), known, w)

LEMMA LineAppended ==
  ASSUME NEW S, NEW q \in Seq(S), NEW s \in Seq(S), NEW type, NEW t, NEW p, NEW b, NEW v,
         LineOK(q, type, t, p, b, TRUE, v), NEW w, Turns(s, 0, v, w),
         NEW known \in BOOLEAN, NEW u, known => w = u,
         \A k \in 1..Len(s) : s[k] = Version => Leads(s, k, Base(p, b), known, u)
  PROVE  LineOK(q \o s, type, t, p, b, known, u)
<1>1. PICK m : m = Len(q)
  OBVIOUS
<1>2. PICK n : n = Len(s)
  OBVIOUS
<1>3. m \in Nat /\ n \in Nat
  BY <1>1, <1>2, LenProperties
<1>4. /\ Len(q \o s) = m + n
      /\ \A k \in 1..(m + n) : (q \o s)[k] = IF k <= m THEN q[k] ELSE s[k - m]
  BY <1>1, <1>2, ConcatProperties
<1>5. CASE type = "bot"
  <2>1. Turns(q, 0, Via(t, p), v)
    BY <1>5 DEF LineOK, Leads
  <2>2. 0 \in 0..Len(q)
    BY <1>1, <1>3
  <2>3. Turns(q \o s, 0, Via(t, p), w)
    BY <2>1, <2>2, TurnsOn
  <2> QED  BY <1>5, <2>3 DEF LineOK, Leads
<1>6. CASE type # "bot"
  <2>1. ASSUME NEW k \in 1..(m + n), (q \o s)[k] = Version
        PROVE  Leads(q \o s, k, Base(p, b), known, u)
    <3>1. CASE k <= m
      <4>1. k \in 1..Len(q) /\ k \in 0..Len(q) /\ q[k] = Version
        BY <1>1, <1>3, <1>4, <2>1, <3>1
      <4>2. Turns(q, k, Base(p, b), v)
        BY <1>6, <4>1 DEF LineOK, Leads
      <4>3. Turns(q \o s, k, Base(p, b), w)
        BY <4>1, <4>2, TurnsOn
      <4> QED  BY <4>3 DEF Leads
    <3>2. CASE k > m
      <4>1. PICK j : j = k - m
        OBVIOUS
      <4>2. j \in 1..n /\ j \in 0..Len(s) /\ s[j] = Version /\ k = Len(q) + j
        BY <1>1, <1>2, <1>3, <1>4, <2>1, <3>2, <4>1
      <4>3. PICK x : Turns(s, j, Base(p, b), x) /\ (known => x = u)
        BY <1>2, <4>2 DEF Leads
      <4>4. Turns(q \o s, k, Base(p, b), x)
        BY <4>2, <4>3, TurnsBehind
      <4> QED  BY <4>3, <4>4 DEF Leads
    <3>3. k <= m \/ k > m
      BY <1>3
    <3> QED  BY <3>1, <3>2, <3>3
  <2> QED  BY <1>4, <1>6, <2>1 DEF LineOK
<1> QED  BY <1>5, <1>6

\* The reader has read the first line, and it has changed nothing.
LEMMA LineRead ==
  ASSUME NEW S, NEW q \in Seq(S), q # <<>>, NEW type, NEW t, NEW p, NEW b, NEW known \in BOOLEAN, NEW w,
         LineOK(q, type, t, p, b, known, w), type = "bot" => Head(q).cmd \notin {"n", "un"}
  PROVE  LineOK(Tail(q), type, t, p, b, known, w)
<1>1. CASE type = "bot"
  <2>1. PICK u : Turns(q, 0, Via(t, p), u) /\ (known => u = w)
    BY <1>1 DEF LineOK, Leads
  <2>2. PICK v : Told(Via(t, p), Head(q), v) /\ Turns(Tail(q), 0, v, u)
    BY <2>1, TurnsHead
  <2>3. v = Via(t, p)
    BY <1>1, <2>2 DEF Told
  <2> QED  BY <1>1, <2>1, <2>2, <2>3 DEF LineOK, Leads
<1>2. CASE type # "bot"
  <2>1. /\ Len(q) \in Nat /\ Len(Tail(q)) = Len(q) - 1
        /\ \A k \in 1..Len(Tail(q)) : Tail(q)[k] = q[k + 1]
    BY LenProperties, HeadTailProperties
  <2>2. ASSUME NEW k \in 1..Len(Tail(q)), Tail(q)[k] = Version
        PROVE  Leads(Tail(q), k, Base(p, b), known, w)
    <3>1. PICK j : j = k + 1
      OBVIOUS
    <3>2. j \in 1..Len(q) /\ q[j] = Version /\ k = j - 1
      BY <2>1, <2>2, <3>1
    <3>3. PICK u : Turns(q, j, Base(p, b), u) /\ (known => u = w)
      BY <1>2, <3>2 DEF LineOK, Leads
    <3>4. Turns(Tail(q), k, Base(p, b), u)
      BY <3>2, <3>3, TurnsTail
    <3> QED  BY <3>3, <3>4 DEF Leads
  <2> QED  BY <1>2, <2>2 DEF LineOK
<1> QED  BY <1>1, <1>2

\* What matters of the reader is the kind of its end and what it has heard from p.
LEMMA LineSame ==
  ASSUME NEW q, NEW type, NEW t, NEW p, NEW b, NEW known, NEW w, LineOK(q, type, t, p, b, known, w),
         NEW other, (other = "bot") = (type = "bot"), NEW u, type = "bot" => Via(u, p) = Via(t, p)
  PROVE  LineOK(q, other, u, p, b, known, w)
BY DEF LineOK

\* Nothing under way, and no link yet.
LEMMA LineEmpty ==
  ASSUME NEW type, type # "bot", NEW t, NEW p, NEW b, NEW known, NEW w
  PROVE  LineOK(<<>>, type, t, p, b, known, w)
<1>1. 1..Len(<<>>) = {}
  OBVIOUS
<1> QED  BY <1>1 DEF LineOK

-----------------------------------------------------------------------------
(* The lines of all bots                                                   *)

Lines ==
  \A b \in Bots : \A c \in Ends(b) :
    LineOK(wire[c][b], dcc[b][c], tandbot[b], Peer(c, b), b, dcc[Peer(c, b)][c] # "none",
           Shown(Peer(c, b), b, tandbot[Peer(c, b)], dcc[Peer(c, b)][c]))

\* An end that is closed or still dials has nothing to read.
QuietEnds ==
  \A b \in Bots : \A c \in Ends(b) : dcc[b][c] \in {"none"} \cup CallerTypes => wire[c][b] = <<>>

Live(type) == type \notin {"none"} \cup CallerTypes
Ended(q)   == q # <<>> /\ q[Len(q)] = EOF

\* Where the peer has closed its end, EOF is the last there is to read.
Farewells ==
  \A b \in Bots : \A c \in Ends(b) :
    Live(dcc[b][c]) /\ dcc[Peer(c, b)][c] = "none" => Ended(wire[c][b])

\* The inductive invariant.
AllLines == Lines /\ QuietEnds /\ Farewells
LInv     == IInv /\ AllLines

\* What a handler of b sends shows each neighbour what becomes of b's list; a version is the last
\* line it sends, before the link is up.
TellsOK(b, list, ends, sent) ==
  \A c \in Ends(b) : dcc[Peer(c, b)][c] # "none" =>
    IF dcc[b][c] = "none" THEN sent[c] = <<>> /\ ends[b][c] = "none"
    ELSE /\ \E w : /\ Turns(sent[c], 0, Shown(b, Peer(c, b), tandbot[b], dcc[b][c]), w)
                   /\ ends[b][c] # "none" => w = Shown(b, Peer(c, b), list, ends[b][c])
         /\ \A k \in 1..Len(sent[c]) : sent[c][k] = Version => k = Len(sent[c]) /\ ends[b][c] # "bot"

\* It reads nothing of c, or the first line, if that is not the end.
ReadsLine(b, c, q) ==
  \/ q = wire[c][b]
  \/ wire[c][b] # <<>> /\ Head(wire[c][b]) # EOF /\ q = Tail(wire[c][b])

\* What it leaves unread is what its neighbours have still to tell it.
ReadsOK(b, list, ends, unread) ==
  \A c \in Ends(b) : ends[b][c] # "none" =>
    /\ ends[b][c] \in CallerTypes => unread[c] = <<>>
    /\ ReadsLine(b, c, unread[c])
    /\ \A known \in BOOLEAN : \A w :
         LineOK(wire[c][b], dcc[b][c], tandbot[b], Peer(c, b), b, known, w)
           => LineOK(unread[c], ends[b][c], list, Peer(c, b), b, known, w)

\* It touches no end of another bot, but for the one that accepts its call.
Accepts(b, x, c, ends, sent) ==
  /\ c \in Ends(b) /\ x = Peer(c, b) /\ dcc[b][c] = "fork" /\ ends[b][c] = "new"
  /\ dcc[x][c] = "none" /\ ends[x][c] = "telnet" /\ sent[c] = <<Id>>

OthersOK(b, ends, sent) ==
  /\ \A x \in Bots \ {b} : \A c \in Conns : ends[x][c] = dcc[x][c] \/ Accepts(b, x, c, ends, sent)
  /\ \A c \in Ends(b) : Live(ends[b][c]) /\ ~Live(dcc[b][c]) => ends[Peer(c, b)][c] # "none"

LEMMA CommitTells ==
  ASSUME LInv, NEW a \in Bots, NEW list, NEW ends, NEW unread, NEW sent,
         Commit(a, list, ends, unread, sent), SentOK(a, sent),
         TellsOK(a, list, ends, sent), ReadsOK(a, list, ends, unread), OthersOK(a, ends, sent)
  PROVE  Lines' /\ QuietEnds'
<1>1. /\ dcc' = ends
      /\ \A x \in Bots : tandbot'[x] = IF x = a THEN list ELSE tandbot[x]
  BY DEF Commit, LInv, IInv
<1>2. ASSUME NEW b \in Bots, NEW c \in Ends(b)
      PROVE  /\ LineOK(wire'[c][b], ends[b][c], tandbot'[b], Peer(c, b), b, ends[Peer(c, b)][c] # "none",
                       Shown(Peer(c, b), b, tandbot'[Peer(c, b)], ends[Peer(c, b)][c]))
             /\ ends[b][c] \in {"none"} \cup CallerTypes => wire'[c][b] = <<>>
  <2>1. PICK p : p = Peer(c, b)
    OBVIOUS
  <2>2. c \in Conns /\ p \in Bots \ {b} /\ c \in Ends(p) /\ Peer(c, p) = b
    BY <2>1, PeerFacts
  <2>3. PICK v : v = Shown(p, b, tandbot[p], dcc[p][c])
    OBVIOUS
  <2>4. PICK w : w = Shown(p, b, tandbot'[p], ends[p][c])
    OBVIOUS
  <2>5. PICK known \in BOOLEAN : known = (ends[p][c] # "none")
    OBVIOUS
  <2>6. /\ LineOK(wire[c][b], dcc[b][c], tandbot[b], p, b, dcc[p][c] # "none", v)
        /\ dcc[b][c] \in {"none"} \cup CallerTypes => wire[c][b] = <<>>
    BY <2>1, <2>3 DEF LInv, AllLines, Lines, QuietEnds
  <2>7. "telnet" \notin CallerTypes /\ "new" \notin CallerTypes /\ "none" \notin CallerTypes
        /\ "fork" \in CallerTypes /\ "bot" \notin CallerTypes
    BY DEF CallerTypes
  <2> SUFFICES /\ LineOK(wire'[c][b], ends[b][c], tandbot'[b], p, b, known, w)
               /\ ends[b][c] \in {"none"} \cup CallerTypes => wire'[c][b] = <<>>
    BY <2>1, <2>4, <2>5
  <2>8. CASE b = a
    <3>1. wire'[c][b] = IF ends[b][c] = "none" THEN <<>> ELSE unread[c]
      <4>1. wire'[c][a] = IF ends[a][c] = "none" THEN <<>> ELSE unread[c]
        BY <2>2, PeerFacts DEF Commit
      <4> QED  BY <2>8, <4>1
    <3>2. CASE ends[b][c] = "none"
      BY <3>1, <3>2, LineEmpty
    <3>3. CASE ends[b][c] # "none"
      <4>1. LineOK(wire[c][b], dcc[b][c], tandbot[b], p, b, known, w)
        <5>1. CASE ends[p][c] = dcc[p][c]
          BY <1>1, <2>2, <2>3, <2>4, <2>5, <2>6, <2>8, <5>1
        <5>2. CASE ends[p][c] # dcc[p][c]
          <6>1. dcc[b][c] = "fork"
            BY <2>1, <2>2, <2>8, <5>2 DEF OthersOK, Accepts
          <6>2. wire[c][b] = <<>>
            BY <2>6, <2>7, <6>1
          <6> QED  BY <6>1, <6>2, LineEmpty
        <5> QED  BY <5>1, <5>2
      <4>2. LineOK(unread[c], ends[b][c], list, p, b, known, w)
        BY <2>1, <2>8, <3>3, <4>1 DEF ReadsOK
      <4>3. ends[b][c] \in CallerTypes => unread[c] = <<>>
        BY <2>8, <3>3 DEF ReadsOK
      <4> QED  BY <1>1, <2>8, <3>1, <3>3, <4>2, <4>3
    <3> QED  BY <3>2, <3>3
  <2>9. CASE b # a /\ p = a
    <3>1. ends[b][c] = dcc[b][c] \/ Accepts(a, b, c, ends, sent)
      BY <2>2, <2>9 DEF OthersOK
    <3>2. tandbot'[b] = tandbot[b]
      BY <1>1, <2>9
    <3>3. wire'[c][b] = IF ends[b][c] = "none" THEN wire[c][b]
                        ELSE wire[c][b] \o sent[c] \o IF dcc[a][c] # "none" /\ ends[a][c] = "none"
                                                      THEN <<EOF>> ELSE <<>>
      BY <2>2, <2>9 DEF Commit
    <3>4. wire[c][b] \in Seq(Messages) /\ sent[c] \in Seq(Messages)
      <4>1. MsgFrom(a) \subseteq Messages
        BY DEF MsgFrom
      <4>2. sent[c] \in Seq(Messages)
        BY <2>2, <4>1, SeqMonotonic DEF SentOK
      <4> QED  BY <2>2, <4>2 DEF LInv, IInv
    <3>5. CASE ends[b][c] = "none"
      <4>1. wire'[c][b] = <<>>
        BY <2>6, <3>1, <3>3, <3>5 DEF Accepts
      <4> QED  BY <3>5, <4>1, LineEmpty
    <3>6. CASE ends[b][c] # "none" /\ dcc[b][c] = "none"
      <4>1. ends[b][c] = "telnet" /\ sent[c] = <<Id>> /\ ends[a][c] = "new" /\ wire[c][b] = <<>>
        BY <2>6, <3>1, <3>6 DEF Accepts
      <4>2. wire'[c][b] = <<Id>>
        <5>1. wire'[c][b] = <<>> \o <<Id>> \o <<>>
          BY <3>3, <4>1
        <5> QED  BY <5>1
      <4>3. \A k \in 1..Len(<<Id>>) : <<Id>>[k] # Version
        <5>1. Id # Version
          <6>1. Id.cmd = "id" /\ Version.cmd = "v"
            BY DEF Id, Version
          <6> QED  BY <6>1
        <5>2. \A k \in 1..Len(<<Id>>) : <<Id>>[k] = Id
          OBVIOUS
        <5> QED  BY <5>1, <5>2
      <4> QED  BY <2>7, <4>1, <4>2, <4>3 DEF LineOK
    <3>7. CASE ends[b][c] # "none" /\ dcc[b][c] # "none"
      <4>1. ends[b][c] = dcc[b][c]
        BY <3>1, <3>7 DEF Accepts
      <4>2. CASE dcc[a][c] = "none"
        <5>1. sent[c] = <<>> /\ ends[a][c] = "none"
          BY <2>2, <2>9, <3>7, <4>2 DEF TellsOK
        <5>2. wire'[c][b] = wire[c][b]
          <6>1. wire'[c][b] = wire[c][b] \o <<>> \o <<>>
            BY <3>3, <3>7, <4>2, <5>1
          <6> QED  BY <3>4, <6>1
        <5>3. LineOK(wire[c][b], dcc[b][c], tandbot[b], p, b, FALSE, w)
          BY <2>6, <2>9, <4>2 DEF LineOK, Leads
        <5> QED  BY <2>5, <2>6, <2>9, <3>2, <4>1, <5>1, <5>2, <5>3
      <4>3. CASE dcc[a][c] # "none"
        <5>1. PICK e : e = IF ends[a][c] = "none" THEN <<EOF>> ELSE <<>>
          OBVIOUS
        <5>2. e \in Seq(Messages) /\ \A k \in 1..Len(e) : e[k].cmd \notin {"n", "un"} /\ e[k] # Version
          <6>1. EOF \in Messages /\ EOF.cmd = "eof" /\ Version.cmd = "v"
            BY DEF Messages, EOF, Version
          <6> QED  BY <5>1, <6>1
        <5>3. PICK u : /\ Turns(sent[c], 0, v, u)
                       /\ ends[a][c] # "none" => u = Shown(a, b, list, ends[a][c])
          BY <2>2, <2>3, <2>9, <3>7, <4>3 DEF TellsOK
        <5>4. \A k \in 1..Len(sent[c]) : sent[c][k] = Version => k = Len(sent[c]) /\ ends[a][c] # "bot"
          BY <2>2, <2>9, <3>7, <4>3 DEF TellsOK
        <5>5. PICK s : s = sent[c] \o e
          OBVIOUS
        <5>6. s \in Seq(Messages) /\ Turns(s, 0, v, u)
          <6>1. 0 \in 0..Len(e) /\ 0 \in 0..Len(sent[c])
            BY <3>4, <5>2, LenProperties
          <6>2. Turns(e, 0, u, u)
            BY <5>2, <6>1, TurnsPlain
          <6> QED  BY <3>4, <5>2, <5>3, <5>5, <6>1, <6>2, TurnsOn, ConcatProperties
        <5>7. known => u = w
          BY <1>1, <2>4, <2>5, <2>9, <5>3
        <5>8. ASSUME NEW k \in 1..Len(s), s[k] = Version PROVE Leads(s, k, Base(p, b), known, w)
          <6>1. PICK m : m = Len(sent[c])
            OBVIOUS
          <6>2. PICK n : n = Len(e)
            OBVIOUS
          <6>3. /\ m \in Nat /\ n \in Nat /\ Len(s) = m + n
                /\ \A j \in 1..(m + n) : s[j] = IF j <= m THEN sent[c][j] ELSE e[j - m]
            BY <3>4, <5>2, <5>5, <6>1, <6>2, LenProperties, ConcatProperties
          <6>4. k <= m
            <7>1. ASSUME k > m PROVE FALSE
              <8>1. PICK j : j = k - m
                OBVIOUS
              <8>2. j \in 1..n /\ e[j] = Version
                BY <5>8, <6>3, <7>1, <8>1
              <8> QED  BY <5>2, <6>2, <8>2
            <7> QED  BY <6>3, <7>1
          <6>5. k = m /\ ends[a][c] # "bot"
            BY <5>4, <5>8, <6>1, <6>3, <6>4
          <6>6. Turns(s, k, Base(p, b), Base(p, b))
            <7>1. Turns(e, 0, Base(p, b), Base(p, b))
              <8>1. 0 \in 0..Len(e)
                BY <6>2, <6>3
              <8> QED  BY <5>2, <8>1, TurnsPlain
            <7>2. 0 \in 0..Len(e) /\ Len(sent[c]) + 0 = k
              BY <6>1, <6>2, <6>3, <6>5
            <7>3. Turns(sent[c] \o e, Len(sent[c]) + 0, Base(p, b), Base(p, b))
              BY <3>4, <5>2, <7>1, <7>2, TurnsBehind
            <7> QED  BY <5>5, <7>2, <7>3
          <6>7. w = Base(p, b)
            BY <2>4, <2>9, <6>5 DEF Shown
          <6> QED  BY <6>6, <6>7 DEF Leads
        <5>9. LineOK(wire[c][b] \o s, dcc[b][c], tandbot[b], p, b, known, w)
          <6>1. LineOK(wire[c][b], dcc[b][c], tandbot[b], p, b, TRUE, v)
            BY <2>6, <2>9, <4>3
          <6> QED  BY <3>4, <5>6, <5>7, <5>8, <6>1, LineAppended
        <5>10. wire'[c][b] = wire[c][b] \o s
          <6>1. wire'[c][b] = (wire[c][b] \o sent[c]) \o e
            BY <3>3, <3>7, <4>3, <5>1
          <6>2. \A x, y, z \in Seq(Messages) : (x \o y) \o z = x \o (y \o z)
            BY ConcatAssociative
          <6>3. (wire[c][b] \o sent[c]) \o e = wire[c][b] \o (sent[c] \o e)
            BY <3>4, <5>2, <6>2
          <6> QED  BY <5>5, <6>1, <6>3
        <5>11. ends[b][c] \notin CallerTypes
          <6>1. c \in Conns /\ {b, a} = {Caller[c], Callee[c]} /\ Caller[c] # Callee[c]
            BY <2>1, <2>2, <2>9, EndsAssumption DEF Ends, Peer
          <6> QED  BY <4>1, <4>3, <6>1 DEF LInv, IInv, Dialling
        <5> QED  BY <3>2, <3>7, <4>1, <5>9, <5>10, <5>11
      <4> QED  BY <4>2, <4>3
    <3> QED  BY <3>5, <3>6, <3>7
  <2>10. CASE b # a /\ p # a
    <3>1. ~(c \in Ends(a) /\ b = Peer(c, a)) /\ ~(c \in Ends(a) /\ p = Peer(c, a))
      BY <2>1, <2>2, <2>10, PeerFacts
    <3>2. wire'[c][b] = wire[c][b]
      BY <2>2, <2>10, <3>1 DEF Commit
    <3>3. ends[b][c] = dcc[b][c] /\ ends[p][c] = dcc[p][c]
      BY <2>2, <2>10, <3>1 DEF OthersOK, Accepts
    <3> QED  BY <1>1, <2>2, <2>3, <2>4, <2>5, <2>6, <2>10, <3>2, <3>3
  <2> QED  BY <2>8, <2>9, <2>10
<1>3. Lines'
  BY <1>1, <1>2 DEF Lines
<1>4. QuietEnds'
  BY <1>1, <1>2 DEF QuietEnds
<1> QED  BY <1>3, <1>4

LEMMA CommitFarewells ==
  ASSUME LInv, NEW a \in Bots, NEW list, NEW ends, NEW unread, NEW sent,
         Commit(a, list, ends, unread, sent), SentOK(a, sent),
         TellsOK(a, list, ends, sent), ReadsOK(a, list, ends, unread), OthersOK(a, ends, sent)
  PROVE  Farewells'
<1>1. dcc' = ends
  BY DEF Commit
<1>2. ASSUME NEW b \in Bots, NEW c \in Ends(b), Live(ends[b][c]), ends[Peer(c, b)][c] = "none"
      PROVE  Ended(wire'[c][b])
  <2>1. PICK p : p = Peer(c, b)
    OBVIOUS
  <2>2. c \in Conns /\ p \in Bots \ {b} /\ c \in Ends(p) /\ Peer(c, p) = b
    BY <2>1, PeerFacts
  <2>3. Live(dcc[b][c]) /\ dcc[p][c] = "none" => Ended(wire[c][b])
    BY <2>1 DEF LInv, AllLines, Farewells
  <2>4. wire[c][b] \in Seq(Messages) /\ ends[b][c] # "none"
    BY <1>2, <2>2 DEF LInv, IInv, Live
  <2>5. CASE b = a
    <3>1. wire'[c][b] = unread[c]
      <4>1. wire'[c][a] = IF ends[a][c] = "none" THEN <<>> ELSE unread[c]
        BY <2>2, PeerFacts DEF Commit
      <4> QED  BY <2>4, <2>5, <4>1
    <3>2. Live(dcc[b][c])
      BY <1>2, <2>5 DEF OthersOK
    <3>3. dcc[p][c] = "none"
      BY <1>2, <2>1, <2>2, <2>5 DEF OthersOK, Accepts
    <3>4. PICK q : q = wire[c][b]
      OBVIOUS
    <3>5. Ended(q) /\ q \in Seq(Messages)
      BY <2>3, <2>4, <3>2, <3>3, <3>4
    <3>6. ReadsLine(b, c, unread[c])
      BY <2>4, <2>5 DEF ReadsOK
    <3>7. CASE unread[c] = q
      BY <3>1, <3>5, <3>7
    <3>8. CASE Head(q) # EOF /\ unread[c] = Tail(q)
      <4>1. /\ Len(q) \in Nat /\ Len(q) # 0 /\ Head(q) = q[1]
            /\ Len(Tail(q)) = Len(q) - 1
            /\ \A k \in 1..Len(Tail(q)) : Tail(q)[k] = q[k + 1]
        BY <3>5, LenProperties, EmptySeq, HeadTailProperties DEF Ended
      <4>2. Len(q) # 1
        BY <3>5, <3>8, <4>1 DEF Ended
      <4>3. Len(Tail(q)) \in 1..Len(Tail(q)) /\ Len(Tail(q)) + 1 = Len(q)
        BY <4>1, <4>2
      <4>4. Tail(q)[Len(Tail(q))] = EOF
        <5>1. Tail(q)[Len(Tail(q))] = q[Len(Tail(q)) + 1]
          <6>1. PICK k : k = Len(Tail(q))
            OBVIOUS
          <6>2. k \in 1..Len(Tail(q))
            BY <4>3, <6>1
          <6>3. Tail(q)[k] = q[k + 1]
            BY <4>1, <6>2
          <6> QED  BY <6>1, <6>3
        <5> QED  BY <3>5, <4>3, <5>1 DEF Ended
      <4>5. Tail(q) # <<>>
        <5>1. Len(Tail(q)) # 0
          BY <4>3
        <5>2. Len(<<>>) = 0
          OBVIOUS
        <5> QED  BY <5>1, <5>2
      <4> QED  BY <3>1, <3>8, <4>4, <4>5 DEF Ended
    <3> QED  BY <3>4, <3>6, <3>7, <3>8 DEF ReadsLine
  <2>6. CASE b # a /\ p = a
    <3>1. ends[b][c] = dcc[b][c]
      BY <1>2, <2>1, <2>2, <2>6 DEF OthersOK, Accepts
    <3>2. wire'[c][b] = wire[c][b] \o sent[c] \o IF dcc[a][c] # "none" THEN <<EOF>> ELSE <<>>
      <4>1. wire'[c][b] = IF ends[b][c] = "none" THEN wire[c][b]
                          ELSE wire[c][b] \o sent[c] \o IF dcc[a][c] # "none" /\ ends[a][c] = "none"
                                                        THEN <<EOF>> ELSE <<>>
        BY <2>2, <2>6 DEF Commit
      <4> QED  BY <1>2, <2>1, <2>4, <2>6, <4>1
    <3>3. sent[c] \in Seq(Messages)
      <4>1. MsgFrom(a) \subseteq Messages
        BY DEF MsgFrom
      <4> QED  BY <2>2, <4>1, SeqMonotonic DEF SentOK
    <3>4. CASE dcc[a][c] = "none"
      <4>1. sent[c] = <<>>
        BY <2>2, <2>4, <2>6, <3>1, <3>4 DEF TellsOK
      <4>2. wire'[c][b] = wire[c][b] \o <<>> \o <<>>
        BY <3>2, <3>4, <4>1
      <4>3. wire'[c][b] = wire[c][b]
        BY <2>4, <4>2
      <4> QED  BY <1>2, <2>3, <2>6, <3>1, <3>4, <4>3
    <3>5. CASE dcc[a][c] # "none"
      <4>1. PICK q : q = wire[c][b] \o sent[c]
        OBVIOUS
      <4>2. wire'[c][b] = q \o <<EOF>>
        BY <3>2, <3>5, <4>1
      <4>3. q \in Seq(Messages)
        BY <2>4, <3>3, <4>1, ConcatProperties
      <4>4. /\ Len(q) \in Nat /\ Len(q \o <<EOF>>) = Len(q) + 1
            /\ (q \o <<EOF>>)[Len(q) + 1] = EOF
        BY <4>3
      <4>5. q \o <<EOF>> # <<>>
        BY <4>4
      <4> QED  BY <4>2, <4>4, <4>5 DEF Ended
    <3> QED  BY <3>4, <3>5
  <2>7. CASE b # a /\ p # a
    <3>1. ~(c \in Ends(a) /\ b = Peer(c, a)) /\ ~(c \in Ends(a) /\ p = Peer(c, a))
      BY <2>1, <2>2, <2>7, PeerFacts
    <3>2. wire'[c][b] = wire[c][b]
      BY <2>2, <2>7, <3>1 DEF Commit
    <3>3. ends[b][c] = dcc[b][c] /\ ends[p][c] = dcc[p][c]
      BY <2>2, <2>7, <3>1 DEF OthersOK, Accepts
    <3> QED  BY <1>2, <2>1, <2>3, <3>2, <3>3
  <2> QED  BY <2>5, <2>6, <2>7
<1> QED  BY <1>1, <1>2 DEF Farewells

LEMMA CommitLines ==
  ASSUME LInv, NEW a \in Bots, NEW list, NEW ends, NEW unread, NEW sent,
         Commit(a, list, ends, unread, sent), SentOK(a, sent),
         TellsOK(a, list, ends, sent), ReadsOK(a, list, ends, unread), OthersOK(a, ends, sent)
  PROVE  AllLines'
BY CommitTells, CommitFarewells DEF AllLines

-----------------------------------------------------------------------------
(* What handlers send and read                                             *)

\* Lines q turn view v into w, without a version.
Tells(q, v, w) == /\ q \in Seq(Messages) /\ Turns(q, 0, v, w)
                  /\ \A k \in 1..Len(q) : q[k] # Version

AllPlain(q)    == q \in Seq(Messages) /\ \A k \in 1..Len(q) : Plain(q[k])

LEMMA PlainTells ==
  ASSUME NEW q, AllPlain(q), NEW v
  PROVE  Tells(q, v, v)
<1>1. q \in Seq(Messages) /\ 0 \in 0..Len(q) /\ \A k \in 1..Len(q) : q[k].cmd \notin {"n", "un", "v"}
  BY LenProperties DEF AllPlain, Plain
<1>2. Version.cmd = "v"
  BY DEF Version
<1> QED  BY <1>1, <1>2, TurnsPlain DEF Tells

LEMMA OneTells ==
  ASSUME NEW m \in Messages, m # Version, NEW v, NEW w, Told(v, m, w)
  PROVE  Tells(<<m>>, v, w)
<1>1. <<m>> \in Seq(Messages) /\ Len(<<m>>) = 1 /\ <<m>>[1] = m
  OBVIOUS
<1>2. \A k \in 1..Len(<<m>>) : <<m>>[k] # Version
  BY <1>1
<1> QED  BY <1>1, <1>2, TurnsOne DEF Tells

LEMMA TellsMore ==
  ASSUME NEW q, NEW v, NEW w, Tells(q, v, w), NEW r, AllPlain(r)
  PROVE  Tells(q \o r, v, w)
<1>1. q \in Seq(Messages) /\ r \in Seq(Messages) /\ 0 \in 0..Len(q)
  BY LenProperties DEF Tells, AllPlain
<1>2. Tells(r, w, w)
  BY PlainTells
<1>3. Turns(q \o r, 0, v, w) /\ q \o r \in Seq(Messages)
  BY <1>1, <1>2, TurnsOn, ConcatProperties DEF Tells
<1>4. ASSUME NEW k \in 1..Len(q \o r) PROVE (q \o r)[k] # Version
  <2>1. PICK m : m = Len(q)
    OBVIOUS
  <2>2. PICK n : n = Len(r)
    OBVIOUS
  <2>3. /\ m \in Nat /\ n \in Nat /\ k \in 1..(m + n)
        /\ (q \o r)[k] = IF k <= m THEN q[k] ELSE r[k - m]
    BY <1>1, <2>1, <2>2, LenProperties, ConcatProperties
  <2>4. CASE k <= m
    BY <2>1, <2>3, <2>4 DEF Tells
  <2>5. CASE ~(k <= m)
    <3>1. PICK j : j = k - m
      OBVIOUS
    <3>2. j \in 1..Len(r) /\ (q \o r)[k] = r[j]
      BY <2>2, <2>3, <2>5, <3>1
    <3> QED  BY <1>2, <3>2 DEF Tells
  <2> QED  BY <2>4, <2>5
<1> QED  BY <1>3, <1>4 DEF Tells

LEMMA PlainConcat ==
  ASSUME NEW q, AllPlain(q), NEW r, AllPlain(r)
  PROVE  AllPlain(q \o r)
<1>1. q \in Seq(Messages) /\ r \in Seq(Messages)
  BY DEF AllPlain
<1>2. PICK m : m = Len(q)
  OBVIOUS
<1>3. PICK n : n = Len(r)
  OBVIOUS
<1>4. /\ m \in Nat /\ n \in Nat /\ Len(q \o r) = m + n /\ q \o r \in Seq(Messages)
      /\ \A k \in 1..(m + n) : (q \o r)[k] = IF k <= m THEN q[k] ELSE r[k - m]
  BY <1>1, <1>2, <1>3, LenProperties, ConcatProperties
<1>5. ASSUME NEW k \in 1..(m + n) PROVE Plain((q \o r)[k])
  <2>1. CASE k <= m
    BY <1>2, <1>4, <2>1 DEF AllPlain
  <2>2. CASE ~(k <= m)
    <3>1. PICK j : j = k - m
      OBVIOUS
    <3>2. j \in 1..Len(r) /\ (q \o r)[k] = r[j]
      BY <1>3, <1>4, <2>2, <3>1
    <3> QED  BY <3>2 DEF AllPlain
  <2> QED  BY <2>1, <2>2
<1> QED  BY <1>4, <1>5 DEF AllPlain

LEMMA PlainLines ==
  /\ AllPlain(<<>>)
  /\ \A m \in {Id, Passreq, Digest, Hello, Bye, EOF} : AllPlain(<<m>>)
  /\ \A f, x \in Bots : AllPlain(<<Rej(f, x)>>)
<1>1. \A m \in {Id, Passreq, Digest, Hello, Bye, EOF} : m \in Messages /\ Plain(m)
  BY DEF Messages, Plain, Id, Passreq, Digest, Hello, Bye, EOF
<1>2. \A f, x \in Bots : Rej(f, x) \in Messages /\ Plain(Rej(f, x))
  BY DEF Messages, Plain, Rej
<1>3. \A m \in Messages : Plain(m) => AllPlain(<<m>>)
  BY DEF AllPlain
<1>4. AllPlain(<<>>)
  BY DEF AllPlain
<1> QED  BY <1>1, <1>2, <1>3, <1>4

LEMMA TellsKeeps ==
  ASSUME NEW b, NEW list, NEW ends, NEW sent,
         \A c \in Ends(b) : dcc[Peer(c, b)][c] # "none" =>
           IF dcc[b][c] = "none" THEN sent[c] = <<>> /\ ends[b][c] = "none"
           ELSE \E w : /\ Tells(sent[c], Shown(b, Peer(c, b), tandbot[b], dcc[b][c]), w)
                       /\ ends[b][c] # "none" => w = Shown(b, Peer(c, b), list, ends[b][c])
  PROVE  TellsOK(b, list, ends, sent)
BY DEF TellsOK, Tells

\* The ends that are left are links as they were.
SameLinks(b, ends) == \A c \in Ends(b) : ends[b][c] # "none" => (ends[b][c] = "bot") = (dcc[b][c] = "bot")

\* Nothing is read of c, or one line that is no news.
ReadsOn(b, c, q) ==
  \/ q = wire[c][b]
  \/ /\ wire[c][b] # <<>> /\ q = Tail(wire[c][b]) /\ Head(wire[c][b]) # EOF
     /\ dcc[b][c] = "bot" => Head(wire[c][b]).cmd \notin {"n", "un"}

LEMMA ReadOnKeeps ==
  ASSUME LInv, NEW b \in Bots, NEW c \in Ends(b), NEW q, ReadsOn(b, c, q),
         NEW other, (other = "bot") = (dcc[b][c] = "bot"),
         NEW u, dcc[b][c] = "bot" => Via(u, Peer(c, b)) = Via(tandbot[b], Peer(c, b)),
         NEW known \in BOOLEAN, NEW w,
         LineOK(wire[c][b], dcc[b][c], tandbot[b], Peer(c, b), b, known, w)
  PROVE  LineOK(q, other, u, Peer(c, b), b, known, w)
<1>1. wire[c][b] \in Seq(Messages)
  BY PeerFacts DEF LInv, IInv
<1>2. LineOK(q, dcc[b][c], tandbot[b], Peer(c, b), b, known, w)
  <2>1. CASE q = wire[c][b]
    BY <2>1
  <2>2. CASE q # wire[c][b]
    <3>1. wire[c][b] # <<>> /\ q = Tail(wire[c][b]) /\ (dcc[b][c] = "bot" => Head(wire[c][b]).cmd \notin {"n", "un"})
      BY <2>2 DEF ReadsOn
    <3> QED  BY <1>1, <3>1, LineRead
  <2> QED  BY <2>1, <2>2
<1> QED  BY <1>2, LineSame

\* A handler that leaves the list alone and tells no news.
LEMMA QuietLines ==
  ASSUME LInv, NEW b \in Bots, NEW ends, NEW unread, NEW sent,
         Commit(b, tandbot[b], ends, unread, sent), SentOK(b, sent), OthersOK(b, ends, sent),
         SameLinks(b, ends),
         \A c \in Ends(b) : dcc[Peer(c, b)][c] # "none" =>
           IF dcc[b][c] = "none" THEN sent[c] = <<>> /\ ends[b][c] = "none" ELSE AllPlain(sent[c]),
         \A c \in Ends(b) : ends[b][c] # "none" =>
           /\ ends[b][c] \in CallerTypes => unread[c] = <<>>
           /\ ReadsOn(b, c, unread[c])
  PROVE  AllLines'
<1>1. TellsOK(b, tandbot[b], ends, sent)
  <2> SUFFICES ASSUME NEW c \in Ends(b), dcc[Peer(c, b)][c] # "none", dcc[b][c] # "none"
               PROVE  \E w : /\ Tells(sent[c], Shown(b, Peer(c, b), tandbot[b], dcc[b][c]), w)
                             /\ ends[b][c] # "none" => w = Shown(b, Peer(c, b), tandbot[b], ends[b][c])
    BY TellsKeeps
  <2>1. PICK v : v = Shown(b, Peer(c, b), tandbot[b], dcc[b][c])
    OBVIOUS
  <2>2. Tells(sent[c], v, v)
    BY PlainTells
  <2>3. ends[b][c] # "none" => v = Shown(b, Peer(c, b), tandbot[b], ends[b][c])
    BY <2>1 DEF SameLinks, Shown
  <2> QED  BY <2>1, <2>2, <2>3
<1>2. ReadsOK(b, tandbot[b], ends, unread)
  <2>1. \A c \in Ends(b) : ends[b][c] # "none" => ReadsLine(b, c, unread[c])
    BY DEF ReadsOn, ReadsLine
  <2> QED  BY <2>1, ReadOnKeeps DEF ReadsOK, SameLinks
<1> QED  BY <1>1, <1>2, CommitLines

\* Ends of b move from one state of the login to another, are closed, or dial.
EndsMove(b, ends) ==
  /\ \A x \in Bots \ {b} : \A c \in Conns : ends[x][c] = dcc[x][c]
  /\ \A c \in Ends(b) :
       \/ ends[b][c] = dcc[b][c]
       \/ /\ dcc[b][c] \notin {"none", "bot"} /\ ends[b][c] \notin CallerTypes \cup {"bot"}
          /\ dcc[b][c] \in CallerTypes => ends[b][c] = "none"
       \/ dcc[b][c] \in CallerTypes /\ ends[b][c] \in CallerTypes
       \/ dcc[b][c] = "none" /\ ends[b][c] = "dns" /\ dcc[Peer(c, b)][c] = "none"

SaysLittle(b, sent) ==
  \A c \in Ends(b) : AllPlain(sent[c]) /\ (dcc[b][c] = "none" => sent[c] = <<>>)

ReadsLittle(b, unread) ==
  \A c \in Ends(b) : /\ dcc[b][c] \in {"none"} \cup CallerTypes => unread[c] = <<>>
                     /\ ReadsOn(b, c, unread[c])

LEMMA LoginLines ==
  ASSUME LInv, NEW b \in Bots, NEW ends, NEW unread, NEW sent,
         Commit(b, tandbot[b], ends, unread, sent), SentOK(b, sent),
         EndsMove(b, ends), SaysLittle(b, sent), ReadsLittle(b, unread)
  PROVE  AllLines'
<1>1. "bot" \notin CallerTypes /\ "none" \notin CallerTypes /\ "dns" \in CallerTypes
  BY DEF CallerTypes
<1>2. OthersOK(b, ends, sent)
  BY <1>1 DEF EndsMove, OthersOK, Live
<1>3. SameLinks(b, ends)
  BY <1>1 DEF EndsMove, SameLinks
<1>4. ASSUME NEW c \in Ends(b), dcc[Peer(c, b)][c] # "none"
      PROVE  IF dcc[b][c] = "none" THEN sent[c] = <<>> /\ ends[b][c] = "none" ELSE AllPlain(sent[c])
  BY <1>1, <1>4 DEF EndsMove, SaysLittle
<1>5. ASSUME NEW c \in Ends(b), ends[b][c] # "none"
      PROVE  /\ ends[b][c] \in CallerTypes => unread[c] = <<>>
             /\ ReadsOn(b, c, unread[c])
  BY <1>1, <1>5 DEF EndsMove, ReadsLittle
<1> QED  BY <1>2, <1>3, <1>4, <1>5, QuietLines

LEMMA InboxReads ==
  ASSUME LInv, NEW b \in Bots
  PROVE  ReadsLittle(b, Inbox(b))
<1>1. \A c \in Ends(b) : Inbox(b)[c] = wire[c][b]
  BY PeerFacts DEF Inbox
<1> QED  BY <1>1 DEF LInv, AllLines, QuietEnds, ReadsLittle, ReadsOn

LEMMA ConsumedIs ==
  ASSUME NEW b, NEW c \in Conns, NEW d \in Conns
  PROVE  Consumed(b, c)[d] = IF d = c THEN Tail(wire[c][b]) ELSE wire[d][b]
<1>1. PICK f : f = [x \in Conns |-> wire[x][b]]
  OBVIOUS
<1>2. Consumed(b, c) = [f EXCEPT ![c] = Tail(@)]
  BY <1>1 DEF Consumed, Inbox
<1> QED  BY <1>1, <1>2

LEMMA NotTheEnd == \A m \in {Id, Passreq, Digest, Hello, Version, Bye} : m # EOF
<1>1. \A m \in {Id, Passreq, Digest, Hello, Version, Bye} : m.cmd # EOF.cmd
  BY DEF Id, Passreq, Digest, Hello, Version, Bye, EOF
<1> QED  BY <1>1

LEMMA ConsumedReads ==
  ASSUME LInv, NEW b \in Bots, NEW c \in Ends(b), wire[c][b] # <<>>, Head(wire[c][b]) # EOF,
         dcc[b][c] = "bot" => Head(wire[c][b]).cmd \notin {"n", "un"}
  PROVE  ReadsLittle(b, Consumed(b, c))
<1>1. \A d \in Ends(b) : Consumed(b, c)[d] = IF d = c THEN Tail(wire[c][b]) ELSE wire[d][b]
  BY PeerFacts, ConsumedIs
<1>2. dcc[b][c] \notin {"none"} \cup CallerTypes
  BY DEF LInv, AllLines, QuietEnds
<1> QED  BY <1>1, <1>2 DEF LInv, AllLines, QuietEnds, ReadsLittle, ReadsOn

LEMMA NothingSays ==
  ASSUME NEW b \in Bots
  PROVE  SaysLittle(b, Nothing)
<1>1. \A c \in Ends(b) : Nothing[c] = <<>>
  BY PeerFacts DEF Nothing
<1> QED  BY <1>1, PlainLines DEF SaysLittle

LEMMA SendsLittle ==
  ASSUME NEW b \in Bots, NEW K, NEW m, AllPlain(m), \A c \in K \cap Ends(b) : dcc[b][c] # "none"
  PROVE  SaysLittle(b, SendOn(K, m))
<1>1. AllPlain(<<>>)
  BY PlainLines
<1>2. \A c \in Ends(b) : SendOn(K, m)[c] = IF c \in K THEN m ELSE <<>>
  BY PeerFacts DEF SendOn
<1> QED  BY <1>1, <1>2 DEF SaysLittle

\* Ends of b, none of them a link, become "type", which is no longer dialling.
LEMMA MoveEnds ==
  ASSUME LInv, NEW b \in Bots, NEW K, K \subseteq Ends(b), \A c \in K : dcc[b][c] \notin {"none", "bot"},
         NEW type \in {"none", "new", "dupwait", "pass"},
         type = "none" \/ \A c \in K : dcc[b][c] \notin CallerTypes
  PROVE  EndsMove(b, SetEnds(dcc, b, K, type))
<1>1. EndsTyped(dcc) /\ type \in DccTypes /\ type \notin CallerTypes \cup {"bot"}
  BY Types DEF LInv, IInv, CallerTypes
<1>2. /\ \A x \in Bots \ {b} : SetEnds(dcc, b, K, type)[x] = dcc[x]
      /\ \A c \in Conns : SetEnds(dcc, b, K, type)[b][c] = IF c \in K THEN type ELSE dcc[b][c]
  BY <1>1, SetEndsTyped
<1> QED  BY <1>1, <1>2, PeerFacts DEF EndsMove

-----------------------------------------------------------------------------
(* Dialling and login                                                      *)

LEMMA DialLines ==
  ASSUME LInv, NEW b \in Bots, NEW c \in Ends(b), Botlink(b, c) \/ Autolink(b, c)
  PROVE  AllLines'
<1>1. c \in Conns /\ Caller[c] = b /\ c \notin dialled
  BY PeerFacts DEF Botlink, Autolink, AutoChoices, CanLink
<1>2. Commit(b, tandbot[b], SetEnds(dcc, b, {c}, "dns"), Inbox(b), Nothing)
  BY DEF Botlink, Autolink, Dial
<1>3. EndsMove(b, SetEnds(dcc, b, {c}, "dns"))
  <2>1. EndsTyped(dcc) /\ Dialling(dcc, dialled) /\ "dns" \in DccTypes
    BY Types DEF LInv, IInv
  <2>2. /\ \A x \in Bots \ {b} : SetEnds(dcc, b, {c}, "dns")[x] = dcc[x]
        /\ \A d \in Conns : SetEnds(dcc, b, {c}, "dns")[b][d] = IF d = c THEN "dns" ELSE dcc[b][d]
    BY <2>1, SetEndsTyped
  <2>3. dcc[b][c] = "none" /\ dcc[Peer(c, b)][c] = "none"
    BY <1>1, <2>1 DEF Dialling, Peer
  <2> QED  BY <2>2, <2>3, PeerFacts DEF EndsMove
<1>4. SaysLittle(b, Nothing)
  BY NothingSays
<1> QED  BY <1>2, <1>3, <1>4, NothingOK, InboxReads, LoginLines

LEMMA ResolveLines ==
  ASSUME LInv, NEW b \in Bots, NEW c \in Ends(b), ResolveSuccess(b, c)
  PROVE  AllLines'
<1>1. dcc[b][c] = "dns" /\ Commit(b, tandbot[b], SetEnds(dcc, b, {c}, "fork"), Inbox(b), Nothing)
  BY DEF ResolveSuccess
<1>2. EndsMove(b, SetEnds(dcc, b, {c}, "fork"))
  <2>1. EndsTyped(dcc) /\ "fork" \in DccTypes
    BY Types DEF LInv, IInv
  <2>2. /\ \A x \in Bots \ {b} : SetEnds(dcc, b, {c}, "fork")[x] = dcc[x]
        /\ \A d \in Conns : SetEnds(dcc, b, {c}, "fork")[b][d] = IF d = c THEN "fork" ELSE dcc[b][d]
    BY <2>1, SetEndsTyped
  <2> QED  BY <1>1, <2>2, PeerFacts, Types DEF EndsMove
<1>3. SaysLittle(b, Nothing)
  BY NothingSays
<1> QED  BY <1>1, <1>2, <1>3, NothingOK, InboxReads, LoginLines

LEMMA FailedLinkLines ==
  ASSUME LInv, NEW b \in Bots, NEW c \in Ends(b), FailedLink(b, c)
  PROVE  AllLines'
<1>1. PICK next \in {{}} \cup {{d} : d \in AutoChoices(b, {c})} :
        Commit(b, tandbot[b], SetEnds(Closed(dcc, b, {c}), b, next, "dns"), Inbox(b), Nothing)
  BY DEF FailedLink
<1>2. \A d \in next : d \in Conns /\ Caller[d] = b /\ d \notin dialled
  BY <1>1 DEF AutoChoices, CanLink
<1>3. PICK f : f = SetEnds(dcc, b, {c}, "none")
  OBVIOUS
<1>4. PICK g : g = SetEnds(f, b, next, "dns")
  OBVIOUS
<1>5. EndsTyped(dcc) /\ Dialling(dcc, dialled) /\ "dns" \in DccTypes /\ "none" \in DccTypes
  BY Types DEF LInv, IInv
<1>6. /\ EndsTyped(f)
      /\ \A x \in Bots \ {b} : f[x] = dcc[x]
      /\ \A d \in Conns : f[b][d] = IF d = c THEN "none" ELSE dcc[b][d]
  BY <1>3, <1>5, SetEndsTyped
<1>7. /\ \A x \in Bots \ {b} : g[x] = f[x]
      /\ \A d \in Conns : g[b][d] = IF d \in next THEN "dns" ELSE f[b][d]
  <2>1. next \subseteq Ends(b)
    BY <1>2 DEF Ends
  <2> QED  BY <1>4, <1>5, <1>6, <2>1, SetEndsTyped
<1>8. \A d \in next : dcc[b][d] = "none" /\ dcc[Peer(d, b)][d] = "none"
  BY <1>2, <1>5 DEF Dialling, Peer
<1>9. dcc[b][c] \in {"dns", "fork"}
  BY DEF FailedLink
<1>10. EndsMove(b, g)
  BY <1>6, <1>7, <1>8, <1>9, PeerFacts, Types DEF EndsMove
<1>11. SaysLittle(b, Nothing)
  BY NothingSays
<1> QED  BY <1>1, <1>3, <1>4, <1>10, <1>11, NothingOK, InboxReads, LoginLines DEF Closed

LEMMA TelnetIdLines ==
  ASSUME LInv, NEW b \in Bots, NEW c \in Ends(b), TelnetId(b, c)
  PROVE  AllLines'
<1>1. dcc[b][c] = "telnet" /\ wire[c][b] # <<>> /\ Head(wire[c][b]) # EOF /\ "telnet" \notin CallerTypes
  BY NotTheEnd, Types DEF TelnetId, Reads
<1>2. \/ Commit(b, tandbot[b], SetEnds(dcc, b, {c}, "dupwait"), Consumed(b, c), Nothing)
      \/ Commit(b, tandbot[b], SetEnds(dcc, b, {c}, "pass"), Consumed(b, c), SendOn({c}, <<Passreq>>))
  BY DEF TelnetId
<1>3. EndsMove(b, SetEnds(dcc, b, {c}, "dupwait")) /\ EndsMove(b, SetEnds(dcc, b, {c}, "pass"))
  BY <1>1, MoveEnds
<1>4. SaysLittle(b, Nothing) /\ SaysLittle(b, SendOn({c}, <<Passreq>>))
  BY <1>1, PlainLines, SendsLittle, NothingSays
<1>5. ReadsLittle(b, Consumed(b, c))
  BY <1>1, ConsumedReads
<1>6. SentOK(b, Nothing) /\ SentOK(b, SendOn({c}, <<Passreq>>))
  BY LoginLinesOK, NothingOK
<1> QED  BY <1>2, <1>3, <1>4, <1>5, <1>6, LoginLines

LEMMA TimeoutDupwaitLines ==
  ASSUME LInv, NEW b \in Bots, NEW c \in Ends(b), TimeoutDupwait(b, c)
  PROVE  AllLines'
<1>1. dcc[b][c] = "dupwait" /\ "dupwait" \notin CallerTypes
  BY Types DEF TimeoutDupwait
<1>2. \/ Commit(b, tandbot[b], SetEnds(dcc, b, {c}, "none"), Inbox(b), Nothing)
      \/ Commit(b, tandbot[b], SetEnds(dcc, b, {c}, "pass"), Inbox(b), SendOn({c}, <<Passreq>>))
  BY DEF TimeoutDupwait, Closed
<1>3. EndsMove(b, SetEnds(dcc, b, {c}, "none")) /\ EndsMove(b, SetEnds(dcc, b, {c}, "pass"))
  BY <1>1, MoveEnds
<1>4. SaysLittle(b, Nothing) /\ SaysLittle(b, SendOn({c}, <<Passreq>>))
  BY <1>1, PlainLines, SendsLittle, NothingSays
<1>5. SentOK(b, Nothing) /\ SentOK(b, SendOn({c}, <<Passreq>>))
  BY LoginLinesOK, NothingOK
<1> QED  BY <1>2, <1>3, <1>4, <1>5, InboxReads, LoginLines

LEMMA SameEnds ==
  ASSUME NEW b
  PROVE  EndsMove(b, dcc)
BY DEF EndsMove

LEMMA AnswerLines ==
  ASSUME LInv, NEW b \in Bots, NEW c \in Ends(b), AnswerChallenge(b, c) \/ IgnoreBye(b, c)
  PROVE  AllLines'
<1>1. dcc[b][c] = "new" /\ wire[c][b] # <<>> /\ Head(wire[c][b]) # EOF
  BY NotTheEnd DEF AnswerChallenge, IgnoreBye, Reads
<1>2. \/ Commit(b, tandbot[b], dcc, Consumed(b, c), SendOn({c}, <<Digest>>))
      \/ Commit(b, tandbot[b], dcc, Consumed(b, c), Nothing)
  BY DEF AnswerChallenge, IgnoreBye
<1>3. SaysLittle(b, Nothing) /\ SaysLittle(b, SendOn({c}, <<Digest>>))
  BY <1>1, PlainLines, SendsLittle, NothingSays
<1>4. ReadsLittle(b, Consumed(b, c))
  BY <1>1, ConsumedReads
<1>5. SentOK(b, Nothing) /\ SentOK(b, SendOn({c}, <<Digest>>))
  BY LoginLinesOK, NothingOK
<1> QED  BY <1>2, <1>3, <1>4, <1>5, SameEnds, LoginLines

LEMMA LoginLostLines ==
  ASSUME LInv, NEW b \in Bots, NEW c \in Ends(b), LoginLost(b, c)
  PROVE  AllLines'
<1>1. dcc[b][c] \notin {"none", "bot"}
  BY DEF LoginLost
<1>2. Commit(b, tandbot[b], SetEnds(dcc, b, {c}, "none"), Inbox(b), Nothing)
  BY DEF LoginLost, Closed
<1>3. EndsMove(b, SetEnds(dcc, b, {c}, "none"))
  BY <1>1, MoveEnds
<1>4. SaysLittle(b, Nothing)
  BY NothingSays
<1> QED  BY <1>2, <1>3, <1>4, NothingOK, InboxReads, LoginLines

\* What is read is no news, and what was heard over the links that are left stays.
LEMMA ReadsLittleOK ==
  ASSUME LInv, NEW b \in Bots, NEW list, NEW ends, NEW unread, ReadsLittle(b, unread), SameLinks(b, ends),
         \A c \in Ends(b) : ends[b][c] \in CallerTypes => dcc[b][c] \in {"none"} \cup CallerTypes,
         \A c \in Ends(b) : dcc[b][c] = "bot" /\ ends[b][c] # "none" =>
           Via(list, Peer(c, b)) = Via(tandbot[b], Peer(c, b))
  PROVE  ReadsOK(b, list, ends, unread)
<1>1. \A c \in Ends(b) : ReadsLine(b, c, unread[c])
  BY DEF ReadsLittle, ReadsOn, ReadsLine
<1> QED  BY <1>1, ReadOnKeeps DEF ReadsOK, ReadsLittle, SameLinks

\* A greeting ends with the version.
Greeting == {first \o <<Version>> : first \in {<<>>, <<Hello>>}}

LEMMA GreetingFacts ==
  ASSUME NEW q \in Greeting, NEW v
  PROVE  /\ q \in Seq(Messages) /\ Turns(q, 0, v, v)
         /\ \A k \in 1..Len(q) : q[k] = Version => k = Len(q)
<1>1. Version \in Messages /\ Hello \in Messages /\ Version.cmd = "v" /\ Hello.cmd = "*hello!"
  BY DEF Messages, Version, Hello
<1>2. q \in Seq(Messages) /\ Len(q) \in 1..2 /\ (\A k \in 1..Len(q) : q[k].cmd \notin {"n", "un"})
      /\ \A k \in 1..Len(q) : q[k] = Version => k = Len(q)
  <2>1. CASE q = <<>> \o <<Version>>
    <3>1. q = <<Version>>
      BY <2>1
    <3> QED  BY <1>1, <3>1
  <2>2. CASE q = <<Hello>> \o <<Version>>
    <3>1. Len(q) = 2 /\ q[1] = Hello /\ q[2] = Version /\ q \in Seq(Messages) /\ Hello # Version
      BY <1>1, <2>2
    <3>2. \A k \in 1..Len(q) : k = 1 \/ k = 2
      BY <3>1
    <3> QED  BY <1>1, <3>1, <3>2
  <2> QED  BY <2>1, <2>2 DEF Greeting
<1>3. 0 \in 0..Len(q)
  BY <1>2
<1> QED  BY <1>2, <1>3, TurnsPlain

LEMMA GreetLines ==
  ASSUME LInv, NEW b \in Bots, NEW c \in Ends(b), ChatPass(b, c) \/ ReadHello(b, c)
  PROVE  AllLines'
<1>1. dcc[b][c] \in {"pass", "new"} /\ wire[c][b] # <<>> /\ Head(wire[c][b]) # EOF
  BY NotTheEnd DEF ChatPass, ReadHello, Reads
<1>2. PICK forks : forks = {d \in Conns : dcc[b][d] = "fork"}
  OBVIOUS
<1>3. PICK f : f = SetEnds(dcc, b, {c}, "new")
  OBVIOUS
<1>4. \E first \in {<<>>, <<Hello>>} :
        \/ Commit(b, tandbot[b], SetEnds(dcc, b, {c}, "none"), Consumed(b, c), SendOn({c}, first \o <<Bye>>))
        \/ Commit(b, tandbot[b], SetEnds(f, b, forks, "none"), Consumed(b, c), SendOn({c}, first \o <<Version>>))
  <2>1. PICK first \in {<<>>, <<Hello>>} : GreetNewBot(b, c, first)
    BY DEF ChatPass, ReadHello
  <2>2. \/ Commit(b, tandbot[b], SetEnds(dcc, b, {c}, "none"), Consumed(b, c), SendOn({c}, first \o <<Bye>>))
        \/ Commit(b, tandbot[b], SetEnds(f, b, forks, "none"), Consumed(b, c), SendOn({c}, first \o <<Version>>))
    BY <1>2, <1>3, <2>1 DEF GreetNewBot, Closed
  <2> QED  BY <2>2
<1>5. PICK first \in {<<>>, <<Hello>>} :
        \/ Commit(b, tandbot[b], SetEnds(dcc, b, {c}, "none"), Consumed(b, c), SendOn({c}, first \o <<Bye>>))
        \/ Commit(b, tandbot[b], SetEnds(f, b, forks, "none"), Consumed(b, c), SendOn({c}, first \o <<Version>>))
  BY <1>4
<1>6. ReadsLittle(b, Consumed(b, c))
  BY <1>1, ConsumedReads
<1>7. first \in Seq(MsgFrom(b)) /\ <<Bye>> \in Seq(MsgFrom(b)) /\ <<Version>> \in Seq(MsgFrom(b))
  <2>1. <<>> \in Seq(MsgFrom(b)) /\ <<Hello>> \in Seq(MsgFrom(b))
    BY LoginLinesOK
  <2> QED  BY <2>1, LoginLinesOK
<1>8. CASE Commit(b, tandbot[b], SetEnds(dcc, b, {c}, "none"), Consumed(b, c), SendOn({c}, first \o <<Bye>>))
  <2>1. EndsMove(b, SetEnds(dcc, b, {c}, "none"))
    BY <1>1, MoveEnds
  <2>2. SaysLittle(b, SendOn({c}, first \o <<Bye>>))
    <3>1. AllPlain(first \o <<Bye>>)
      BY PlainLines, PlainConcat
    <3> QED  BY <1>1, <3>1, SendsLittle
  <2>3. SentOK(b, SendOn({c}, first \o <<Bye>>))
    <3>1. first \o <<Bye>> \in Seq(MsgFrom(b))
      BY <1>7
    <3> QED  BY <3>1, SendOnOK
  <2> QED  BY <1>6, <1>8, <2>1, <2>2, <2>3, LoginLines
<1>9. CASE Commit(b, tandbot[b], SetEnds(f, b, forks, "none"), Consumed(b, c), SendOn({c}, first \o <<Version>>))
  <2>1. PICK g : g = SetEnds(f, b, forks, "none")
    OBVIOUS
  <2>2. PICK q : q = first \o <<Version>>
    OBVIOUS
  <2>3. q \in Greeting
    BY <2>2 DEF Greeting
  <2>4. EndsTyped(dcc) /\ c \in Conns /\ \A d \in Ends(b) : d \in Conns
    BY PeerFacts DEF LInv, IInv
  <2>5. /\ EndsTyped(f)
        /\ \A x \in Bots \ {b} : f[x] = dcc[x]
        /\ \A d \in Conns : f[b][d] = IF d = c THEN "new" ELSE dcc[b][d]
    BY <1>3, <2>4, Types, SetEndsTyped
  <2>6. /\ \A x \in Bots \ {b} : g[x] = dcc[x]
        /\ \A d \in Conns : g[b][d] = IF d = c THEN "new" ELSE IF dcc[b][d] = "fork" THEN "none" ELSE dcc[b][d]
    <3>1. /\ \A x \in Bots \ {b} : g[x] = f[x]
          /\ \A d \in Conns : g[b][d] = IF d \in forks THEN "none" ELSE f[b][d]
      BY <2>1, <2>5, Types, SetEndsTyped
    <3> QED  BY <1>1, <1>2, <2>4, <2>5, <3>1
  <2>7. OthersOK(b, g, SendOn({c}, q))
    <3>1. \A d \in Ends(b) : Live(g[b][d]) => Live(dcc[b][d])
      BY <1>1, <2>4, <2>6, Types DEF Live
    <3> QED  BY <2>6, <3>1 DEF OthersOK
  <2>8. SameLinks(b, g)
    BY <1>1, <2>4, <2>6 DEF SameLinks
  <2>9. ReadsOK(b, tandbot[b], g, Consumed(b, c))
    <3>1. \A d \in Ends(b) : g[b][d] \in CallerTypes => dcc[b][d] \in {"none"} \cup CallerTypes
      BY <2>4, <2>6, Types
    <3> QED  BY <1>6, <2>8, <3>1, ReadsLittleOK
  <2>10. TellsOK(b, tandbot[b], g, SendOn({c}, q))
    <3>1. \A d \in Ends(b) : SendOn({c}, q)[d] = IF d = c THEN q ELSE <<>>
      BY <2>4 DEF SendOn
    <3> SUFFICES ASSUME NEW d \in Ends(b)
                 PROVE  IF dcc[b][d] = "none" THEN SendOn({c}, q)[d] = <<>> /\ g[b][d] = "none"
                        ELSE /\ \E w : /\ Turns(SendOn({c}, q)[d], 0, Shown(b, Peer(d, b), tandbot[b], dcc[b][d]), w)
                                       /\ g[b][d] # "none" => w = Shown(b, Peer(d, b), tandbot[b], g[b][d])
                             /\ \A k \in 1..Len(SendOn({c}, q)[d]) : SendOn({c}, q)[d][k] = Version
                                   => k = Len(SendOn({c}, q)[d]) /\ g[b][d] # "bot"
      BY DEF TellsOK
    <3>2. PICK v : v = Shown(b, Peer(d, b), tandbot[b], dcc[b][d])
      OBVIOUS
    <3>3. g[b][d] # "none" => v = Shown(b, Peer(d, b), tandbot[b], g[b][d])
      BY <2>8, <3>2 DEF SameLinks, Shown
    <3>4. CASE d = c
      <4>1. Turns(q, 0, v, v) /\ \A k \in 1..Len(q) : q[k] = Version => k = Len(q)
        BY <2>3, GreetingFacts
      <4>2. g[b][d] = "new" /\ dcc[b][d] # "none"
        BY <1>1, <2>4, <2>6, <3>4
      <4> QED  BY <3>1, <3>2, <3>3, <3>4, <4>1, <4>2
    <3>5. CASE d # c
      <4>1. SendOn({c}, q)[d] = <<>>
        BY <3>1, <3>5
      <4>2. Turns(<<>>, 0, v, v) /\ \A k \in 1..Len(<<>>) : FALSE
        <5>1. Tells(<<>>, v, v)
          BY PlainLines, PlainTells
        <5> QED  BY <5>1 DEF Tells
      <4>3. dcc[b][d] = "none" => g[b][d] = "none"
        BY <2>4, <2>6, <3>5
      <4> QED  BY <3>2, <3>3, <4>1, <4>2, <4>3
    <3> QED  BY <3>4, <3>5
  <2>11. SentOK(b, SendOn({c}, q))
    <3>1. q \in Seq(MsgFrom(b))
      BY <1>7, <2>2
    <3> QED  BY <3>1, SendOnOK
  <2> QED  BY <1>9, <2>1, <2>2, <2>7, <2>9, <2>10, <2>11, CommitLines
<1> QED  BY <1>5, <1>8, <1>9

-----------------------------------------------------------------------------
(* A link is dropped                                                       *)

LEMMA LinkFacts ==
  ASSUME IInv, NEW b \in Bots, NEW c \in Ends(b), dcc[b][c] = "bot"
  PROVE  /\ ListType(b, tandbot[b]) /\ OrderOK(tandbot[b]) /\ ParentsOK(b, tandbot[b])
         /\ Peer(c, b) \in DOMAIN tandbot[b]
         /\ tandbot[b][Peer(c, b)].via = Peer(c, b)
         /\ \A d \in Ends(b) : dcc[b][d] = "bot" /\ Peer(d, b) = Peer(c, b) => d = c
BY DEF IInv, Good, RoutesOK, LinksListed

LEMMA PlusIs ==
  ASSUME NEW c \in Conns, NEW s1, NEW s2
  PROVE  (s1 ++ s2)[c] = s1[c] \o s2[c]
BY DEF ++

\* All that a handler sends on one connection when it drops link K: the news, what it sends
\* anyway, the farewell on K, and a challenge to a duplicate that may go on.
Challenge == <<Passreq>>
DropSent(b, K, m, s, bye, S) == SendBut(b, K, <<m>>) ++ s ++ SendOn(K, bye) ++ SendOn(S, Challenge)

NewsOn(b, K, m, d) == IF dcc[b][d] = "bot" /\ d \notin K THEN <<m>> ELSE <<>>
OnlyIn(K, q, d)    == IF d \in K THEN q ELSE <<>>

LEMMA DropSends ==
  ASSUME NEW b \in Bots, NEW K, NEW m, NEW s, NEW bye, NEW S, NEW d \in Ends(b)
  PROVE  DropSent(b, K, m, s, bye, S)[d]
           = ((NewsOn(b, K, m, d) \o s[d]) \o OnlyIn(K, bye, d)) \o OnlyIn(S, Challenge, d)
<1>1. d \in Conns
  BY PeerFacts
<1>2. SendBut(b, K, <<m>>)[d] = NewsOn(b, K, m, d)
  BY <1>1 DEF SendBut, Links, NewsOn
<1>3. SendOn(K, bye)[d] = OnlyIn(K, bye, d)
  BY <1>1 DEF SendOn, OnlyIn
<1>4. SendOn(S, Challenge)[d] = OnlyIn(S, Challenge, d)
  BY <1>1 DEF SendOn, OnlyIn
<1>5. PICK s1 : s1 = SendBut(b, K, <<m>>)
  OBVIOUS
<1>6. PICK s2 : s2 = SendOn(K, bye)
  OBVIOUS
<1>7. PICK s3 : s3 = SendOn(S, Challenge)
  OBVIOUS
<1>8. DropSent(b, K, m, s, bye, S) = s1 ++ s ++ s2 ++ s3
  BY <1>5, <1>6, <1>7 DEF DropSent
<1>9. (s1 ++ s ++ s2 ++ s3)[d] = ((s1[d] \o s[d]) \o s2[d]) \o s3[d]
  <2>1. (s1 ++ s)[d] = s1[d] \o s[d]
    BY <1>1, PlusIs
  <2>2. PICK p : p = s1 ++ s
    OBVIOUS
  <2>3. (p ++ s2)[d] = p[d] \o s2[d]
    BY <1>1, PlusIs
  <2>4. PICK q : q = p ++ s2
    OBVIOUS
  <2>5. (q ++ s3)[d] = q[d] \o s3[d]
    BY <1>1, PlusIs
  <2> QED  BY <2>1, <2>2, <2>3, <2>4, <2>5
<1> QED  BY <1>2, <1>3, <1>4, <1>5, <1>6, <1>7, <1>8, <1>9

LEMMA DropLinkLines ==
  ASSUME LInv, NEW b \in Bots, NEW c0 \in Ends(b), dcc[b][c0] = "bot", NEW bye \in {<<>>, <<Bye>>},
         NEW ends, NEW unread, NEW sent, DropLink(b, c0, bye, ends, unread, sent),
         EndsTyped(ends), OthersOK(b, ends, sent),
         \A d \in Ends(b) : ends[b][d] # "none" => (ends[b][d] = "bot") = (dcc[b][d] = "bot"),
         \A d \in Ends(b) : dcc[b][d] = "dupwait" => ends[b][d] = "dupwait",
         SentOK(b, sent), \A d \in Ends(b) : AllPlain(sent[d]),
         \A d \in Ends(b) : dcc[Peer(d, b)][d] # "none" /\ dcc[b][d] = "none" =>
           sent[d] = <<>> /\ ends[b][d] = "none",
         \A d \in Ends(b) \ {c0} : ends[b][d] # "none" =>
           /\ ends[b][d] \in CallerTypes => unread[d] = <<>>
           /\ ReadsOn(b, d, unread[d])
  PROVE  AllLines'
<1>1. PICK n : n = Peer(c0, b)
  OBVIOUS
<1>2. PICK t : t = tandbot[b]
  OBVIOUS
<1>3. PICK u : u = Without(t, Subtree(t, {n}))
  OBVIOUS
<1>4. PICK S \in Resumable(b, Subtree(t, {n})) :
        Commit(b, u, SetEnds(Closed(ends, b, {c0}), b, S, "pass"), unread,
               SendBut(b, {c0}, <<Un(n)>>) ++ sent ++ SendOn({c0}, bye) ++ SendOn(S, <<Passreq>>))
  BY <1>1, <1>2, <1>3 DEF DropLink
<1>5. PICK cl : cl = SetEnds(ends, b, {c0}, "none")
  OBVIOUS
<1>6. PICK new : new = SetEnds(cl, b, S, "pass")
  OBVIOUS
<1>0. PICK K : K = {c0}
  OBVIOUS
<1>7. PICK fs : fs = DropSent(b, K, Un(n), sent, bye, S)
  OBVIOUS
<1>8. IInv /\ n \in Bots \ {b} /\ \A d \in Ends(b) : d \in Conns
  BY <1>1, PeerFacts DEF LInv
<1>9. S \subseteq Ends(b) /\ \A d \in S : dcc[b][d] = "dupwait" /\ d # c0
  BY <1>8 DEF Resumable, IInv, EndsTyped
<1>10. /\ \A x \in Bots \ {b} : new[x] = ends[x]
       /\ \A d \in Conns : new[b][d] = IF d \in S THEN "pass" ELSE IF d = c0 THEN "none" ELSE ends[b][d]
  <2>1. /\ EndsTyped(cl)
        /\ \A x \in Bots \ {b} : cl[x] = ends[x]
        /\ \A d \in Conns : cl[b][d] = IF d = c0 THEN "none" ELSE ends[b][d]
    BY <1>5, Types, SetEndsTyped
  <2>2. /\ \A x \in Bots \ {b} : new[x] = cl[x]
        /\ \A d \in Conns : new[b][d] = IF d \in S THEN "pass" ELSE cl[b][d]
    BY <1>6, <1>9, <2>1, Types, SetEndsTyped
  <2> QED  BY <2>1, <2>2
<1>11. \A d \in Ends(b) :
         fs[d] = ((NewsOn(b, K, Un(n), d) \o sent[d]) \o OnlyIn(K, bye, d)) \o OnlyIn(S, Challenge, d)
  BY <1>7, DropSends
<1>12. /\ ListType(b, t) /\ OrderOK(t) /\ ParentsOK(b, t)
       /\ n \in DOMAIN t /\ t[n].via = n
       /\ \A d \in Ends(b) : dcc[b][d] = "bot" => Peer(d, b) \in DOMAIN t /\ t[Peer(d, b)].via = Peer(d, b)
       /\ \A d \in Ends(b) \ {c0} : dcc[b][d] = "bot" => Peer(d, b) # n
  BY <1>1, <1>2, <1>8, LinkFacts
<1>13. \A d \in Ends(b) : AllPlain(OnlyIn(K, bye, d)) /\ AllPlain(OnlyIn(S, Challenge, d)) /\ AllPlain(<<>>)
  BY PlainLines DEF OnlyIn, Challenge
<1>14. SentOK(b, fs)
  <2>1. <<Un(n)>> \in Seq(MsgFrom(b)) /\ <<Passreq>> \in Seq(MsgFrom(b)) /\ bye \in Seq(MsgFrom(b))
    <3>1. <<>> \in Seq(MsgFrom(b)) /\ <<Bye>> \in Seq(MsgFrom(b))
      BY LoginLinesOK
    <3>2. Un(n) \in MsgFrom(b) /\ Passreq \in MsgFrom(b)
      BY <1>8, MsgTypes
    <3>3. bye \in Seq(MsgFrom(b))
      BY <3>1
    <3>4. \A m \in MsgFrom(b) : <<m>> \in Seq(MsgFrom(b))
      OBVIOUS
    <3> QED  BY <3>2, <3>3, <3>4
  <2> QED  BY <1>7, <2>1, SendButOK, SendOnOK, SendBothOK DEF DropSent, Challenge
<1>15. OthersOK(b, new, fs)
  <2>0. \A d \in Ends(b) : Live(new[b][d]) /\ ~Live(dcc[b][d]) => new[Peer(d, b)][d] # "none"
    <3>1. \A d \in Ends(b) : Live(new[b][d]) /\ ~Live(dcc[b][d]) => Live(ends[b][d])
      BY <1>8, <1>9, <1>10, Types DEF Live
    <3>2. \A d \in Ends(b) : Peer(d, b) \in Bots \ {b}
      BY PeerFacts
    <3> QED  BY <1>10, <3>1, <3>2 DEF OthersOK
  <2> SUFFICES ASSUME NEW x \in Bots \ {b}, NEW c \in Conns, Accepts(b, x, c, ends, sent)
               PROVE  Accepts(b, x, c, new, fs)
    BY <1>10, <2>0 DEF OthersOK
  <2>1. c \in Ends(b) /\ c \notin S /\ c # c0 /\ dcc[b][c] = "fork" /\ sent[c] = <<Id>>
    BY <1>9 DEF Accepts
  <2>2. fs[c] = ((<<>> \o <<Id>>) \o <<>>) \o <<>>
    BY <1>0, <1>11, <2>1 DEF NewsOn, OnlyIn
  <2>3. fs[c] = <<Id>>
    BY <2>2
  <2> QED  BY <1>10, <2>1, <2>3 DEF Accepts
<1>16. TellsOK(b, u, new, fs)
  <2> SUFFICES ASSUME NEW d \in Ends(b), dcc[Peer(d, b)][d] # "none"
               PROVE  IF dcc[b][d] = "none" THEN fs[d] = <<>> /\ new[b][d] = "none"
                      ELSE \E w : /\ Tells(fs[d], Shown(b, Peer(d, b), tandbot[b], dcc[b][d]), w)
                                  /\ new[b][d] # "none" => w = Shown(b, Peer(d, b), u, new[b][d])
    BY TellsKeeps
  <2>1. PICK v : v = Shown(b, Peer(d, b), tandbot[b], dcc[b][d])
    OBVIOUS
  <2>2. CASE dcc[b][d] = "none"
    <3>1. d # c0 /\ d \notin S /\ sent[d] = <<>> /\ ends[b][d] = "none"
      BY <1>9, <2>2
    <3>2. fs[d] = ((<<>> \o <<>>) \o <<>>) \o <<>>
      BY <1>0, <1>11, <2>2, <3>1 DEF NewsOn, OnlyIn
    <3>3. fs[d] = <<>>
      BY <3>2
    <3>4. new[b][d] = "none"
      BY <1>8, <1>10, <3>1
    <3> QED  BY <2>2, <3>3, <3>4
  <2>3. CASE dcc[b][d] = "bot" /\ d # c0
    <3>1. PICK w : w = Shown(b, Peer(d, b), u, "bot")
      OBVIOUS
    <3>2. Told(v, Un(n), w)
      BY <1>2, <1>3, <1>12, <2>1, <2>3, <3>1, ShownWithout
    <3>3. Tells(<<Un(n)>>, v, w)
      <4>1. Un(n) \in Messages /\ Un(n) # Version
        <5>1. Un(n).cmd = "un" /\ Version.cmd = "v"
          BY DEF Un, Version
        <5>2. Un(n) \in Messages
          BY <1>8 DEF Messages
        <5> QED  BY <5>1, <5>2
      <4> QED  BY <3>2, <4>1, OneTells
    <3>4. Tells(<<Un(n)>> \o sent[d], v, w)
      BY <3>3, TellsMore
    <3>5. Tells((<<Un(n)>> \o sent[d]) \o OnlyIn(K, bye, d), v, w)
      BY <1>13, <3>4, TellsMore
    <3>6. Tells(((<<Un(n)>> \o sent[d]) \o OnlyIn(K, bye, d)) \o OnlyIn(S, Challenge, d), v, w)
      BY <1>13, <3>5, TellsMore
    <3>7. Tells(fs[d], v, w)
      <4>1. NewsOn(b, K, Un(n), d) = <<Un(n)>>
        BY <1>0, <2>3 DEF NewsOn
      <4> QED  BY <1>11, <3>6, <4>1
    <3>8. new[b][d] # "none" => new[b][d] = "bot"
      BY <1>8, <1>9, <1>10, <2>3
    <3> QED  BY <2>1, <2>3, <3>1, <3>7, <3>8
  <2>4. CASE dcc[b][d] # "none" /\ (dcc[b][d] # "bot" \/ d = c0)
    <3>1. PICK e : e = OnlyIn(K, bye, d)
      OBVIOUS
    <3>2. PICK g : g = OnlyIn(S, Challenge, d)
      OBVIOUS
    <3>3. fs[d] = ((<<>> \o sent[d]) \o e) \o g
      <4>1. NewsOn(b, K, Un(n), d) = <<>>
        BY <1>0, <2>4 DEF NewsOn
      <4> QED  BY <1>11, <3>1, <3>2, <4>1
    <3>4. AllPlain(fs[d])
      <4>1. AllPlain(<<>> \o sent[d])
        BY <1>13, PlainConcat
      <4>2. AllPlain((<<>> \o sent[d]) \o e)
        BY <1>13, <3>1, <4>1, PlainConcat
      <4> QED  BY <1>13, <3>2, <3>3, <4>2, PlainConcat
    <3>5. Tells(fs[d], v, v)
      BY <3>4, PlainTells
    <3>6. new[b][d] # "none" => v = Shown(b, Peer(d, b), u, new[b][d])
      <4>1. new[b][d] # "none" => dcc[b][d] # "bot" /\ new[b][d] # "bot"
        BY <1>8, <1>9, <1>10, <2>4
      <4> QED  BY <2>1, <4>1 DEF Shown
    <3> QED  BY <2>1, <2>4, <3>5, <3>6
  <2> QED  BY <2>2, <2>3, <2>4
<1>17. ReadsOK(b, u, new, unread)
  <2> SUFFICES ASSUME NEW d \in Ends(b), new[b][d] # "none"
               PROVE  /\ new[b][d] \in CallerTypes => unread[d] = <<>>
                      /\ ReadsLine(b, d, unread[d])
                      /\ \A known \in BOOLEAN : \A w :
                           LineOK(wire[d][b], dcc[b][d], tandbot[b], Peer(d, b), b, known, w)
                             => LineOK(unread[d], new[b][d], u, Peer(d, b), b, known, w)
    BY DEF ReadsOK
  <2>1. /\ d # c0 /\ ends[b][d] # "none"
        /\ new[b][d] \in CallerTypes => ends[b][d] \in CallerTypes
        /\ (new[b][d] = "bot") = (dcc[b][d] = "bot")
    BY <1>8, <1>9, <1>10, Types
  <2>2. dcc[b][d] = "bot" => Via(u, Peer(d, b)) = Via(tandbot[b], Peer(d, b))
    BY <1>2, <1>3, <1>12, <2>1, ViaWithout
  <2>3. ReadsLine(b, d, unread[d])
    BY <2>1 DEF ReadsOn, ReadsLine
  <2> QED  BY <2>1, <2>2, <2>3, ReadOnKeeps
<1>18. Commit(b, u, new, unread, fs)
  BY <1>0, <1>4, <1>5, <1>6, <1>7 DEF Closed, DropSent, Challenge
<1> QED  BY <1>14, <1>15, <1>16, <1>17, <1>18, CommitLines

\* Of all ends but c it reads nothing, or what is no news.
ReadsAside(b, c, unread) ==
  \A d \in Ends(b) \ {c} : \/ unread[d] = wire[d][b]
                           \/ dcc[b][d] \notin CallerTypes /\ ReadsOn(b, d, unread[d])

\* The handlers that do nothing else.
LEMMA PlainDropLines ==
  ASSUME LInv, NEW b \in Bots, NEW c \in Ends(b), dcc[b][c] = "bot", NEW bye \in {<<>>, <<Bye>>},
         NEW unread, DropLink(b, c, bye, dcc, unread, Nothing), ReadsAside(b, c, unread)
  PROVE  AllLines'
<1>1. EndsTyped(dcc)
  BY DEF LInv, IInv
<1>2. OthersOK(b, dcc, Nothing)
  BY DEF OthersOK
<1>3. \A d \in Ends(b) : Nothing[d] = <<>>
  BY PeerFacts DEF Nothing
<1>4. \A d \in Ends(b) : AllPlain(Nothing[d])
  BY <1>3, PlainLines
<1>5. ASSUME NEW d \in Ends(b) \ {c}, dcc[b][d] # "none"
      PROVE  /\ dcc[b][d] \in CallerTypes => unread[d] = <<>>
             /\ ReadsOn(b, d, unread[d])
  BY <1>5 DEF ReadsAside, ReadsOn, LInv, AllLines, QuietEnds
<1> QED  BY <1>1, <1>2, <1>3, <1>4, <1>5, NothingOK, DropLinkLines

LEMMA BotByeLines ==
  ASSUME LInv, NEW b \in Bots, NEW c \in Ends(b), BotBye(b, c) \/ PingTimeout(b, c)
  PROVE  AllLines'
<1>1. dcc[b][c] = "bot" /\ DropLink(b, c, <<>>, dcc, Inbox(b), Nothing)
  BY DEF BotBye, PingTimeout, Next1
<1>2. ReadsAside(b, c, Inbox(b))
  <2>1. \A d \in Ends(b) : Inbox(b)[d] = wire[d][b]
    BY PeerFacts DEF Inbox
  <2> QED  BY <2>1 DEF ReadsAside
<1> QED  BY <1>1, <1>2, PlainDropLines

LEMMA ContLinkLines ==
  ASSUME LInv, NEW b \in Bots, NEW c \in Ends(b), ContLink(b, c)
  PROVE  AllLines'
<1> DEFINE lost0  == {d \in Ends(b) \ {c} : /\ <<b, Peer(d, b)>> \in Alt
                                           /\ dcc[b][d] \in {"fork", "new"}}
           lost1  == IF <<b, Peer(c, b)>> \in Hub THEN lost0 ELSE {}
           route1 == IF <<b, Peer(c, b)>> \in Hub THEN NextBots(b, Peer(c, b)) ELSE {}
<1>1. PICK x : x = Peer(c, b)
  OBVIOUS
<1>2. PICK lost : lost = lost1
  OBVIOUS
<1>3. PICK ends : ends = CallAccepted(b, c, x, lost)
  OBVIOUS
<1>4. PICK sent : sent = SendOn({c}, <<Id>>)
  OBVIOUS
<1>5. /\ dcc[b][c] = "fork"
      /\ \/ Commit(b, tandbot[b], ends, Inbox(b), sent)
         \/ \E d \in NextBots(b, x) : DropLink(b, d, <<Bye>>, ends, Inbox(b), sent)
  BY <1>1, <1>2, <1>3, <1>4 DEF ContLink, CallAccepted
<1>6. /\ lost \subseteq Conns /\ c \notin lost
      /\ \A d \in lost : dcc[b][d] \in {"fork", "new"}
  BY <1>2 DEF Ends
<1>7. IInv /\ EndsTyped(dcc) /\ \A d \in Ends(b) : d \in Conns
  BY PeerFacts DEF LInv, IInv
<1> HIDE DEF lost0, lost1, route1
<1>8. /\ c \in Conns /\ x \in Bots /\ x # b /\ dcc[x][c] = "none"
      /\ ends \in [Bots -> [Conns -> DccTypes]]
      /\ \A y \in Bots : \A d \in Conns :
           ends[y][d] = IF y = b /\ d = c THEN "new"
                        ELSE IF y = x /\ d = c THEN "telnet"
                        ELSE IF y = b /\ d \in lost THEN "none" ELSE dcc[y][d]
  BY <1>1, <1>3, <1>5, <1>6, <1>7, AcceptedEnds
<1>9. \A d \in Ends(b) : sent[d] = IF d = c THEN <<Id>> ELSE <<>>
  BY <1>4, <1>7 DEF SendOn
<1>10. OthersOK(b, ends, sent)
  <2>0. \A d \in Ends(b) : Live(ends[b][d]) /\ ~Live(dcc[b][d]) => ends[Peer(d, b)][d] # "none"
    <3>1. \A d \in Ends(b) : Live(ends[b][d]) /\ ~Live(dcc[b][d]) => d = c
      BY <1>7, <1>8 DEF Live
    <3>2. ends[Peer(c, b)][c] # "none"
      BY <1>1, <1>8
    <3> QED  BY <3>1, <3>2
  <2> SUFFICES ASSUME NEW y \in Bots \ {b}, NEW d \in Conns
               PROVE  ends[y][d] = dcc[y][d] \/ Accepts(b, y, d, ends, sent)
    BY <2>0 DEF OthersOK
  <2>1. CASE y = x /\ d = c
    BY <1>1, <1>5, <1>8, <1>9, <2>1 DEF Accepts
  <2>2. CASE ~(y = x /\ d = c)
    BY <1>8, <2>2
  <2> QED  BY <2>1, <2>2
<1>11. \A d \in Ends(b) : ends[b][d] = IF d = c THEN "new" ELSE IF d \in lost THEN "none" ELSE dcc[b][d]
  BY <1>7, <1>8
<1>12. \A d \in Ends(b) : ends[b][d] # "none" => (ends[b][d] = "bot") = (dcc[b][d] = "bot")
  BY <1>5, <1>11
<1>13. \A d \in Ends(b) : AllPlain(sent[d])
  BY <1>9, PlainLines
<1>14. \A d \in Ends(b) : dcc[b][d] = "none" => sent[d] = <<>> /\ ends[b][d] = "none"
  BY <1>5, <1>9, <1>11
<1>15. \A d \in Ends(b) : ends[b][d] # "none" =>
         /\ ends[b][d] \in CallerTypes => Inbox(b)[d] = <<>>
         /\ ReadsOn(b, d, Inbox(b)[d])
  <2>1. ReadsLittle(b, Inbox(b))
    BY InboxReads
  <2> QED  BY <1>5, <1>11, <2>1, Types DEF ReadsLittle
<1>16. SentOK(b, sent)
  BY <1>4, LoginLinesOK
<1>17. CASE Commit(b, tandbot[b], ends, Inbox(b), sent)
  <2>1. SameLinks(b, ends)
    BY <1>12 DEF SameLinks
  <2> QED  BY <1>10, <1>13, <1>14, <1>15, <1>16, <1>17, <2>1, QuietLines
<1>18. CASE \E d \in NextBots(b, x) : DropLink(b, d, <<Bye>>, ends, Inbox(b), sent)
  <2>1. PICK d \in NextBots(b, x) : DropLink(b, d, <<Bye>>, ends, Inbox(b), sent)
    BY <1>18
  <2>2. d \in Ends(b) /\ dcc[b][d] = "bot"
    BY <1>7, RouteFacts DEF BotEnds
  <2>3. EndsTyped(ends)
    <3>1. c \in Ends(x)
      BY <1>1, PeerFacts
    <3>2. \A y \in Bots : \A e \in Conns \ Ends(y) : ends[y][e] = "none"
      BY <1>7, <1>8, <3>1 DEF EndsTyped
    <3> QED  BY <1>8, <3>2 DEF EndsTyped
  <2>4. \A e \in Ends(b) : dcc[b][e] = "dupwait" => ends[b][e] = "dupwait"
    BY <1>5, <1>6, <1>11
  <2> QED  BY <1>10, <1>12, <1>13, <1>14, <1>15, <1>16, <2>1, <2>2, <2>3, <2>4, DropLinkLines
<1> QED  BY <1>5, <1>17, <1>18

-----------------------------------------------------------------------------
(* News                                                                    *)

\* The first line on a link is justified: the parent of a new bot, or the bot that goes, was heard
\* over this link.
LEMMA NewsJustified ==
  ASSUME LInv, NEW b \in Bots, NEW c \in Ends(b), Next1(b, c), NEW m, m = Head(wire[c][b])
  PROVE  /\ m.cmd = "n" => c \in NextBots(b, m.up)
         /\ m.cmd = "un" => c \in NextBots(b, m.bot)
<1>1. PICK q : q = wire[c][b]
  OBVIOUS
<1>2. PICK v : v = Via(tandbot[b], Peer(c, b))
  OBVIOUS
<1>3. dcc[b][c] = "bot" /\ q # <<>> /\ c \in Conns /\ q \in Seq(Messages) /\ m = Head(q)
  BY <1>1, PeerFacts DEF Next1, LInv, IInv
<1>4. \E known \in BOOLEAN : \E w : LineOK(q, "bot", tandbot[b], Peer(c, b), b, known, w)
  <2>1. PICK known \in BOOLEAN : known = (dcc[Peer(c, b)][c] # "none")
    OBVIOUS
  <2> QED  BY <1>1, <1>3, <2>1 DEF LInv, AllLines, Lines
<1>5. PICK u : Turns(q, 0, v, u)
  BY <1>2, <1>4 DEF LineOK, Leads
<1>6. PICK w : Told(v, m, w)
  BY <1>3, <1>5, TurnsHead
<1>7. \A x \in DOMAIN v : c \in NextBots(b, x)
  BY <1>2, <1>3 DEF Via, NextBots, Links
<1> QED  BY <1>6, <1>7 DEF Told

\* The reader's list follows the line it has read.
LEMMA NewsRead ==
  ASSUME NEW S, NEW q \in Seq(S), q # <<>>, NEW t, NEW u, NEW p, NEW b, NEW known \in BOOLEAN, NEW w,
         LineOK(q, "bot", t, p, b, known, w), \A x : Told(Via(t, p), Head(q), x) => x = Via(u, p)
  PROVE  LineOK(Tail(q), "bot", u, p, b, known, w)
<1>1. PICK y : Turns(q, 0, Via(t, p), y) /\ (known => y = w)
  BY DEF LineOK, Leads
<1>2. PICK x : Told(Via(t, p), Head(q), x) /\ Turns(Tail(q), 0, x, y)
  BY <1>1, TurnsHead
<1> QED  BY <1>1, <1>2 DEF LineOK, Leads

\* News m, read on c, goes to every other link, and otherwise nothing is said of the net.
SpreadsNews(b, c, m, sent) ==
  \A d \in Ends(b) :
    IF dcc[b][d] = "none" THEN sent[d] = <<>>
    ELSE \E e : AllPlain(e) /\ sent[d] = IF dcc[b][d] = "bot" /\ d # c THEN <<m>> \o e ELSE e

\* List u is what m makes of b's list: for the other neighbours as they are told, for the one it
\* came from as it has told.
FollowsNews(b, c, m, u) ==
  /\ \A x : Told(Via(tandbot[b], Peer(c, b)), m, x) => x = Via(u, Peer(c, b))
  /\ \A d \in Ends(b) : dcc[b][d] = "bot" =>
       IF d = c THEN Shown(b, Peer(d, b), tandbot[b], "bot") = Shown(b, Peer(d, b), u, "bot")
       ELSE /\ Told(Shown(b, Peer(d, b), tandbot[b], "bot"), m, Shown(b, Peer(d, b), u, "bot"))
            /\ Via(u, Peer(d, b)) = Via(tandbot[b], Peer(d, b))

LEMMA NewsLines ==
  ASSUME LInv, NEW b \in Bots, NEW c \in Ends(b), Next1(b, c), NEW m, m = Head(wire[c][b]), m \notin {Version, EOF},
         NEW u, NEW ends, NEW sent, Commit(b, u, ends, Consumed(b, c), sent), SentOK(b, sent),
         \A x \in Bots \ {b} : ends[x] = dcc[x],
         \A d \in Ends(b) : /\ ends[b][d] = "none" <=> dcc[b][d] = "none"
                            /\ ends[b][d] = "bot" <=> dcc[b][d] = "bot"
                            /\ ends[b][d] \in CallerTypes <=> dcc[b][d] \in CallerTypes,
         SpreadsNews(b, c, m, sent), FollowsNews(b, c, m, u)
  PROVE  AllLines'
<1>1. OthersOK(b, ends, sent)
  BY DEF OthersOK, Live
<1>2. /\ dcc[b][c] = "bot" /\ wire[c][b] # <<>> /\ c \in Conns
      /\ wire[c][b] \in Seq(Messages) /\ m \in Messages
  <2>1. c \in Conns /\ wire[c][b] \in Seq(Messages)
    BY PeerFacts DEF LInv, IInv
  <2> QED  BY <2>1 DEF Next1
<1>3. TellsOK(b, u, ends, sent)
  <2> SUFFICES ASSUME NEW d \in Ends(b), dcc[b][d] # "none"
               PROVE  \E w : /\ Tells(sent[d], Shown(b, Peer(d, b), tandbot[b], dcc[b][d]), w)
                             /\ ends[b][d] # "none" => w = Shown(b, Peer(d, b), u, ends[b][d])
    BY TellsKeeps DEF SpreadsNews
  <2>1. PICK v : v = Shown(b, Peer(d, b), tandbot[b], dcc[b][d])
    OBVIOUS
  <2>2. PICK w : w = Shown(b, Peer(d, b), u, ends[b][d])
    OBVIOUS
  <2>3. PICK e : AllPlain(e) /\ sent[d] = IF dcc[b][d] = "bot" /\ d # c THEN <<m>> \o e ELSE e
    BY DEF SpreadsNews
  <2>4. CASE dcc[b][d] = "bot" /\ d # c
    <3>1. Told(v, m, w)
      BY <2>1, <2>2, <2>4 DEF FollowsNews
    <3>2. Tells(<<m>> \o e, v, w)
      BY <1>2, <2>3, <3>1, OneTells, TellsMore
    <3>3. Tells(sent[d], v, w)
      BY <2>3, <2>4, <3>2
    <3> QED  BY <2>1, <2>2, <3>3
  <2>5. CASE ~(dcc[b][d] = "bot" /\ d # c)
    <3>1. v = w
      <4>1. CASE d = c
        BY <1>2, <2>1, <2>2, <4>1 DEF FollowsNews
      <4>2. CASE dcc[b][d] # "bot"
        BY <2>1, <2>2, <4>2 DEF Shown
      <4> QED  BY <2>5, <4>1, <4>2
    <3>2. Tells(sent[d], v, v)
      BY <2>3, <2>5, PlainTells
    <3> QED  BY <2>1, <2>2, <3>1, <3>2
  <2> QED  BY <2>4, <2>5
<1>4. ReadsOK(b, u, ends, Consumed(b, c))
  <2> SUFFICES ASSUME NEW d \in Ends(b), ends[b][d] # "none"
               PROVE  /\ ends[b][d] \in CallerTypes => Consumed(b, c)[d] = <<>>
                      /\ ReadsLine(b, d, Consumed(b, c)[d])
                      /\ \A known \in BOOLEAN : \A w :
                           LineOK(wire[d][b], dcc[b][d], tandbot[b], Peer(d, b), b, known, w)
                             => LineOK(Consumed(b, c)[d], ends[b][d], u, Peer(d, b), b, known, w)
    BY DEF ReadsOK
  <2>1. d \in Conns /\ Consumed(b, c)[d] = IF d = c THEN Tail(wire[c][b]) ELSE wire[d][b]
    BY <1>2, PeerFacts, ConsumedIs
  <2>0. ReadsLine(b, d, Consumed(b, c)[d])
    BY <1>2, <2>1 DEF ReadsLine
  <2>2. CASE d = c
    <3>1. ends[b][d] = "bot" /\ ends[b][d] \notin CallerTypes
      BY <1>2, <2>2, Types
    <3>2. \A x : Told(Via(tandbot[b], Peer(c, b)), Head(wire[c][b]), x) => x = Via(u, Peer(c, b))
      BY DEF FollowsNews
    <3> QED  BY <1>2, <2>0, <2>1, <2>2, <3>1, <3>2, NewsRead
  <2>3. CASE d # c
    <3>1. ReadsOn(b, d, Consumed(b, c)[d])
      BY <2>1, <2>3 DEF ReadsOn
    <3>2. dcc[b][d] = "bot" => Via(u, Peer(d, b)) = Via(tandbot[b], Peer(d, b))
      BY <2>3 DEF FollowsNews
    <3>3. ends[b][d] \in CallerTypes => Consumed(b, c)[d] = <<>>
      BY <2>1, <2>3 DEF LInv, AllLines, QuietEnds
    <3>4. (ends[b][d] = "bot") = (dcc[b][d] = "bot")
      OBVIOUS
    <3> QED  BY <2>0, <3>1, <3>2, <3>3, <3>4, ReadOnKeeps
  <2> QED  BY <2>2, <2>3
<1> QED  BY <1>1, <1>3, <1>4, CommitLines

LEMMA ConsumedAside ==
  ASSUME NEW b \in Bots, NEW c \in Ends(b)
  PROVE  ReadsAside(b, c, Consumed(b, c))
<1>1. \A d \in Ends(b) : Consumed(b, c)[d] = IF d = c THEN Tail(wire[c][b]) ELSE wire[d][b]
  BY PeerFacts, ConsumedIs
<1> QED  BY <1>1 DEF ReadsAside

\* Of the messages only n says that a bot is new.
LEMMA NewsIs ==
  ASSUME NEW m \in Messages
  PROVE  /\ m.cmd = "n" => m = N(m.bot, m.up)
         /\ m.cmd = "un" => m = Un(m.bot)
         /\ m.cmd \in {"n", "un"} => m \notin {Version, EOF}
BY DEF Messages, Id, Passreq, Digest, Hello, Version, Bye, EOF, N, Un, Rej, Ul

LEMMA BotNlinkedLines ==
  ASSUME LInv, NEW b \in Bots, NEW c \in Ends(b), BotNlinked(b, c)
  PROVE  AllLines'
<1>1. PICK m : m = Head(wire[c][b])
  OBVIOUS
<1>2. PICK K : K = IF <<b, m.bot>> \in Reject THEN {c} ELSE {}
  OBVIOUS
<1>3. PICK sent : sent = SendBut(b, {c}, <<m>>) ++ SendOn(K, <<Rej(b, m.bot)>>)
  OBVIOUS
<1>4. PICK t : t = tandbot[b]
  OBVIOUS
<1>5. PICK u : u = WithBot(t, m.bot, Peer(c, b), m.up)
  OBVIOUS
<1>6. IInv /\ Next1(b, c) /\ m.cmd = "n" /\ dcc[b][c] = "bot" /\ \A d \in Ends(b) : d \in Conns
  BY <1>1, PeerFacts DEF BotNlinked, Next1, LInv
<1>7. m \in Messages /\ m.bot \in Bots /\ m.up \in Bots /\ m = N(m.bot, m.up) /\ m \notin {Version, EOF}
  BY <1>1, <1>6, HeardFacts, MsgShapes, NewsIs
<1>8. \/ DropLink(b, c, <<Bye>>, dcc, Consumed(b, c), Nothing)
      \/ ~Loop(b, m) /\ Commit(b, u, dcc, Consumed(b, c), sent)
  BY <1>1, <1>2, <1>3, <1>4, <1>5 DEF BotNlinked
<1>9. CASE DropLink(b, c, <<Bye>>, dcc, Consumed(b, c), Nothing)
  BY <1>6, <1>9, ConsumedAside, PlainDropLines
<1>10. CASE ~Loop(b, m) /\ Commit(b, u, dcc, Consumed(b, c), sent)
  <2>1. m.bot # b /\ m.bot \notin DOMAIN t
    BY <1>4, <1>10 DEF Loop, InChain
  <2>2. m.up \in DOMAIN t /\ t[m.up].via = Peer(c, b)
    BY <1>1, <1>4, <1>6, NewsJustified, RouteFacts
  <2>3. /\ ListType(b, t) /\ b \notin DOMAIN t
        /\ \A d \in Ends(b) : dcc[b][d] = "bot" /\ d # c => Peer(d, b) # Peer(c, b)
    BY <1>4, <1>6, LinkFacts DEF ListType
  <2>4. \A d \in Ends(b) : sent[d] = (IF dcc[b][d] = "bot" /\ d # c THEN <<m>> ELSE <<>>)
                                       \o (IF d \in K THEN <<Rej(b, m.bot)>> ELSE <<>>)
    <3> SUFFICES ASSUME NEW d \in Ends(b)
                 PROVE  sent[d] = (IF dcc[b][d] = "bot" /\ d # c THEN <<m>> ELSE <<>>)
                                    \o (IF d \in K THEN <<Rej(b, m.bot)>> ELSE <<>>)
      OBVIOUS
    <3>1. SendBut(b, {c}, <<m>>)[d] = IF dcc[b][d] = "bot" /\ d # c THEN <<m>> ELSE <<>>
      BY <1>6 DEF SendBut, Links
    <3>2. SendOn(K, <<Rej(b, m.bot)>>)[d] = IF d \in K THEN <<Rej(b, m.bot)>> ELSE <<>>
      BY <1>6 DEF SendOn
    <3>3. sent[d] = SendBut(b, {c}, <<m>>)[d] \o SendOn(K, <<Rej(b, m.bot)>>)[d]
      BY <1>3, <1>6, PlusIs
    <3> QED  BY <3>1, <3>2, <3>3
  <2>5. SpreadsNews(b, c, m, sent)
    <3> SUFFICES ASSUME NEW d \in Ends(b)
                 PROVE  IF dcc[b][d] = "none" THEN sent[d] = <<>>
                        ELSE \E e : /\ AllPlain(e)
                                    /\ sent[d] = IF dcc[b][d] = "bot" /\ d # c THEN <<m>> \o e ELSE e
      BY DEF SpreadsNews
    <3>1. PICK e : e = IF d \in K THEN <<Rej(b, m.bot)>> ELSE <<>>
      OBVIOUS
    <3>2. AllPlain(e) /\ (dcc[b][d] = "none" => e = <<>>)
      BY <1>2, <1>6, <1>7, <3>1, PlainLines
    <3>3. <<>> \o e = e
      BY <3>2 DEF AllPlain
    <3>4. sent[d] = IF dcc[b][d] = "bot" /\ d # c THEN <<m>> \o e ELSE e
      BY <2>4, <3>1, <3>3
    <3> QED  BY <3>2, <3>4
  <2>6. FollowsNews(b, c, m, u)
    <3>1. ASSUME NEW x, Told(Via(t, Peer(c, b)), m, x) PROVE x = Via(u, Peer(c, b))
      BY <1>5, <1>6, <2>1, <3>1, ViaWithBot DEF Told
    <3>2. ASSUME NEW d \in Ends(b), dcc[b][d] = "bot"
          PROVE  IF d = c THEN Shown(b, Peer(d, b), t, "bot") = Shown(b, Peer(d, b), u, "bot")
                 ELSE /\ Told(Shown(b, Peer(d, b), t, "bot"), m, Shown(b, Peer(d, b), u, "bot"))
                      /\ Via(u, Peer(d, b)) = Via(t, Peer(d, b))
      <4>1. PICK x : x = Peer(d, b)
        OBVIOUS
      <4>2. CASE d = c
        BY <1>5, <2>1, <2>3, <4>2, ShownWithBot
      <4>3. CASE d # c
        <5>1. x # Peer(c, b)
          BY <2>3, <3>2, <4>1, <4>3
        <5>2. Told(Shown(b, x, t, "bot"), N(m.bot, m.up), Shown(b, x, u, "bot"))
          BY <1>5, <2>1, <2>2, <2>3, <5>1, ShownWithBot
        <5>3. Via(u, x) = Via(t, x)
          BY <1>5, <2>1, <5>1, ViaWithBot
        <5> QED  BY <1>7, <4>1, <4>3, <5>2, <5>3
      <4> QED  BY <4>2, <4>3
    <3> QED  BY <1>4, <3>1, <3>2 DEF FollowsNews
  <2>7. SentOK(b, sent)
    <3>1. m \in MsgFrom(b) /\ Rej(b, m.bot) \in MsgFrom(b)
      BY <1>6, <1>7, MsgTypes DEF MsgFrom
    <3> QED  BY <1>3, <3>1, SendLineOK, SendBothOK
  <2> QED  BY <1>1, <1>6, <1>7, <1>10, <2>5, <2>6, <2>7, NewsLines
<1> QED  BY <1>8, <1>9, <1>10

LEMMA BotUnlinkedLines ==
  ASSUME LInv, NEW b \in Bots, NEW c \in Ends(b), BotUnlinked(b, c)
  PROVE  AllLines'
<1>1. PICK m : m = Head(wire[c][b])
  OBVIOUS
<1>2. PICK x : x = m.bot
  OBVIOUS
<1>3. PICK t : t = tandbot[b]
  OBVIOUS
<1>4. PICK R : R = Subtree(t, {x})
  OBVIOUS
<1>5. PICK u : u = Without(t, R)
  OBVIOUS
<1>6. IInv /\ Next1(b, c) /\ m.cmd = "un" /\ dcc[b][c] = "bot" /\ \A d \in Ends(b) : d \in Conns
  BY <1>1, PeerFacts DEF BotUnlinked, Next1, LInv
<1>7. m \in Messages /\ x \in Bots /\ x # Peer(c, b) /\ m = Un(x) /\ m \notin {Version, EOF}
  <2>1. m \in MsgFrom(Peer(c, b)) /\ m \in Messages
    BY <1>1, <1>6, HeardFacts
  <2> QED  BY <1>2, <1>6, <2>1, MsgShapes, NewsIs DEF MsgFrom
<1>8. c \in NextBots(b, x)
  BY <1>1, <1>2, <1>6, NewsJustified
<1>9. PICK S \in Resumable(b, R) :
        Commit(b, u, SetEnds(dcc, b, S, "pass"), Consumed(b, c),
               SendBut(b, {c}, <<Un(x)>>) ++ SendOn(S, <<Passreq>>))
  BY <1>1, <1>2, <1>3, <1>4, <1>5, <1>8 DEF BotUnlinked
<1>10. PICK sent : sent = SendBut(b, {c}, <<m>>) ++ SendOn(S, Challenge)
  OBVIOUS
<1>11. PICK f : f = SetEnds(dcc, b, S, "pass")
  OBVIOUS
<1>12. EndsTyped(dcc) /\ S \subseteq Ends(b) /\ \A d \in S : dcc[b][d] = "dupwait"
  BY <1>6 DEF Resumable, IInv, EndsTyped
<1>13. /\ \A y \in Bots \ {b} : f[y] = dcc[y]
       /\ \A d \in Conns : f[b][d] = IF d \in S THEN "pass" ELSE dcc[b][d]
  BY <1>11, <1>12, Types, SetEndsTyped
<1>14. /\ ListType(b, t) /\ OrderOK(t) /\ ParentsOK(b, t)
       /\ x \in DOMAIN t /\ t[x].via = Peer(c, b)
       /\ \A d \in Ends(b) : dcc[b][d] = "bot" => Peer(d, b) \in DOMAIN t /\ t[Peer(d, b)].via = Peer(d, b)
       /\ \A d \in Ends(b) : dcc[b][d] = "bot" /\ d # c => Peer(d, b) # Peer(c, b)
  BY <1>3, <1>6, <1>8, LinkFacts, RouteFacts
<1>15. \A d \in Ends(b) : /\ f[b][d] = "none" <=> dcc[b][d] = "none"
                          /\ f[b][d] = "bot" <=> dcc[b][d] = "bot"
                          /\ f[b][d] \in CallerTypes <=> dcc[b][d] \in CallerTypes
  BY <1>6, <1>12, <1>13, Types
<1>16. \A d \in Ends(b) : sent[d] = (IF dcc[b][d] = "bot" /\ d # c THEN <<m>> ELSE <<>>) \o OnlyIn(S, Challenge, d)
  <2> SUFFICES ASSUME NEW d \in Ends(b)
               PROVE  sent[d] = (IF dcc[b][d] = "bot" /\ d # c THEN <<m>> ELSE <<>>) \o OnlyIn(S, Challenge, d)
    OBVIOUS
  <2>1. SendBut(b, {c}, <<m>>)[d] = IF dcc[b][d] = "bot" /\ d # c THEN <<m>> ELSE <<>>
    BY <1>6 DEF SendBut, Links
  <2>2. SendOn(S, Challenge)[d] = OnlyIn(S, Challenge, d)
    BY <1>6 DEF SendOn, OnlyIn
  <2>3. sent[d] = SendBut(b, {c}, <<m>>)[d] \o SendOn(S, Challenge)[d]
    BY <1>6, <1>10, PlusIs
  <2> QED  BY <2>1, <2>2, <2>3
<1>17. SpreadsNews(b, c, m, sent)
  <2> SUFFICES ASSUME NEW d \in Ends(b)
               PROVE  IF dcc[b][d] = "none" THEN sent[d] = <<>>
                      ELSE \E e : /\ AllPlain(e)
                                  /\ sent[d] = IF dcc[b][d] = "bot" /\ d # c THEN <<m>> \o e ELSE e
    BY DEF SpreadsNews
  <2>1. PICK e : e = OnlyIn(S, Challenge, d)
    OBVIOUS
  <2>2. AllPlain(e) /\ (dcc[b][d] = "none" => e = <<>>)
    BY <1>12, <2>1, PlainLines DEF OnlyIn, Challenge
  <2>3. <<>> \o e = e
    BY <2>2 DEF AllPlain
  <2>4. sent[d] = IF dcc[b][d] = "bot" /\ d # c THEN <<m>> \o e ELSE e
    BY <1>16, <2>1, <2>3
  <2> QED  BY <2>2, <2>4
<1>18. FollowsNews(b, c, m, u)
  <2>1. ASSUME NEW y, Told(Via(t, Peer(c, b)), m, y) PROVE y = Via(u, Peer(c, b))
    <3>1. y = Less1(Via(t, Peer(c, b)), x)
      BY <1>2, <1>6, <2>1 DEF Told
    <3>2. Via(u, Peer(c, b)) = Less1(Via(t, Peer(c, b)), x)
      BY <1>4, <1>5, <1>14, ViaWithout
    <3> QED  BY <3>1, <3>2
  <2>2. ASSUME NEW d \in Ends(b), dcc[b][d] = "bot"
        PROVE  IF d = c THEN Shown(b, Peer(d, b), t, "bot") = Shown(b, Peer(d, b), u, "bot")
               ELSE /\ Told(Shown(b, Peer(d, b), t, "bot"), m, Shown(b, Peer(d, b), u, "bot"))
                    /\ Via(u, Peer(d, b)) = Via(t, Peer(d, b))
    <3>1. PICK y : y = Peer(d, b)
      OBVIOUS
    <3>2. y \in DOMAIN t /\ t[y].via = y
      BY <1>14, <2>2, <3>1
    <3>3. CASE d = c
      <4>1. Shown(b, y, t, "bot") = Shown(b, y, u, "bot")
        BY <1>4, <1>5, <1>14, <3>1, <3>2, <3>3, ShownWithout
      <4> QED  BY <3>1, <3>3, <4>1
    <3>4. CASE d # c
      <4>1. y # Peer(c, b)
        BY <1>14, <2>2, <3>1, <3>4
      <4>2. Told(Shown(b, y, t, "bot"), Un(x), Shown(b, y, u, "bot"))
        BY <1>4, <1>5, <1>14, <3>2, <4>1, ShownWithout
      <4>3. Via(u, y) = Via(t, y)
        BY <1>4, <1>5, <1>14, <4>1, ViaWithout
      <4> QED  BY <1>7, <3>1, <3>4, <4>2, <4>3
    <3> QED  BY <3>3, <3>4
  <2> QED  BY <1>3, <2>1, <2>2 DEF FollowsNews
<1>19. SentOK(b, sent)
  <2>1. x # b
    BY <1>14 DEF ListType
  <2>2. m \in MsgFrom(b) /\ Passreq \in MsgFrom(b)
    BY <1>7, <2>1, MsgTypes
  <2> QED  BY <1>10, <2>2, SendLineOK, SendBothOK DEF Challenge
<1>20. Commit(b, u, f, Consumed(b, c), sent)
  BY <1>7, <1>9, <1>10, <1>11 DEF Challenge
<1> QED  BY <1>1, <1>6, <1>7, <1>13, <1>15, <1>17, <1>18, <1>19, <1>20, NewsLines

LEMMA BotRejectLines ==
  ASSUME LInv, NEW b \in Bots, NEW c \in Ends(b), BotReject(b, c)
  PROVE  AllLines'
<1>1. PICK m : m = Head(wire[c][b])
  OBVIOUS
<1>2. IInv /\ Next1(b, c) /\ m.cmd = "r" /\ dcc[b][c] = "bot" /\ wire[c][b] # <<>>
  BY <1>1 DEF BotReject, Next1, LInv
<1>3. m \in Messages /\ \A d \in Ends(b) : d \in Conns
  BY <1>1, <1>2, HeardFacts, PeerFacts
<1>4. \/ Commit(b, tandbot[b], dcc, Consumed(b, c), Nothing)
      \/ \E d \in NextBots(b, m.bot) :
           \/ DropLink(b, d, <<Bye>>, dcc, Consumed(b, c), Nothing)
           \/ Commit(b, tandbot[b], dcc, Consumed(b, c), SendOn({d}, <<m>>))
  BY <1>1 DEF BotReject
<1>5. ReadsLittle(b, Consumed(b, c))
  <2>1. Head(wire[c][b]).cmd \notin {"n", "un"} /\ Head(wire[c][b]) # EOF
    BY <1>1, <1>2 DEF EOF
  <2> QED  BY <1>2, <2>1, ConsumedReads
<1>6. CASE Commit(b, tandbot[b], dcc, Consumed(b, c), Nothing)
  <2>1. SaysLittle(b, Nothing)
    BY NothingSays
  <2> QED  BY <1>5, <1>6, <2>1, NothingOK, SameEnds, LoginLines
<1>7. ASSUME NEW d \in NextBots(b, m.bot), DropLink(b, d, <<Bye>>, dcc, Consumed(b, c), Nothing)
      PROVE  AllLines'
  <2>1. d \in Ends(b) /\ dcc[b][d] = "bot"
    BY <1>2, RouteFacts DEF BotEnds
  <2>2. ReadsAside(b, d, Consumed(b, c))
    <3>1. \A e \in Ends(b) : Consumed(b, c)[e] = IF e = c THEN Tail(wire[c][b]) ELSE wire[e][b]
      BY <1>3, ConsumedIs
    <3>2. dcc[b][c] \notin CallerTypes
      BY <1>2, Types
    <3> QED  BY <1>5, <3>1, <3>2 DEF ReadsAside, ReadsLittle
  <2> QED  BY <1>7, <2>1, <2>2, PlainDropLines
<1>8. ASSUME NEW d \in NextBots(b, m.bot), Commit(b, tandbot[b], dcc, Consumed(b, c), SendOn({d}, <<m>>))
      PROVE  AllLines'
  <2>1. m \in MsgFrom(b)
    BY <1>2, <1>3 DEF MsgFrom
  <2>2. SentOK(b, SendOn({d}, <<m>>))
    BY <2>1, SendLineOK
  <2>3. AllPlain(<<m>>)
    BY <1>2, <1>3 DEF AllPlain, Plain
  <2>4. SaysLittle(b, SendOn({d}, <<m>>))
    <3>1. dcc[b][d] = "bot"
      BY <1>2, RouteFacts DEF BotEnds
    <3>2. \A e \in {d} \cap Ends(b) : dcc[b][e] # "none"
      BY <3>1
    <3> QED  BY <2>3, <3>2, SendsLittle
  <2> QED  BY <1>5, <1>8, <2>2, <2>4, SameEnds, LoginLines
<1> QED  BY <1>4, <1>6, <1>7, <1>8

-----------------------------------------------------------------------------
(* A new link, an operator's unlink, a shutdown                            *)

LEMMA DumpIsNews ==
  ASSUME NEW t, IsFiniteSet(DOMAIN t)
  PROVE  \A k \in 1..Len(DumpLinks(t)) : DumpLinks(t)[k] # Version
<1>1. PICK n : n = Cardinality(DOMAIN t)
  OBVIOUS
<1>2. n \in Nat
  BY <1>1, FS_CardinalityType
<1>3. PICK who : who = [k \in 1..n |-> CHOOSE y \in DOMAIN t : Cardinality(t[y].before) = k - 1]
  OBVIOUS
<1>4. DumpLinks(t) = [k \in 1..n |-> N(who[k], t[who[k]].uplink)]
  BY <1>1, <1>3 DEF DumpLinks
<1>5. Len(DumpLinks(t)) = n /\ \A k \in 1..n : DumpLinks(t)[k].cmd = "n"
  BY <1>2, <1>4 DEF N
<1>6. Version.cmd # "n"
  BY DEF Version
<1> QED  BY <1>5, <1>6

LEMMA BotVersionLines ==
  ASSUME LInv, NEW b \in Bots, NEW c \in Ends(b), BotVersion(b, c)
  PROVE  AllLines'
<1>1. PICK x : x = Peer(c, b)
  OBVIOUS
<1>2. PICK t : t = tandbot[b]
  OBVIOUS
<1>3. PICK u : u = WithBot(t, x, x, b)
  OBVIOUS
<1>4. PICK f : f = SetEnds(dcc, b, {c}, "bot")
  OBVIOUS
<1>5. PICK sent : sent = SendBut(b, {c}, <<N(x, b)>>) ++ SendOn({c}, DumpLinks(t))
  OBVIOUS
<1>6. /\ dcc[b][c] = "new" /\ wire[c][b] # <<>> /\ Head(wire[c][b]) = Version
      /\ \/ Commit(b, tandbot[b], SetEnds(dcc, b, {c}, "none"), Consumed(b, c), SendOn({c}, <<Bye>>))
         \/ ~InChain(b, x) /\ Commit(b, u, f, Consumed(b, c), sent)
  BY <1>1, <1>2, <1>3, <1>4, <1>5 DEF BotVersion, Reads, Closed
<1>7. /\ IInv /\ EndsTyped(dcc) /\ c \in Conns /\ x \in Bots \ {b} /\ Version # EOF
      /\ \A d \in Ends(b) : d \in Conns /\ wire[d][b] \in Seq(Messages)
  BY <1>1, PeerFacts, NotTheEnd DEF LInv, IInv
<1>8. CASE Commit(b, tandbot[b], SetEnds(dcc, b, {c}, "none"), Consumed(b, c), SendOn({c}, <<Bye>>))
  <2>1. EndsMove(b, SetEnds(dcc, b, {c}, "none"))
    BY <1>6, MoveEnds
  <2>2. SaysLittle(b, SendOn({c}, <<Bye>>))
    BY <1>6, PlainLines, SendsLittle
  <2>3. ReadsLittle(b, Consumed(b, c))
    BY <1>6, <1>7, ConsumedReads
  <2>4. SentOK(b, SendOn({c}, <<Bye>>))
    BY LoginLinesOK
  <2> QED  BY <1>8, <2>1, <2>2, <2>3, <2>4, LoginLines
<1>9. CASE ~InChain(b, x) /\ Commit(b, u, f, Consumed(b, c), sent)
  <2>1. /\ \A y \in Bots \ {b} : f[y] = dcc[y]
        /\ \A d \in Conns : f[b][d] = IF d = c THEN "bot" ELSE dcc[b][d]
    BY <1>4, <1>7, Types, SetEndsTyped
  <2>2. /\ ListType(b, t) /\ OrderOK(t) /\ ParentsOK(b, t) /\ RoutesOK(b, t, dcc[b]) /\ b \notin DOMAIN t
        /\ IsFiniteSet(DOMAIN t) /\ DumpLinks(t) \in Seq(MsgFrom(b))
    <3>1. Good(b, t, dcc[b])
      BY <1>2, <1>7 DEF IInv
    <3>2. ListType(b, t)
      BY <3>1 DEF Good
    <3>3. DumpLinks(t) \in Seq(MsgFrom(b))
      BY <3>1, DumpLinksOK DEF Good
    <3>4. IsFiniteSet(DOMAIN t)
      BY <3>2, BotsAssumption, FS_Subset DEF ListType
    <3> QED  BY <3>1, <3>2, <3>3, <3>4 DEF Good, ListType
  <2>3. x \notin DOMAIN t /\ \A y \in DOMAIN t : t[y].via # x
    <3>1. x \notin DOMAIN t
      BY <1>2, <1>9 DEF InChain
    <3> QED  BY <2>2, <3>1 DEF RoutesOK, LinksListed
  <2>4. \A d \in Ends(b) : dcc[b][d] = "bot" => Peer(d, b) # x
    BY <2>2, <2>3 DEF RoutesOK, LinksListed
  <2>5. \A d \in Ends(b) : /\ d = c => sent[d] = DumpLinks(t)
                           /\ d # c => sent[d] = IF dcc[b][d] = "bot" THEN <<N(x, b)>> ELSE <<>>
    <3> SUFFICES ASSUME NEW d \in Ends(b)
                 PROVE  /\ d = c => sent[d] = DumpLinks(t)
                        /\ d # c => sent[d] = IF dcc[b][d] = "bot" THEN <<N(x, b)>> ELSE <<>>
      OBVIOUS
    <3>1. SendBut(b, {c}, <<N(x, b)>>)[d] = IF dcc[b][d] = "bot" /\ d # c THEN <<N(x, b)>> ELSE <<>>
      BY <1>7 DEF SendBut, Links
    <3>2. SendOn({c}, DumpLinks(t))[d] = IF d = c THEN DumpLinks(t) ELSE <<>>
      BY <1>7 DEF SendOn
    <3>3. sent[d] = SendBut(b, {c}, <<N(x, b)>>)[d] \o SendOn({c}, DumpLinks(t))[d]
      BY <1>5, <1>7, PlusIs
    <3>5. <<>> \o DumpLinks(t) = DumpLinks(t)
      BY <2>2
    <3>6. <<N(x, b)>> \o <<>> = <<N(x, b)>>
      OBVIOUS
    <3>7. <<>> \o <<>> = <<>>
      OBVIOUS
    <3>8. CASE d = c
      BY <3>1, <3>2, <3>3, <3>5, <3>8
    <3>9. CASE d # c
      BY <3>1, <3>2, <3>3, <3>6, <3>7, <3>9
    <3> QED  BY <3>8, <3>9
  <2>6. OthersOK(b, f, sent)
    <3>1. \A d \in Ends(b) : Live(f[b][d]) => Live(dcc[b][d])
      BY <1>6, <1>7, <2>1, Types DEF Live
    <3> QED  BY <2>1, <3>1 DEF OthersOK
  <2>7. SentOK(b, sent)
    <3>1. SentOK(b, SendBut(b, {c}, <<N(x, b)>>))
      BY <1>7, MsgTypes, SendLineOK
    <3>2. SentOK(b, SendOn({c}, DumpLinks(t)))
      BY <2>2, SendOnOK
    <3> QED  BY <1>5, <3>1, <3>2, SendBothOK
  <2>8. TellsOK(b, u, f, sent)
    <3> SUFFICES ASSUME NEW d \in Ends(b), dcc[Peer(d, b)][d] # "none"
                 PROVE  IF dcc[b][d] = "none" THEN sent[d] = <<>> /\ f[b][d] = "none"
                        ELSE \E w : /\ Tells(sent[d], Shown(b, Peer(d, b), tandbot[b], dcc[b][d]), w)
                                    /\ f[b][d] # "none" => w = Shown(b, Peer(d, b), u, f[b][d])
      BY TellsKeeps
    <3>1. PICK v : v = Shown(b, Peer(d, b), tandbot[b], dcc[b][d])
      OBVIOUS
    <3>2. PICK w : w = Shown(b, Peer(d, b), u, f[b][d])
      OBVIOUS
    <3>3. CASE d = c
      <4>1. v = Base(b, x) /\ w = Shown(b, x, u, "bot") /\ dcc[b][d] # "none"
        BY <1>1, <1>6, <1>7, <2>1, <3>1, <3>2, <3>3 DEF Shown
      <4>2. Turns(DumpLinks(t), 0, v, w)
        BY <1>3, <2>2, <2>3, <4>1, DumpShows
      <4>3. DumpLinks(t) \in Seq(Messages)
        <5>1. DumpLinks(t) \in Seq(MsgFrom(b)) /\ MsgFrom(b) \subseteq Messages
          BY <2>2 DEF MsgFrom
        <5> QED  BY <5>1, SeqMonotonic
      <4>4. Tells(DumpLinks(t), v, w)
        BY <2>2, <4>2, <4>3, DumpIsNews DEF Tells
      <4> QED  BY <2>5, <3>1, <3>2, <3>3, <4>1, <4>4
    <3>4. CASE d # c /\ dcc[b][d] = "bot"
      <4>1. f[b][d] = "bot"
        BY <1>7, <2>1, <3>4
      <4>2. Peer(d, b) # x
        BY <2>4, <3>4
      <4>3. Told(v, N(x, b), w)
        BY <1>2, <1>3, <1>7, <2>2, <2>3, <3>1, <3>2, <3>4, <4>1, <4>2, ShownWithBot
      <4>4. N(x, b) \in Messages /\ N(x, b) # Version
        <5>1. N(x, b).cmd = "n" /\ Version.cmd = "v"
          BY DEF N, Version
        <5>2. N(x, b) \in Messages
          BY <1>7 DEF Messages
        <5> QED  BY <5>1, <5>2
      <4>5. Tells(<<N(x, b)>>, v, w)
        BY <4>3, <4>4, OneTells
      <4> QED  BY <2>5, <3>1, <3>2, <3>4, <4>5
    <3>5. CASE d # c /\ dcc[b][d] # "bot"
      <4>1. f[b][d] = dcc[b][d] /\ sent[d] = <<>>
        BY <1>7, <2>1, <2>5, <3>5
      <4>2. v = w
        BY <3>1, <3>2, <3>5, <4>1 DEF Shown
      <4>3. Tells(<<>>, v, v)
        BY PlainLines, PlainTells
      <4> QED  BY <3>1, <3>2, <4>1, <4>2, <4>3
    <3> QED  BY <3>3, <3>4, <3>5
  <2>9. ReadsOK(b, u, f, Consumed(b, c))
    <3> SUFFICES ASSUME NEW d \in Ends(b), f[b][d] # "none"
                 PROVE  /\ f[b][d] \in CallerTypes => Consumed(b, c)[d] = <<>>
                        /\ ReadsLine(b, d, Consumed(b, c)[d])
                        /\ \A known \in BOOLEAN : \A w :
                             LineOK(wire[d][b], dcc[b][d], tandbot[b], Peer(d, b), b, known, w)
                               => LineOK(Consumed(b, c)[d], f[b][d], u, Peer(d, b), b, known, w)
      BY DEF ReadsOK
    <3>1. Consumed(b, c)[d] = IF d = c THEN Tail(wire[c][b]) ELSE wire[d][b]
      BY <1>7, ConsumedIs
    <3>0. ReadsLine(b, d, Consumed(b, c)[d])
      BY <1>6, <1>7, <3>1 DEF ReadsLine
    <3>2. CASE d = c
      <4>1. PICK q : q = wire[c][b]
        OBVIOUS
      <4>2. q \in Seq(Messages) /\ q # <<>> /\ 1 \in 1..Len(q) /\ q[1] = Version
        <5>1. q \in Seq(Messages) /\ q # <<>> /\ Head(q) = Version
          BY <1>6, <1>7, <4>1
        <5> QED  BY <5>1, LenProperties, EmptySeq, HeadTailProperties
      <4>3. Via(u, x) = Base(x, b)
        <5>1. {y \in DOMAIN t : t[y].via = x} = {}
          BY <2>3
        <5>2. Via(t, x) = [y \in {} |-> t[y].uplink]
          BY <5>1 DEF Via
        <5>3. Via(u, x) = With1(Via(t, x), x, b)
          BY <1>3, <2>3, ViaWithBot
        <5> QED  BY <5>2, <5>3 DEF With1, Base
      <4>4. ASSUME NEW known \in BOOLEAN, NEW w, LineOK(q, "new", t, x, b, known, w)
            PROVE  LineOK(Tail(q), "bot", u, x, b, known, w)
        <5>1. PICK y : Turns(q, 1, Base(x, b), y) /\ (known => y = w)
          BY <4>2, <4>4 DEF LineOK, Leads
        <5>2. Turns(Tail(q), 1 - 1, Base(x, b), y)
          BY <4>2, <5>1, TurnsTail
        <5> QED  BY <4>3, <5>1, <5>2 DEF LineOK, Leads
      <4>5. f[b][d] = "bot" /\ "bot" \notin CallerTypes /\ dcc[b][d] = "new"
        BY <1>6, <1>7, <2>1, <3>2, Types DEF CallerTypes
      <4> QED  BY <1>1, <1>2, <3>0, <3>1, <3>2, <4>1, <4>4, <4>5
    <3>3. CASE d # c
      <4>1. f[b][d] = dcc[b][d] /\ Consumed(b, c)[d] = wire[d][b]
        BY <1>7, <2>1, <3>1, <3>3
      <4>2. ReadsOn(b, d, Consumed(b, c)[d])
        BY <4>1 DEF ReadsOn
      <4>3. f[b][d] \in CallerTypes => Consumed(b, c)[d] = <<>>
        BY <4>1 DEF LInv, AllLines, QuietEnds
      <4>4. dcc[b][d] = "bot" => Via(u, Peer(d, b)) = Via(tandbot[b], Peer(d, b))
        BY <1>2, <1>3, <2>3, <2>4, ViaWithBot
      <4>5. (f[b][d] = "bot") = (dcc[b][d] = "bot")
        BY <4>1
      <4> QED  BY <3>0, <4>2, <4>3, <4>4, <4>5, ReadOnKeeps
    <3> QED  BY <3>2, <3>3
  <2> QED  BY <1>9, <2>6, <2>7, <2>8, <2>9, CommitLines
<1> QED  BY <1>6, <1>8, <1>9

LEMMA CmdUnlinkLines ==
  ASSUME LInv, NEW b \in Bots, NEW x \in Bots, CmdUnlink(b, x), LocalUnlink(b, x)
  PROVE  AllLines'
<1>1. Unlink(b, x, Inbox(b)) /\ IInv
  BY DEF CmdUnlink, LocalUnlink, LInv
<1>2. ~IsGhost(b, x)
  <2> SUFFICES ASSUME x \in DOMAIN tandbot[b] PROVE Unlinkable(b, x) # {}
    BY DEF IsGhost
  <2>1. PICK d \in Ends(b) : dcc[b][d] = "bot" /\ tandbot[b][x].via = Peer(d, b)
    BY <1>1 DEF IInv, Good, RoutesOK, LinksListed
  <2>2. d \in NextBots(b, x)
    BY <2>1, PeerFacts DEF NextBots, Links
  <2> QED  BY <2>1, <2>2 DEF LocalUnlink, Unlinkable
<1>3. PICK d \in Unlinkable(b, x) :
        IF dcc[b][d] = "bot"
        THEN DropLink(b, d, <<Bye>>, dcc, Inbox(b), Nothing)
        ELSE Commit(b, tandbot[b], SetEnds(dcc, b, {d}, "none"), Inbox(b), Nothing)
  BY <1>1, <1>2 DEF Unlink, Closed
<1>4. d \in Ends(b) /\ dcc[b][d] # "none"
  BY DEF Unlinkable
<1>5. CASE dcc[b][d] = "bot"
  <2>1. ReadsAside(b, d, Inbox(b))
    <3>1. \A e \in Ends(b) : Inbox(b)[e] = wire[e][b]
      BY PeerFacts DEF Inbox
    <3> QED  BY <3>1 DEF ReadsAside
  <2> QED  BY <1>3, <1>4, <1>5, <2>1, PlainDropLines
<1>6. CASE dcc[b][d] # "bot"
  <2>1. EndsMove(b, SetEnds(dcc, b, {d}, "none"))
    BY <1>4, <1>6, MoveEnds
  <2>2. SaysLittle(b, Nothing)
    BY NothingSays
  <2> QED  BY <1>3, <1>6, <2>1, <2>2, NothingOK, InboxReads, LoginLines
<1> QED  BY <1>5, <1>6

LEMMA DieLines ==
  ASSUME LInv, NEW b \in Bots, Die(b)
  PROVE  AllLines'
<1>1. PICK f : f = SetEnds(dcc, b, Conns, "none")
  OBVIOUS
<1>2. PICK sent : sent = SendBut(b, {}, <<Bye>>)
  OBVIOUS
<1>3. Commit(b, NoBots, f, Inbox(b), sent)
  BY <1>1, <1>2 DEF Die, Closed
<1>4. EndsTyped(dcc) /\ \A d \in Ends(b) : d \in Conns
  BY PeerFacts DEF LInv, IInv
<1>5. (\A y \in Bots \ {b} : f[y] = dcc[y]) /\ \A d \in Conns : f[b][d] = "none"
  BY <1>1, <1>4, Types, SetEndsTyped
<1>6. \A d \in Ends(b) : sent[d] = IF dcc[b][d] = "bot" THEN <<Bye>> ELSE <<>>
  BY <1>2, <1>4 DEF SendBut, Links
<1>7. TellsOK(b, NoBots, f, sent)
  <2> SUFFICES ASSUME NEW d \in Ends(b)
               PROVE  IF dcc[b][d] = "none" THEN sent[d] = <<>> /\ f[b][d] = "none"
                      ELSE \E w : /\ Tells(sent[d], Shown(b, Peer(d, b), tandbot[b], dcc[b][d]), w)
                                  /\ f[b][d] # "none" => w = Shown(b, Peer(d, b), NoBots, f[b][d])
    BY TellsKeeps
  <2>1. f[b][d] = "none" /\ (dcc[b][d] = "none" => sent[d] = <<>>)
    BY <1>4, <1>5, <1>6
  <2>2. AllPlain(sent[d])
    BY <1>6, PlainLines
  <2>3. PICK v : v = Shown(b, Peer(d, b), tandbot[b], dcc[b][d])
    OBVIOUS
  <2>4. Tells(sent[d], v, v)
    BY <2>2, PlainTells
  <2> QED  BY <2>1, <2>3, <2>4
<1>8. ReadsOK(b, NoBots, f, Inbox(b))
  BY <1>4, <1>5 DEF ReadsOK
<1>9. OthersOK(b, f, sent)
  BY <1>4, <1>5 DEF OthersOK, Live
<1>10. SentOK(b, sent)
  BY <1>2, MsgTypes, SendLineOK
<1> QED  BY <1>3, <1>7, <1>8, <1>9, <1>10, CommitLines

-----------------------------------------------------------------------------
(* The theorem                                                             *)

LEMMA InitLInv == Init => LInv
<1> SUFFICES ASSUME Init PROVE LInv
  OBVIOUS
<1>1. IInv
  BY InitIInv
<1>2. ASSUME NEW b \in Bots, NEW c \in Ends(b)
      PROVE  /\ wire[c][b] = <<>>
             /\ LineOK(wire[c][b], dcc[b][c], tandbot[b], Peer(c, b), b, dcc[Peer(c, b)][c] # "none",
                       Shown(Peer(c, b), b, tandbot[Peer(c, b)], dcc[Peer(c, b)][c]))
  <2>1. wire[c][b] = <<>> /\ dcc[b][c] = "none"
    BY PeerFacts DEF Init
  <2> QED  BY <2>1, LineEmpty
<1>3. \A b \in Bots : \A c \in Ends(b) : ~Live(dcc[b][c])
  BY PeerFacts DEF Init, Live
<1> QED  BY <1>1, <1>2, <1>3 DEF LInv, AllLines, Lines, QuietEnds, Farewells

LEMMA NextLInv ==
  ASSUME LInv, [Next]_vars, [\A b, x \in Bots : CmdUnlink(b, x) => LocalUnlink(b, x)]_vars
  PROVE  LInv'
<1>1. IInv'
  BY NextIInv DEF LInv
<1>2. CASE UNCHANGED vars
  BY <1>1, <1>2 DEF vars, LInv, AllLines, Lines, QuietEnds, Farewells
<1>3. CASE /\ Next
           /\ \A b, x \in Bots : CmdUnlink(b, x) => LocalUnlink(b, x)
  <2>1. PICK b \in Bots :
          \/ \E c \in Ends(b) : \/ Handle(b, c) \/ Botlink(b, c) \/ Autolink(b, c)
                                \/ FailedLink(b, c) \/ PingTimeout(b, c)
          \/ \E x \in Bots : CmdUnlink(b, x)
          \/ Die(b)
    BY <1>3 DEF Next
  <2>2. ASSUME NEW c \in Ends(b), Handle(b, c)
        PROVE  AllLines'
    <3>1. CASE ResolveSuccess(b, c)  BY <3>1, ResolveLines
    <3>2. CASE ContLink(b, c)        BY <3>2, ContLinkLines
    <3>3. CASE TelnetId(b, c)        BY <3>3, TelnetIdLines
    <3>4. CASE TimeoutDupwait(b, c)  BY <3>4, TimeoutDupwaitLines
    <3>5. CASE AnswerChallenge(b, c) \/ IgnoreBye(b, c)  BY <3>5, AnswerLines
    <3>6. CASE ChatPass(b, c) \/ ReadHello(b, c)         BY <3>6, GreetLines
    <3>7. CASE BotVersion(b, c)      BY <3>7, BotVersionLines
    <3>8. CASE LoginLost(b, c)       BY <3>8, LoginLostLines
    <3>9. CASE BotNlinked(b, c)      BY <3>9, BotNlinkedLines
    <3>10. CASE BotUnlinked(b, c)    BY <3>10, BotUnlinkedLines
    <3>11. CASE BotBye(b, c)         BY <3>11, BotByeLines
    <3>12. CASE BotReject(b, c)      BY <3>12, BotRejectLines
    <3>13. ~BotUnlink(b, c)          BY NoBotUnlink DEF LInv
    <3> QED  BY <2>2, <3>1, <3>2, <3>3, <3>4, <3>5, <3>6, <3>7, <3>8, <3>9,
                <3>10, <3>11, <3>12, <3>13 DEF Handle
  <2>3. ASSUME NEW c \in Ends(b), Botlink(b, c) \/ Autolink(b, c)
        PROVE  AllLines'
    BY <2>3, DialLines
  <2>4. ASSUME NEW c \in Ends(b), FailedLink(b, c)
        PROVE  AllLines'
    BY <2>4, FailedLinkLines
  <2>5. ASSUME NEW c \in Ends(b), PingTimeout(b, c)
        PROVE  AllLines'
    BY <2>5, BotByeLines
  <2>6. ASSUME NEW x \in Bots, CmdUnlink(b, x)
        PROVE  AllLines'
    BY <1>3, <2>6, CmdUnlinkLines
  <2>7. ASSUME Die(b)
        PROVE  AllLines'
    BY <2>7, DieLines
  <2>8. AllLines'
    BY <2>1, <2>2, <2>3, <2>4, <2>5, <2>6, <2>7
  <2> QED  BY <1>1, <2>8 DEF LInv
<1> QED  BY <1>2, <1>3

\* The lines under way are true in every run in which operators unlink only neighbours: told one
\* after the other, they turn what their reader has heard into what their sender shows (nlinked,
\* unlinked, dump_links; addbot, rembot).
THEOREM LinesAreTrue == Spec /\ OnlyLocalUnlinks => []LInv
<1>1. Init => LInv
  BY InitLInv
<1>2. /\ LInv /\ [Next]_vars
      /\ [\A b, x \in Bots : CmdUnlink(b, x) => LocalUnlink(b, x)]_vars
      => LInv'
  BY NextLInv
<1> QED  BY <1>1, <1>2, PTL DEF Spec, OnlyLocalUnlinks

\* Whatever the net, whoever dials whom and whatever fails, no bot is ever accused by another that
\* runs this code: no "bogus link notice" costs a link (bot_nlinked) and no "fake message rejected
\* (direction)" is raised (bot_unlinked), as long as operators unlink neighbours only.
THEOREM NobodyIsAccused == Spec /\ OnlyLocalUnlinks => []NoFalseAlarm
<1>1. LInv => NoFalseAlarm
  <2> SUFFICES ASSUME LInv, NEW b \in Bots, NEW c \in Links(b), wire[c][b] # <<>>,
                      NEW m, m = Head(wire[c][b])
               PROVE  /\ m.cmd = "n"  => ~Bogus(b, c, m)
                      /\ m.cmd = "un" => ~FromElsewhere(b, c, m.bot)
    BY DEF NoFalseAlarm
  <2>1. c \in Ends(b) /\ Next1(b, c)
    BY DEF Links, Next1, LInv, IInv, EndsTyped
  <2>2. /\ m.cmd = "n" => c \in NextBots(b, m.up)
        /\ m.cmd = "un" => c \in NextBots(b, m.bot)
    BY <2>1, NewsJustified
  <2> QED  BY <2>2 DEF Bogus, FromElsewhere
<1> QED  BY <1>1, LinesAreTrue, PTL

\* When a link is up at both ends and nothing is under way on it, its two bots agree about the
\* net: what one has heard from the other is what the other lists and did not hear from it.
NeighboursAgree ==
  \A b \in Bots : \A c \in Links(b) :
    wire[c][b] = <<>> /\ dcc[Peer(c, b)][c] = "bot" =>
      Via(tandbot[b], Peer(c, b)) = Shown(Peer(c, b), b, tandbot[Peer(c, b)], "bot")

\* Neighbours agree whenever they have read what the other has sent (addbot, rembot).
THEOREM NeighboursDoAgree == Spec /\ OnlyLocalUnlinks => []NeighboursAgree
<1>1. LInv => NeighboursAgree
  <2> SUFFICES ASSUME LInv, NEW b \in Bots, NEW c \in Links(b), wire[c][b] = <<>>,
                      dcc[Peer(c, b)][c] = "bot"
               PROVE  Via(tandbot[b], Peer(c, b)) = Shown(Peer(c, b), b, tandbot[Peer(c, b)], "bot")
    BY DEF NeighboursAgree
  <2>1. c \in Ends(b) /\ dcc[b][c] = "bot"
    BY DEF Links, LInv, IInv, EndsTyped
  <2>2. LineOK(<<>>, "bot", tandbot[b], Peer(c, b), b, TRUE,
               Shown(Peer(c, b), b, tandbot[Peer(c, b)], "bot"))
    <3>1. (dcc[Peer(c, b)][c] # "none") = TRUE
      OBVIOUS
    <3> QED  BY <2>1, <3>1 DEF LInv, AllLines, Lines
  <2>3. Turns(<<>>, 0, Via(tandbot[b], Peer(c, b)), Shown(Peer(c, b), b, tandbot[Peer(c, b)], "bot"))
    BY <2>2 DEF LineOK, Leads
  <2>4. Len(<<>>) = 0
    OBVIOUS
  <2> QED  BY <2>3, <2>4 DEF Turns
<1> QED  BY <1>1, LinesAreTrue, PTL

-----------------------------------------------------------------------------
(* The net at rest *)

Listed(y, x) == x \in DOMAIN tandbot[y]
From(y, x)   == tandbot[y][x].via
Parent(y, x) == tandbot[y][x].uplink

\* Links have two ends, and their bots list each other.
TwoEnds ==
  \A y \in Bots : \A z \in Linked(y) :
    /\ z \in Bots /\ z # y /\ y \in Linked(z)
    /\ Listed(y, z) /\ From(y, z) = z /\ Parent(y, z) = y

\* A listed bot was heard over a link.
HeardOver == \A y \in Bots : \A x : Listed(y, x) => x \in Bots /\ x # y /\ From(y, x) \in Linked(y)

\* What y has heard from z is z, and what z lists and has not heard from y.
HeardFrom(y, z, x) == Listed(y, x) /\ From(y, x) = z
TellsOf(z, y, x)   == x = z \/ (Listed(z, x) /\ From(z, x) # y)
Agree ==
  \A y \in Bots : \A z \in Linked(y) : \A x :
    /\ HeardFrom(y, z, x) <=> TellsOf(z, y, x)
    /\ HeardFrom(y, z, x) /\ x # z => Parent(y, x) = Parent(z, x)

AtRest == TwoEnds /\ HeardOver /\ Agree

LEMMA BothEnds ==
  ASSUME LInv, Settled, NEW y \in Bots, NEW c \in Links(y)
  PROVE  /\ c \in Ends(y) /\ Peer(c, y) \in Bots /\ Peer(c, y) # y
         /\ c \in Links(Peer(c, y)) /\ Peer(c, Peer(c, y)) = y
         /\ Listed(y, Peer(c, y)) /\ From(y, Peer(c, y)) = Peer(c, y)
         /\ Parent(y, Peer(c, y)) = y
<1>1. c \in Ends(y) /\ dcc[y][c] = "bot" /\ c \in Conns
  BY DEF Links, LInv, IInv, EndsTyped
<1>2. Peer(c, y) \in Bots \ {y} /\ Peer(c, Peer(c, y)) = y
  BY <1>1, PeerFacts
<1>3. dcc[Peer(c, y)][c] # "none"
  <2>1. wire[c][y] = <<>>
    BY <1>1 DEF Settled
  <2>2. Live("bot")
    BY DEF Live, CallerTypes
  <2> QED  BY <1>1, <2>1, <2>2 DEF LInv, AllLines, Farewells, Ended
<1>4. dcc[Peer(c, y)][c] = "bot"
  BY <1>1, <1>2, <1>3 DEF Settled
<1>5. LinksListed(y, tandbot[y], dcc[y])
  BY DEF LInv, IInv, Good, RoutesOK
<1> QED  BY <1>1, <1>2, <1>4, <1>5 DEF Links, LinksListed, Listed, From, Parent

LEMMA RestFacts ==
  ASSUME LInv, Settled
  PROVE  AtRest
<1>1. \A y \in Bots : \A c \in Links(y) :
        /\ c \in Ends(y) /\ Peer(c, y) \in Bots /\ Peer(c, y) # y
        /\ c \in Links(Peer(c, y)) /\ Peer(c, Peer(c, y)) = y
        /\ Listed(y, Peer(c, y)) /\ From(y, Peer(c, y)) = Peer(c, y)
        /\ Parent(y, Peer(c, y)) = y
  BY BothEnds
<1>2. TwoEnds
  BY <1>1 DEF TwoEnds, Linked
<1>3. HeardOver
  <2> SUFFICES ASSUME NEW y \in Bots, NEW x, Listed(y, x)
               PROVE  x \in Bots /\ x # y /\ From(y, x) \in Linked(y)
    BY DEF HeardOver
  <2>1. Good(y, tandbot[y], dcc[y])
    BY DEF LInv, IInv
  <2>2. \E c \in Ends(y) : dcc[y][c] = "bot" /\ From(y, x) = Peer(c, y)
    BY <2>1 DEF Good, RoutesOK, Listed, From
  <2>3. x \in Bots /\ x # y
    BY <2>1 DEF Good, ListType, Listed
  <2> QED  BY <2>2, <2>3, PeerFacts DEF Linked, Links
<1>4. Agree
  <2> SUFFICES ASSUME NEW y \in Bots, NEW z \in Linked(y), NEW x
               PROVE  /\ HeardFrom(y, z, x) <=> TellsOf(z, y, x)
                      /\ HeardFrom(y, z, x) /\ x # z => Parent(y, x) = Parent(z, x)
    BY DEF Agree
  <2>1. PICK c \in Links(y) : z = Peer(c, y)
    BY DEF Linked
  <2>2. c \in Ends(y) /\ dcc[y][c] = "bot" /\ dcc[z][c] = "bot" /\ wire[c][y] = <<>>
    BY <1>1, <2>1 DEF Links, Settled
  <2>3. Via(tandbot[y], z) = Shown(z, y, tandbot[z], "bot")
    <3>1. LineOK(<<>>, "bot", tandbot[y], z, y, TRUE, Shown(z, y, tandbot[z], "bot"))
      <4>1. (dcc[z][c] # "none") = TRUE
        BY <2>2
      <4> QED  BY <2>1, <2>2, <4>1 DEF LInv, AllLines, Lines
    <3>2. Turns(<<>>, 0, Via(tandbot[y], z), Shown(z, y, tandbot[z], "bot"))
      BY <3>1 DEF LineOK, Leads
    <3>3. Len(<<>>) = 0
      OBVIOUS
    <3> QED  BY <3>2, <3>3 DEF Turns
  <2>4. /\ DOMAIN Via(tandbot[y], z) = {x1 \in DOMAIN tandbot[y] : From(y, x1) = z}
        /\ \A x1 \in DOMAIN Via(tandbot[y], z) : Via(tandbot[y], z)[x1] = Parent(y, x1)
    BY DEF Via, From, Parent
  <2>5. /\ DOMAIN Shown(z, y, tandbot[z], "bot") = {z} \cup {x1 \in DOMAIN tandbot[z] : From(z, x1) # y}
        /\ \A x1 \in DOMAIN Shown(z, y, tandbot[z], "bot") :
             x1 # z => Shown(z, y, tandbot[z], "bot")[x1] = Parent(z, x1)
    BY DEF Shown, From, Parent
  <2> QED  BY <2>3, <2>4, <2>5 DEF HeardFrom, TellsOf, Listed
<1> QED  BY <1>2, <1>3, <1>4 DEF AtRest

\* A walk over links that never turns back has to end.
LEMMA NoWalk ==
  ASSUME AtRest, NEW C \in SUBSET Bots, C # {}, NEW f,
         \A y \in C : f[y] \in C /\ f[y] \in Linked(y) /\ f[f[y]] # y
  PROVE  FALSE
<1> DEFINE Stays(S) == S # {} /\ \A y \in S : f[y] \in S
           Paths    == {S \in SUBSET C : Stays(S)}
           Less     == StrictSubsetOrdering(Bots)
<1>1. IsWellFoundedOn(Less, SUBSET Bots)
  BY BotsAssumption, FS_StrictSubsetOrderingWellFounded, FS_FiniteSubsetsOfFinite
<1>2. Paths \subseteq SUBSET Bots /\ C \in Paths
  OBVIOUS
<1>3. \E s \in Paths : \A r \in Paths : <<r, s>> \notin Less
  <2> HIDE DEF Paths, Less
  <2> QED  BY <1>1, <1>2, WFMin
<1>4. PICK S \in Paths : \A T \in Paths : T \subseteq S => T = S
  BY <1>2, <1>3 DEF StrictSubsetOrdering
<1>5. PICK b \in S : TRUE
  OBVIOUS
<1> DEFINE q == f[b]
           A == {y \in S : HeardFrom(y, f[y], q)}
<1>6. b \in A /\ q \in S /\ q \notin A /\ q \in Bots
  <2>1. q \in Linked(b) /\ b \in Bots /\ q \in S
    BY <1>2, <1>4
  <2>2. HeardFrom(b, q, q)
    BY <2>1 DEF AtRest, Agree, TellsOf
  <2>3. q \in Bots /\ ~Listed(q, q)
    BY <2>1 DEF AtRest, TwoEnds, HeardOver
  <2> QED  BY <2>1, <2>2, <2>3 DEF HeardFrom
<1>7. \A y \in S \ A : f[y] \in S \ A
  <2> SUFFICES ASSUME NEW y \in S, f[y] \in A PROVE y \in A
    OBVIOUS
  <2>1. y \in Bots /\ f[y] \in Linked(y) /\ f[f[y]] # y
    BY <1>2, <1>4
  <2>2. Listed(f[y], q) /\ From(f[y], q) = f[f[y]]
    BY DEF HeardFrom
  <2>3. TellsOf(f[y], y, q)
    BY <2>1, <2>2 DEF TellsOf
  <2> QED  BY <2>1, <2>3 DEF AtRest, Agree
<1>8. S \ A \in Paths /\ S \ A # S
  BY <1>4, <1>6, <1>7
<1> QED  BY <1>4, <1>8

-----------------------------------------------------------------------------
(* Every list is what can be reached *)

LEMMA ReachedFacts ==
  ASSUME AtRest, NEW b \in Bots
  PROVE  /\ b \in Reached(b) /\ Reached(b) \subseteq Bots
         /\ \A y \in Reached(b) : Linked(y) \subseteq Reached(b)
         /\ \A S \in SUBSET Bots : b \in S /\ (\A y \in S : Linked(y) \subseteq S)
                                     => Reached(b) \subseteq S
<1>1. \A y \in Bots : Linked(y) \subseteq Bots
  BY DEF AtRest, TwoEnds
<1> QED  BY <1>1 DEF Reached

LEMMA ListedIsReached ==
  ASSUME AtRest, NEW b \in Bots, NEW x, Listed(b, x)
  PROVE  x \in Reached(b)
<1> SUFFICES ASSUME x \notin Reached(b) PROVE FALSE
  OBVIOUS
<1> DEFINE C == {y \in Reached(b) : Listed(y, x)}
<1>1. PICK f : f = [y \in C |-> From(y, x)]
  OBVIOUS
<1>2. C \in SUBSET Bots /\ b \in C
  BY ReachedFacts
<1>3. \A y \in C : f[y] \in C /\ f[y] \in Linked(y) /\ f[f[y]] # y
  <2> SUFFICES ASSUME NEW y \in C, NEW z, z = From(y, x)
               PROVE  z \in C /\ z \in Linked(y) /\ From(z, x) # y
    BY <1>1
  <2>1. z \in Linked(y) /\ z \in Reached(b)
    BY <1>2, ReachedFacts DEF AtRest, HeardOver
  <2>2. TellsOf(z, y, x)
    BY <1>2, <2>1 DEF AtRest, Agree, HeardFrom
  <2> QED  BY <2>1, <2>2 DEF TellsOf
<1> HIDE DEF C
<1> QED  BY <1>2, <1>3, NoWalk

LEMMA ReachedIsListed ==
  ASSUME AtRest, NEW b \in Bots, NEW x \in Reached(b), x # b
  PROVE  Listed(b, x)
<1> DEFINE S == {b} \cup {y \in Bots : Listed(b, y)}
<1> SUFFICES ASSUME NEW y \in S, NEW z \in Linked(y), z \notin S PROVE FALSE
  <2>1. S \in SUBSET Bots /\ b \in S /\ \A y \in S : Linked(y) \subseteq S
    OBVIOUS
  <2>2. Reached(b) \subseteq S
    <3> HIDE DEF S
    <3> QED  BY <2>1, ReachedFacts
  <2> QED  BY <2>2
<1>1. y \in Bots /\ z \in Bots /\ z # y /\ y # b /\ Listed(b, y) /\ ~Listed(b, z) /\ z # b
  BY DEF AtRest, TwoEnds
<1> DEFINE C == {c \in Bots : Listed(c, y) /\ ~Listed(c, z) /\ z # c}
<1>2. PICK f : f = [c \in C |-> From(c, y)]
  OBVIOUS
<1>3. C \in SUBSET Bots /\ b \in C
  BY <1>1
<1>4. \A c \in C : f[c] \in C /\ f[c] \in Linked(c) /\ f[f[c]] # c
  <2> SUFFICES ASSUME NEW c \in C, NEW d, d = From(c, y)
               PROVE  d \in C /\ d \in Linked(c) /\ From(d, y) # c
    BY <1>2
  <2>1. d \in Linked(c) /\ d \in Bots /\ c \in Linked(d)
    BY DEF AtRest, HeardOver, TwoEnds
  <2>2. TellsOf(d, c, y)
    BY <2>1 DEF AtRest, Agree, HeardFrom
  <2>3. ~TellsOf(d, c, z)
    BY <2>1 DEF AtRest, Agree, HeardFrom
  <2>4. y # d
    <3> SUFFICES ASSUME y = d PROVE FALSE
      OBVIOUS
    <3>1. Listed(y, z) /\ From(y, z) = z
      BY <1>1 DEF AtRest, TwoEnds
    <3> QED  BY <2>3, <3>1 DEF TellsOf
  <2>5. Listed(d, y) /\ From(d, y) # c
    BY <2>2, <2>4 DEF TellsOf
  <2>6. z # d
    BY <2>3 DEF TellsOf
  <2>7. ~Listed(d, z)
    <3> SUFFICES ASSUME Listed(d, z) PROVE FALSE
      OBVIOUS
    <3>1. HeardFrom(d, c, z)
      BY <2>3 DEF TellsOf, HeardFrom
    <3>2. TellsOf(c, d, z)
      BY <2>1, <3>1 DEF AtRest, Agree
    <3> QED  BY <3>2 DEF TellsOf
  <2> QED  BY <2>1, <2>5, <2>6, <2>7
<1> HIDE DEF C
<1> QED  BY <1>3, <1>4, NoWalk

LEMMA ParentIsLinked ==
  ASSUME AtRest, NEW b \in Bots, NEW x, Listed(b, x)
  PROVE  Parent(b, x) \in Linked(x)
<1> SUFFICES ASSUME NEW u, u = Parent(b, x), u \notin Linked(x) PROVE FALSE
  OBVIOUS
<1> DEFINE C == {c \in Bots : Listed(c, x) /\ Parent(c, x) = u}
<1>1. PICK f : f = [c \in C |-> From(c, x)]
  OBVIOUS
<1>2. C \in SUBSET Bots /\ b \in C
  OBVIOUS
<1>3. \A c \in C : f[c] \in C /\ f[c] \in Linked(c) /\ f[f[c]] # c
  <2> SUFFICES ASSUME NEW c \in C, NEW d, d = From(c, x)
               PROVE  d \in C /\ d \in Linked(c) /\ From(d, x) # c
    BY <1>1
  <2>1. d \in Linked(c) /\ d \in Bots
    BY DEF AtRest, HeardOver, TwoEnds
  <2>2. d # x
    <3> SUFFICES ASSUME d = x PROVE FALSE
      OBVIOUS
    <3>1. Parent(c, x) = c /\ c \in Linked(x)
      BY <2>1 DEF AtRest, TwoEnds
    <3> QED  BY <3>1
  <2>3. HeardFrom(c, d, x)
    BY DEF HeardFrom
  <2>4. TellsOf(d, c, x) /\ Parent(d, x) = u
    BY <2>1, <2>2, <2>3 DEF AtRest, Agree
  <2> QED  BY <2>1, <2>2, <2>4 DEF TellsOf
<1> HIDE DEF C
<1> QED  BY <1>2, <1>3, NoWalk

\* In the net of b every bot lists b.
LEMMA AllListIt ==
  ASSUME AtRest, NEW b \in Bots, NEW x \in Reached(b), x # b
  PROVE  Listed(x, b)
<1> DEFINE S == {b} \cup {y \in Bots : Listed(y, b)}
<1>1. S \in SUBSET Bots /\ b \in S
  OBVIOUS
<1>2. ASSUME NEW y \in S, NEW z \in Linked(y)
      PROVE  z \in S
  <2>1. y \in Bots /\ z \in Bots /\ y \in Linked(z)
    BY <1>1, <1>2 DEF AtRest, TwoEnds
  <2>2. CASE y = b
    BY <2>1, <2>2 DEF AtRest, TwoEnds
  <2>3. CASE y # b
    <3>1. Listed(y, b)
      BY <2>3
    <3>2. CASE From(y, b) = z
      BY <2>1, <3>1, <3>2 DEF AtRest, Agree, HeardFrom, TellsOf
    <3>3. CASE From(y, b) # z
      <4>1. TellsOf(y, z, b)
        BY <3>1, <3>3 DEF TellsOf
      <4> QED  BY <2>1, <4>1 DEF AtRest, Agree, HeardFrom
    <3> QED  BY <3>2, <3>3
  <2> QED  BY <2>2, <2>3
<1>3. Reached(b) \subseteq S
  <2> HIDE DEF S
  <2> QED  BY <1>1, <1>2, ReachedFacts
<1> QED  BY <1>3

-----------------------------------------------------------------------------
(* The links of a net of n bots are n - 1 *)

\* The link over which y has heard of b, and the same as seen from its other end.
Upward(y, b)   == CHOOSE c \in Links(y) : Peer(c, y) = From(y, b)
UpEnd(y, b)    == <<y, Upward(y, b)>>
DownEnd(y, b)  == <<Peer(Upward(y, b), y), Upward(y, b)>>

LEMMA UpwardFacts ==
  ASSUME LInv, Settled, NEW b \in Bots, NEW y \in Bots, Listed(y, b), NEW u, u = Upward(y, b)
  PROVE  /\ u \in Links(y) /\ Peer(u, y) = From(y, b) /\ From(y, b) \in Bots
         /\ u \in Links(From(y, b)) /\ Peer(u, From(y, b)) = y
         /\ \A c \in Links(y) : Peer(c, y) = From(y, b) => c = u
<1>1. \E c \in Links(y) : Peer(c, y) = From(y, b)
  BY RestFacts DEF AtRest, HeardOver, Linked
<1>2. u \in Links(y) /\ Peer(u, y) = From(y, b)
  BY <1>1 DEF Upward
<1>3. /\ u \in Ends(y) /\ From(y, b) \in Bots /\ u \in Links(From(y, b))
      /\ Peer(u, From(y, b)) = y
  BY <1>2, BothEnds
<1>4. LinksListed(y, tandbot[y], dcc[y]) /\ \A c \in Links(y) : c \in Ends(y) /\ dcc[y][c] = "bot"
  BY DEF LInv, IInv, Good, RoutesOK, EndsTyped, Links
<1>5. \A c \in Links(y) : Peer(c, y) = From(y, b) => c = u
  BY <1>2, <1>4 DEF LinksListed
<1> QED  BY <1>2, <1>3, <1>5

LEMMA LinksFormTrees ==
  ASSUME LInv, Settled, NEW b \in Bots
  PROVE  Cardinality({p \in Reached(b) \X Conns : dcc[p[1]][p[2]] = "bot"})
           = 2 * (Cardinality(Reached(b)) - 1)
<1> USE RestFacts
<1> DEFINE Rest  == Reached(b) \ {b}
           AllEnds == {p \in Reached(b) \X Conns : dcc[p[1]][p[2]] = "bot"}
           Ups   == {UpEnd(y, b) : y \in Rest}
           Downs == {DownEnd(y, b) : y \in Rest}
<1>1. /\ b \in Reached(b) /\ Reached(b) \subseteq Bots
      /\ \A y \in Reached(b) : \A z \in Linked(y) : z \in Reached(b)
  BY ReachedFacts
<1>2. \A y \in Rest : Listed(y, b) /\ y \in Bots /\ y # b
  BY <1>1, AllListIt
<1>3. ASSUME NEW y \in Rest, NEW u, u = Upward(y, b), NEW z, z = From(y, b)
      PROVE  /\ u \in Links(y) /\ Peer(u, y) = z /\ z \in Reached(b) /\ z \in Linked(y)
             /\ u \in Links(z) /\ Peer(u, z) = y /\ u \in Conns
             /\ \A c \in Links(y) : Peer(c, y) = z => c = u
             /\ z # b => From(z, b) # y
             /\ UpEnd(y, b) = <<y, u>> /\ DownEnd(y, b) = <<z, u>>
  <2>1. /\ u \in Links(y) /\ Peer(u, y) = z
        /\ u \in Links(z) /\ Peer(u, z) = y
        /\ \A c \in Links(y) : Peer(c, y) = z => c = u
    BY <1>2, <1>3, UpwardFacts
  <2>2. z \in Linked(y) /\ z \in Reached(b)
    BY <1>1, <2>1 DEF Linked
  <2>3. z # b => From(z, b) # y
    <3>1. HeardFrom(y, z, b)
      BY <1>2, <1>3 DEF HeardFrom
    <3>2. TellsOf(z, y, b)
      BY <1>2, <2>2, <3>1 DEF AtRest, Agree
    <3> QED  BY <3>2 DEF TellsOf
  <2> QED  BY <1>3, <2>1, <2>2, <2>3 DEF UpEnd, DownEnd, Links
<1>4. Ups \subseteq AllEnds /\ Downs \subseteq AllEnds
  <2> SUFFICES ASSUME NEW y \in Rest
               PROVE  UpEnd(y, b) \in AllEnds /\ DownEnd(y, b) \in AllEnds
    OBVIOUS
  <2>1. PICK u, z : u = Upward(y, b) /\ z = From(y, b)
    OBVIOUS
  <2>2. /\ u \in Conns /\ dcc[y][u] = "bot" /\ z \in Reached(b) /\ dcc[z][u] = "bot"
        /\ UpEnd(y, b) = <<y, u>> /\ DownEnd(y, b) = <<z, u>>
    BY <2>1, <1>3 DEF Links
  <2> QED  BY <2>2
<1>5. Ups \cap Downs = {}
  <2> SUFFICES ASSUME NEW y \in Rest, NEW x \in Rest, UpEnd(y, b) = DownEnd(x, b)
               PROVE  FALSE
    OBVIOUS
  <2>1. PICK u, z : u = Upward(y, b) /\ z = From(y, b)
    OBVIOUS
  <2>2. PICK v, w : v = Upward(x, b) /\ w = From(x, b)
    OBVIOUS
  <2>3. UpEnd(y, b) = <<y, u>> /\ Peer(u, y) = z /\ (z # b => From(z, b) # y)
    BY <1>3, <2>1
  <2>4. DownEnd(x, b) = <<w, v>> /\ Peer(v, w) = x
    BY <1>3, <2>2
  <2>5. <<y, u>> = <<w, v>>
    BY <2>3, <2>4
  <2>6. y = w /\ u = v
    BY <2>5
  <2> QED  BY <2>1, <2>2, <2>3, <2>4, <2>6
<1>6. AllEnds \subseteq Ups \cup Downs
  <2> SUFFICES ASSUME NEW y \in Reached(b), NEW c \in Links(y)
               PROVE  <<y, c>> \in Ups \cup Downs
    BY DEF Links
  <2>1. PICK z : z = Peer(c, y)
    OBVIOUS
  <2>2. /\ z \in Linked(y) /\ z \in Reached(b) /\ y \in Linked(z) /\ c \in Links(z) /\ Peer(c, z) = y
        /\ z \in Bots /\ y \in Bots
    BY <1>1, <2>1, BothEnds DEF Linked
  <2>3. CASE y \in Rest /\ From(y, b) = z
    <3>1. UpEnd(y, b) = <<y, c>>
      BY <1>3, <2>1, <2>3
    <3> QED  BY <2>3, <3>1
  <2>4. CASE y = b \/ From(y, b) # z
    <3>1. TellsOf(y, z, b)
      BY <1>2, <2>4 DEF TellsOf
    <3>2. HeardFrom(z, y, b)
      BY <2>2, <3>1 DEF AtRest, Agree
    <3>3. z \in Rest /\ From(z, b) = y
      BY <2>2, <3>2 DEF HeardFrom, AtRest, HeardOver
    <3>4. DownEnd(z, b) = <<y, c>>
      BY <1>3, <2>2, <3>3
    <3> QED  BY <3>3, <3>4
  <2> QED  BY <2>3, <2>4
<1>7. IsFiniteSet(Reached(b)) /\ IsFiniteSet(Rest) /\ Cardinality(Reached(b)) \in Nat
      /\ Cardinality(Rest) = Cardinality(Reached(b)) - 1
  BY <1>1, BotsAssumption, FS_Subset, FS_RemoveElement, FS_CardinalityType
<1>8. IsFiniteSet(Ups) /\ Cardinality(Ups) = Cardinality(Rest)
  <2>1. PICK f : f = [y \in Rest |-> UpEnd(y, b)]
    OBVIOUS
  <2>2. f \in Bijection(Rest, Ups)
    BY <2>1 DEF Bijection, Injection, Surjection, IsInjective, UpEnd
  <2> QED  BY <1>7, <2>2, FS_Bijection DEF ExistsBijection
<1>9. IsFiniteSet(Downs) /\ Cardinality(Downs) = Cardinality(Rest)
  <2>1. PICK f : f = [y \in Rest |-> DownEnd(y, b)]
    OBVIOUS
  <2>2. \A x, y \in Rest : DownEnd(x, b) = DownEnd(y, b) => x = y
    <3> SUFFICES ASSUME NEW x \in Rest, NEW y \in Rest, DownEnd(x, b) = DownEnd(y, b)
                 PROVE  x = y
      OBVIOUS
    <3>1. PICK u, z : u = Upward(y, b) /\ z = From(y, b)
      OBVIOUS
    <3>2. PICK v, w : v = Upward(x, b) /\ w = From(x, b)
      OBVIOUS
    <3>3. DownEnd(y, b) = <<z, u>> /\ Peer(u, z) = y
      BY <1>3, <3>1
    <3>4. DownEnd(x, b) = <<w, v>> /\ Peer(v, w) = x
      BY <1>3, <3>2
    <3>5. z = w /\ u = v
      BY <3>3, <3>4
    <3> QED  BY <3>3, <3>4, <3>5
  <2>3. f \in Bijection(Rest, Downs)
    BY <2>1, <2>2 DEF Bijection, Injection, Surjection, IsInjective
  <2> QED  BY <1>7, <2>3, FS_Bijection DEF ExistsBijection
<1>10. AllEnds = Ups \cup Downs
  BY <1>4, <1>6
<1>11. Cardinality(AllEnds) = Cardinality(Ups) + Cardinality(Downs) - 0
  <2> HIDE DEF AllEnds, Ups, Downs
  <2>1. Cardinality(Ups \cup Downs) = Cardinality(Ups) + Cardinality(Downs) - Cardinality(Ups \cap Downs)
    BY <1>8, <1>9, FS_Union
  <2> QED  BY <1>5, <1>10, <2>1, FS_EmptySet
<1> HIDE DEF AllEnds, Ups, Downs, Rest
<1>12. Cardinality(AllEnds) = 2 * (Cardinality(Reached(b)) - 1)
  BY <1>7, <1>8, <1>9, <1>11
<1> QED  BY <1>12 DEF AllEnds

\* Whatever was dialled at the same time, failed, timed out, was unlinked by a neighbour's operator
\* or restarted: when nothing is in transit any more the links form trees, and every bot's list is
\* the tree it is in, each bot under a parent that is really linked to it (bot_nlinked,
\* bot_unlinked, bot_bye, dump_links; addbot, rembot, unvia).
THEOREM ThereIsOneNet == Spec /\ OnlyLocalUnlinks => []OneNet
<1>1. LInv => NoLoops
  BY LinksFormTrees DEF NoLoops
<1>2. LInv => ViewsAgree
  <2> SUFFICES ASSUME LInv, Settled, NEW b \in Bots
               PROVE  /\ DOMAIN tandbot[b] = Reached(b) \ {b}
                      /\ \A x \in DOMAIN tandbot[b] : tandbot[b][x].uplink \in Linked(x)
    BY DEF ViewsAgree
  <2>1. AtRest
    BY RestFacts
  <2>2. \A x \in DOMAIN tandbot[b] : x \in Reached(b) /\ x # b /\ tandbot[b][x].uplink \in Linked(x)
    BY <2>1, ListedIsReached, ParentIsLinked DEF Listed, Parent, AtRest, HeardOver
  <2>3. \A x \in Reached(b) \ {b} : x \in DOMAIN tandbot[b]
    BY <2>1, ReachedIsListed DEF Listed
  <2> QED  BY <2>2, <2>3
<1>3. LInv => OneNet
  BY <1>1, <1>2 DEF OneNet
<1> QED  BY <1>3, LinesAreTrue, PTL
=============================================================================
