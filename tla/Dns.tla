-------------------------------- MODULE Dns --------------------------------
(***************************************************************************)
(* Host names and addresses: the resolver of dns.mod (coredns.c), the list *)
(* of those who wait for an answer (dns.c), and the connections in the dcc  *)
(* table that are held until the answer is in.  The nameservers and the    *)
(* network between are external: a reply may be lost, late or repeated.     *)
(***************************************************************************)
EXTENDS Naturals, Sequences, FiniteSets, SequencesExt, TLC

CONSTANTS
  Telnets,   \* connections that are accepted; each is looked up by its address
  Dials,     \* connections to be made, to a server or a bot, by host name
  Scripts,   \* lookups by Tcl scripts
  KeyOf,     \* KeyOf[x]: the address or the name that x is looked up by
  Follow,    \* Follow[t]: the lookup that the callback of t makes, or ""
  Ips, Ip6,  \* the addresses; those of IPv6 among them
  Hosts,
  Zone,      \* what the nameservers say: a name or "", <<IPv4, IPv6>> for names
  Literal,   \* the host names that are addresses
  MaxSends,  \* dns-maxsends
  PreferIp6, \* prefer-ipv6
  MaxDcc,    \* entries of the dcc table
  Leaves,    \* connections that may be closed at any time
  MayRefuse  \* whether accept may fail

VARIABLES
  dcc,       \* the table; what is behind dcc_total is still there
  dcc_total,
  dns_events,\* who waits, the newest first
  resolves,  \* the resolver's records, by address or name
  asked,     \* the queries that were ever sent
  got,       \* what was answered to whom
  freed      \* a list entry was used after it was freed

vars == <<dcc, dcc_total, dns_events, resolves, asked, got, freed>>

NoAddr  == ""
NoOne   == ""
Nothing == [type |-> "none", who |-> "", look |-> "", addr |-> NoAddr, ip |-> 0]
Lost    == [Nothing EXCEPT !.type = "lost"]
Waiting(i) == dcc[i].type = "dnswait"

\* What the functions work on.
World == [dcc |-> dcc, total |-> dcc_total, events |-> dns_events, recs |-> resolves,
          asked |-> asked, got |-> got, freed |-> freed]
Becomes(worlds) == \E w \in worlds :
  /\ dcc' = w.dcc /\ dcc_total' = w.total /\ dns_events' = w.events /\ resolves' = w.recs
  /\ asked' = w.asked /\ got' = w.got /\ freed' = w.freed

-----------------------------------------------------------------------------
(* The dcc table *)

\* new_dcc
NewDcc(w, entry) == [w EXCEPT !.total = @ + 1, !.dcc[w.total + 1] = entry]
\* lostdcc
LostDcc(w, i) == [w EXCEPT !.dcc[i] = Lost]
\* removedcc: the last entry takes the place of the one removed.
RemoveDcc(w, n) ==
  [w EXCEPT !.total = @ - 1, !.dcc[n] = IF n < w.total THEN w.dcc[w.total] ELSE Nothing]
\* dcc_remove_lost
RECURSIVE RemoveLostFrom(_, _)
RemoveLostFrom(w, i) ==
  IF i > w.total THEN w
  ELSE IF w.dcc[i].type = "lost" THEN RemoveLostFrom(RemoveDcc(w, i), i)
  ELSE RemoveLostFrom(w, i + 1)

-----------------------------------------------------------------------------
(* Those who wait: call_hostbyip and call_ipbyhost walk the list and call   *)
(* back; a callback may look something up again.                            *)

\* Addresses are the same if they are equal, or if what stands where an IPv4 address would is:
\* for IPv6 that is the flow label, which is 0, so that any two IPv6 addresses are "the same".
SameAddr(a, b) == a = b \/ {a, b} \subseteq Ip6

\* The address a waiting connection's event points to is in the table.
EventKey(w, e) == IF e.ptr # 0 THEN w.dcc[e.ptr].addr ELSE e.key
Answer(w, who, key, ok) == [w EXCEPT !.got[who] = @ \cup {[key |-> key, ok |-> ok]}]

\* Mutant: whoever waits takes the answer for his own.
DccAnswerAll(w, look, key, ok) ==
  LET mine == {i \in 1..w.total : w.dcc[i].type = "dnswait" /\ w.dcc[i].look = look}
  IN  [w EXCEPT !.dcc = [i \in DOMAIN @ |-> IF i \in mine THEN [@[i] EXCEPT !.type = "on"] ELSE @[i]],
                !.got = [x \in DOMAIN @ |-> IF \E i \in mine : w.dcc[i].who = x
                                            THEN @[x] \cup {[key |-> key, ok |-> ok]} ELSE @[x]]]

\* dns_dcchostbyip, dns_dccipbyhost: the connections held for this answer go on.
DccAnswer(w, look, key, ok) ==
  LET mine == {i \in 1..w.total :
                 /\ w.dcc[i].type = "dnswait" /\ w.dcc[i].look = look
                 /\ IF look = "host" THEN KeyOf[w.dcc[i].who] = key
                    ELSE SameAddr(w.dcc[w.dcc[i].ip].addr, key)}
  IN  [w EXCEPT !.dcc = [i \in DOMAIN @ |-> IF i \in mine THEN [@[i] EXCEPT !.type = "on"] ELSE @[i]],
                !.got = [x \in DOMAIN @ |-> IF \E i \in mine : w.dcc[i].who = x
                                            THEN @[x] \cup {[key |-> key, ok |-> ok]} ELSE @[x]]]

IdsOf(s)   == {s[k].id : k \in DOMAIN s}
NewId(s)   == CHOOSE n \in 1..(Len(s) + 1) : n \notin IdsOf(s)
PosOf(s, id)  == CHOOSE k \in DOMAIN s : s[k].id = id
NextOf(s, id) == IF PosOf(s, id) = Len(s) THEN 0 ELSE s[PosOf(s, id) + 1].id
\* Entry id is unlinked: by the one before it, or as the first, whatever stands before it by now.
Unlink(s, before, id) ==
  IF before # 0 THEN RemoveAt(s, PosOf(s, id)) ELSE SubSeq(s, PosOf(s, id) + 1, Len(s))

RECURSIVE Call(_, _, _, _, _, _), LookUp(_, _, _, _)

\* One round of the loop: event id, and the one before it that stays.
Call(w, before, id, look, key, ok) ==
  IF id = 0 THEN w
  ELSE IF id \notin IdsOf(w.events) \/ (before # 0 /\ before \notin IdsOf(w.events))
  THEN [w EXCEPT !.freed = TRUE]
  ELSE LET e    == w.events[PosOf(w.events, id)]
           nde  == NextOf(w.events, id)
           gone == [w EXCEPT !.events = Unlink(@, before, id)]
           done == IF e.type = "dcc" THEN DccAnswer(gone, look, key, ok)
                   ELSE LET a == Answer(gone, e.who, key, ok)
                        IN  IF Follow[e.who] = "" THEN a
                            ELSE LookUp(a, Follow[e.who], look, key)
       IN  IF e.look # look \/ ~SameAddr(EventKey(w, e), key)
           THEN Call(w, id, nde, look, key, ok)
           ELSE Call(done, before, nde, look, key, ok)

CallAll(w, look, key, ok) ==
  Call(w, 0, IF w.events = <<>> THEN 0 ELSE Head(w.events).id, look, key, ok)

-----------------------------------------------------------------------------
(* The resolver *)

Pending == {"ptrreq", "areq"}
NewRec(st) == [state |-> st, sends |-> 1, fam |-> "", addr |-> NoAddr, name |-> "", linked |-> FALSE]

\* resendrequest: names are asked for both kinds of address.
Resend(w, key) ==
  [w EXCEPT !.recs[key].sends = @ + 1,
            !.asked = @ \cup (IF key \in Hosts THEN {<<key, "A">>, <<key, "AAAA">>}
                              ELSE {<<key, "PTR">>})]

\* failrp and passrp: the record stays as a cache, and those who wait are told.
FailRp(w, key) ==
  CallAll([w EXCEPT !.recs[key].state = "failed"], IF key \in Ips THEN "ip" ELSE "host", key, FALSE)
PassRp(w, key) ==
  CallAll([w EXCEPT !.recs[key].state = "finished"], IF key \in Ips THEN "ip" ELSE "host", key, TRUE)

\* findhost: a record made for an address is found by its name as well.
Named(w, h) == {k \in DOMAIN w.recs : k = h \/ (k \in Ips /\ w.recs[k].linked /\ w.recs[k].name = h)}

\* dns_lookup and dns_forward: a record answers at once, or the query under way will, or one is sent.
DnsLookup(w, key) ==
  LET recs == IF key \in Ips THEN {key} \cap DOMAIN w.recs ELSE Named(w, key)
      rec  == w.recs[CHOOSE k \in recs : TRUE]
      look == IF key \in Ips THEN "ip" ELSE "host"
  IN  IF key \in Literal THEN CallAll(w, "host", key, TRUE)
      ELSE IF recs = {}
      THEN Resend([w EXCEPT !.recs = (key :> NewRec(IF key \in Ips THEN "ptrreq" ELSE "areq")) @@ @], key)
      ELSE IF rec.state = "finished" THEN CallAll(w, look, key, TRUE)
      ELSE IF rec.state = "failed" THEN CallAll(w, look, key, FALSE)
      ELSE w

\* tcl_dnshostbyip and tcl_dnsipbyhost, whose events hold a key of their own; and the dcc's,
\* which are not repeated for the same name, or the same place in the table.
LookUp(w, who, look, key) ==
  DnsLookup([w EXCEPT !.events = <<[id |-> NewId(@), type |-> "tcl", who |-> who, look |-> look,
                                    key |-> key, ptr |-> 0]>> \o @], key)

\* Mutant: one event is thought to be enough for everyone.
DccLookupOnce(w, look, key, ptr) ==
  IF \E k \in DOMAIN w.events : w.events[k].type = "dcc" /\ w.events[k].look = look THEN w
  ELSE DnsLookup([w EXCEPT !.events = <<[id |-> NewId(@), type |-> "dcc", who |-> "", look |-> look,
                                         key |-> key, ptr |-> ptr]>> \o @], key)

\* dcc_dnshostbyip and dcc_dnsipbyhost
DccLookup(w, look, key, ptr) ==
  IF \E k \in DOMAIN w.events :
       /\ w.events[k].type = "dcc" /\ w.events[k].look = look
       /\ IF look = "ip" THEN w.events[k].ptr = ptr ELSE w.events[k].key = key
  THEN w
  ELSE DnsLookup([w EXCEPT !.events = <<[id |-> NewId(@), type |-> "dcc", who |-> "", look |-> look,
                                         key |-> IF look = "ip" THEN "" ELSE key, ptr |-> ptr]>> \o @], key)

\* parserespacket, for an address: a name that is linked already is not linked again.
PtrReply(w, ip) ==
  LET name == Zone[ip]
  IN  PassRp([w EXCEPT !.recs[ip].name = name, !.recs[ip].linked = Named(w, name) = {}], ip)

\* parserespacket, for a name: the reply of the family that is not preferred waits for the other.
AReply(w, h, type) ==
  LET r     == w.recs[h]
      own   == IF type = "A" THEN "4" ELSE "6"
      addr  == Zone[h][IF type = "A" THEN 1 ELSE 2]
      ready == r.fam # "" /\ r.fam # own
      seen  == [w EXCEPT !.recs[h].fam = own, !.recs[h].addr = IF addr = NoAddr THEN @ ELSE addr]
      best  == (type = "AAAA") = PreferIp6
  IN  IF ready \/ (best /\ addr # NoAddr)
      THEN IF seen.recs[h].addr # NoAddr THEN PassRp(seen, h) ELSE FailRp(seen, h)
      ELSE seen

\* Mutant: a query that was sent often enough is begun anew.
ExpireRestarts(w, key) ==
  LET r == w.recs[key]
  IN  IF r.state \notin Pending THEN [w EXCEPT !.recs = [k \in DOMAIN @ \ {key} |-> @[k]]]
      ELSE IF r.sends <= MaxSends THEN Resend(w, key) ELSE [w EXCEPT !.recs[key].sends = 1]

\* dns_check_expires: a record's time has come.
ExpireRec(w, key) ==
  LET r == w.recs[key]
  IN  IF r.state \notin Pending THEN [w EXCEPT !.recs = [k \in DOMAIN @ \ {key} |-> @[k]]]
      ELSE IF r.sends <= MaxSends THEN Resend(w, key) ELSE FailRp(w, key)

-----------------------------------------------------------------------------
(* Steps *)

Fresh(x) == got[x] = {} /\ \A i \in 1..dcc_total : dcc[i].who # x
Began(x) == [key |-> "", ok |-> FALSE]  \* x has been begun
Entry(x, look, addr, ip) == [type |-> "dnswait", who |-> x, look |-> look, addr |-> addr, ip |-> ip]
Begin(w, x) == [w EXCEPT !.got[x] = {Began(x)}]

\* dcc_telnet: somebody connects.
Telnet(x) ==
  /\ Fresh(x) /\ dcc_total < MaxDcc
  /\ LET i == dcc_total + 1
         w == NewDcc(Begin(World, x), Entry(x, "ip", KeyOf[x], i))
     IN  Becomes({DccLookup(w, "ip", KeyOf[x], i)})
\* Or accept fails: the entry made for him stays.
Refused ==
  /\ MayRefuse /\ dcc_total < MaxDcc
  /\ Becomes({NewDcc(World, Entry(NoOne, "", NoAddr, 0))})

\* connect_server, botlink: an address is wanted.
Dial(x) ==
  /\ Fresh(x) /\ dcc_total < MaxDcc
  /\ Becomes({DccLookup(NewDcc(Begin(World, x), Entry(x, "host", NoAddr, 0)), "host", KeyOf[x], 0)})

\* tcl_dnslookup
Script(t) ==
  /\ Fresh(t) /\ \A u \in Scripts : Follow[u] # t
  /\ Becomes({LookUp(Begin(World, t), t, IF KeyOf[t] \in Ips THEN "ip" ELSE "host", KeyOf[t])})

\* A connection ends, while it is held (eof_dcc_dnswait) or later.
Closes(i) ==
  /\ i <= dcc_total /\ dcc[i].who \in Leaves
  /\ dcc[i].type = "on" \/ (Waiting(i) /\ dcc[i].look = "ip")
  /\ Becomes({LostDcc(World, i)})

\* The main loop clears the table every few rounds.
RemoveLost ==
  /\ \E i \in 1..dcc_total : dcc[i].type = "lost"
  /\ Becomes({RemoveLostFrom(World, 1)})

\* dns_ack: a reply to a query, the first or a late one; "" for a name that does not exist.
Reply(q) ==
  /\ q \in asked /\ q[1] \in DOMAIN resolves /\ resolves[q[1]].state \in Pending
  /\ \/ /\ Zone[q[1]] = "" /\ Becomes({FailRp(World, q[1])})
     \/ /\ Zone[q[1]] # "" /\ q[1] \in Ips /\ Becomes({PtrReply(World, q[1])})
     \/ /\ Zone[q[1]] # "" /\ q[1] \in Hosts /\ Becomes({AReply(World, q[1], q[2])})

Expire(key) ==
  /\ key \in DOMAIN resolves
  /\ Becomes({ExpireRec(World, key)})

Everyone == Telnets \cup Dials \cup Scripts

Init ==
  /\ dcc = [i \in 1..MaxDcc |-> Nothing] /\ dcc_total = 0 /\ dns_events = <<>>
  /\ resolves = <<>> /\ asked = {} /\ got = [x \in Everyone |-> {}] /\ freed = FALSE

Next ==
  /\ ~freed
  /\ \/ \E x \in Telnets : Telnet(x)
     \/ Refused
     \/ \E x \in Dials : Dial(x)
     \/ \E t \in Scripts : Script(t)
     \/ \E i \in 1..MaxDcc : Closes(i)
     \/ RemoveLost
     \/ \E q \in asked : Reply(q)
     \/ \E key \in Ips \cup Hosts : Expire(key)

\* What Expire does to the record, by which TLC sees that it is enabled without its callbacks.
Times(key) ==
  /\ key \in DOMAIN resolves
  /\ \/ resolves' = [k \in DOMAIN resolves \ {key} |-> resolves[k]]
     \/ resolves' = [resolves EXCEPT ![key].sends = @ + 1]
     \/ resolves' = [resolves EXCEPT ![key].state = "failed"]

\* The timers run; replies need not come.
Spec == Init /\ [][Next]_vars /\ \A key \in Ips \cup Hosts : WF_resolves(Times(key))

-----------------------------------------------------------------------------
(* Properties *)

TypeOK ==
  /\ dcc_total \in 0..MaxDcc
  /\ \A i \in 1..dcc_total : dcc[i].type \in {"dnswait", "on", "lost"} /\ dcc[i].ip \in 0..MaxDcc
  /\ \A k \in DOMAIN resolves : resolves[k].sends \in 1..(MaxSends + 1)
  /\ Cardinality(IdsOf(dns_events)) = Len(dns_events)

UnderWay(key) == \E k \in Named(World, key) : resolves[k].state \in Pending
Awaited(look, key) ==
  \E k \in DOMAIN dns_events :
    dns_events[k].type = "dcc" /\ dns_events[k].look = look /\ EventKey(World, dns_events[k]) = key

\* Whoever is on the list will be told: a query for what he waits for is under way, or failing
\* that its record would have told him already (dns.c's lists and coredns.c's records).
EventsAwaited ==
  \A k \in DOMAIN dns_events : UnderWay(EventKey(World, dns_events[k]))

\* Each connection that is held has somebody on the list who will find it, and a query under
\* way: comment at dns.c:114, "look for waiting DNS requests of RES_HOSTBYIP for our IP address".
HeldAreAwaited ==
  \A i \in 1..dcc_total : (Waiting(i) /\ dcc[i].who # NoOne) =>
    /\ Awaited(dcc[i].look, KeyOf[dcc[i].who]) /\ UnderWay(KeyOf[dcc[i].who])
    /\ dcc[i].look = "ip" => dcc[dcc[i].ip].addr = KeyOf[dcc[i].who]

\* Nobody is answered about something he did not ask, nor twice; but whoever asked about an
\* IPv6 address may be given the name of another.
AnswersMatch ==
  \A x \in Everyone :
    /\ \A a \in got[x] : a.key = "" \/ a.key = KeyOf[x] \/ {a.key, KeyOf[x]} \subseteq Ip6
    /\ Cardinality(got[x] \ {Began(x)}) <= 1

\* A callback that looks up again leaves the others on the list: comment at dns.c:410, "to
\* avoid conflicts if one of the event handlers re-adds another event".
NoneForgotten ==
  /\ ~freed
  /\ \A t \in Scripts : got[t] = {Began(t)} => \E k \in DOMAIN dns_events : dns_events[k].who = t

\* Whatever the nameservers do, every lookup has an answer in the end, unless its connection is gone.
Held(x) == x \in Scripts \/ \E i \in 1..dcc_total : dcc[i].who = x
AllAnswered == \A x \in Everyone : got[x] = {Began(x)} ~> (got[x] # {Began(x)} \/ ~Held(x))
=============================================================================
