------------------------------- MODULE Masks -------------------------------
(***************************************************************************)
(* Bans, exempts, invites and ignores: the lists of the bot (userchan.c,    *)
(* users.c), the commands that number them (cmdschan.c), the scripts'       *)
(* (tclchan.c), the user file's, and those of a bot that shares them        *)
(* (share.c), which sits on the same channels.  A mode is obeyed at once:   *)
(* how it is queued and refused is IrcChannel's.                            *)
(***************************************************************************)
EXTENDS Naturals, Integers, Sequences, FiniteSets, SequencesExt, FiniteSetsExt

CONSTANTS
  Bots,       \* one bot, or a hub and its leaf
  Hub,
  Kinds,      \* those of ban, exempt, invite, ignore that are looked at
  Chans,
  Plain,      \* the channels whose name begins with # or +
  Dynamic,    \* those with +dynamicbans
  Shared,     \* those with +shared
  Masks,
  Recs,       \* the records that commands may make, of those that Rec gives
  Answers,    \* Answers[m]: the bans that an exempt m is there for
  Own,        \* Own[b]: the masks that match the bot itself
  MaxWire,    \* bound: lines on their way
  MaxChanges  \* bound: changes in a behaviour

VARIABLES
  lists,      \* lists[b][kind][scope]: the records, the newest first
  lastdeleted,\* lastdeletedmask
  live,       \* live[kind][chan]: what is set there, and by which bot
  delayed,    \* modes that wait because the other bot may set them first
  file,       \* file[b]: the lists as they were saved
  wire,       \* wire[b]: the lines b has sent to the other bot
  crossed,    \* history: what both changed while lines about it were on their way
  changes     \* history: how many changes there were

vars == <<lists, lastdeleted, live, delayed, file, wire, crossed, changes>>
World == [lists |-> lists, last |-> lastdeleted, live |-> live, delayed |-> delayed, file |-> file,
          wire |-> wire, crossed |-> crossed]
Becomes(worlds) == \E w \in worlds :
  /\ lists' = w.lists /\ lastdeleted' = w.last /\ live' = w.live /\ delayed' = w.delayed
  /\ file' = w.file /\ wire' = w.wire /\ crossed' = w.crossed

Everywhere == "*"
Scopes     == {Everywhere} \cup Chans
None       == "none"
Rec(mask, when, sticky) == [mask |-> mask, when |-> when, sticky |-> sticky]
Others(b)  == Bots \ {b}
\* Where in a list a mask is, or 0.
At(list, mask) == LET hits == {i \in DOMAIN list : list[i].mask = mask} IN IF hits = {} THEN 0 ELSE Min(hits)
Lists(list, mask) == At(list, mask) # 0
LetterOf(kind) == kind # "ignore"

-----------------------------------------------------------------------------
(* The channel: isbanned, add_mode *)

Set(w, kind, chan, mask) == Lists(w.live[kind][chan], mask)
AddMode(w, b, sign, kind, chan, mask) ==
  IF ~LetterOf(kind) THEN w
  ELSE IF sign = "-" THEN [w EXCEPT !.live[kind][chan] = SelectSeq(@, LAMBDA x : x.mask # mask)]
  ELSE IF Set(w, kind, chan, mask) THEN w
  ELSE [w EXCEPT !.live[kind][chan] = Append(@, [mask |-> mask, by |-> b])]
AddModes(w, b, sign, kind, chans, mask) ==
  FoldSet(LAMBDA chan, v : AddMode(v, b, sign, kind, chan, mask), w, chans)

\* check_this_ban
CheckThisBan(w, b, chan, mask, sticky) ==
  IF chan \in Dynamic /\ ~sticky THEN w ELSE AddMode(w, b, "+", "ban", chan, mask)
Enforce(w, b, kind, chans, mask, sticky) ==
  IF kind = "ban" THEN FoldSet(LAMBDA chan, v : CheckThisBan(v, b, chan, mask, sticky), w, chans)
  ELSE AddModes(w, b, "+", kind, chans, mask)

-----------------------------------------------------------------------------
(* The lists *)

Key(line) == <<line.kind, line.scope, line.mask>>
\* shareout: to the other bot, if the channel is shared, and not while its file is coming.
Shareout(w, b, line) ==
  IF Others(b) = {} \/ line.scope \notin Shared \cup {Everywhere}
     \/ \E o \in Others(b) : \E i \in DOMAIN w.wire[o] : w.wire[o][i].op = "file"
  THEN w
  ELSE [w EXCEPT !.wire[b] = Append(@, line),
                 !.crossed = IF \E o \in Others(b) : \E i \in DOMAIN w.wire[o] : Key(w.wire[o][i]) = Key(line)
                             THEN @ \cup {Key(line)} ELSE @]
Line(op, kind, scope, rec) ==
  [op |-> op, kind |-> kind, scope |-> scope, mask |-> rec.mask, when |-> rec.when, sticky |-> rec.sticky]
Tell(w, b, share, line) == IF share THEN Shareout(w, b, line) ELSE w

\* u_addban, u_addexempt, u_addinvite and addignore: the record is replaced, or put at the head.
Add(w, b, kind, scope, rec, share) ==
  LET list == w.lists[b][kind][scope]
      i    == At(list, rec.mask)
  IN  Tell([w EXCEPT !.lists[b][kind][scope] =
                       IF i = 0 THEN <<rec>> \o list ELSE [list EXCEPT ![i] = rec]],
           b, share, Line("+", kind, scope, rec))
\* u_addban does not ban the bot itself.
Refused(b, kind, mask) == kind = "ban" /\ mask \in Own[b]

\* u_delban and its like: what they return for a number, or a mask, and which entry is meant.
DelResult(list, n) ==
  IF n = 0 THEN Len(list) ELSE IF n <= Len(list) THEN 1 ELSE -(n - Len(list))
Removed(w, b, kind, scope, i, share) ==
  LET rec == w.lists[b][kind][scope][i]
  IN  Tell([w EXCEPT !.lists[b][kind][scope] = RemoveAt(@, i),
                     !.last[b] = IF LetterOf(kind) THEN rec.mask ELSE @],
           b, share, Line("-", kind, scope, rec))
DelMask(w, b, kind, scope, mask, share) ==
  LET i == At(w.lists[b][kind][scope], mask)
  IN  IF i = 0 THEN w ELSE Removed(w, b, kind, scope, i, share)

\* u_setsticky_mask
SetSticky(w, b, kind, scope, i, sticky, share) ==
  LET rec == [w.lists[b][kind][scope][i] EXCEPT !.sticky = sticky]
  IN  Tell([w EXCEPT !.lists[b][kind][scope][i] = rec], b, share, Line("s", kind, scope, rec))

-----------------------------------------------------------------------------
(* What .bans and its like show: every entry has a number, the global list    *)
(* first, then the channel's, then what is set there and on neither.          *)

Unlisted(w, b, kind, chan) ==
  IF kind = "ignore" THEN <<>>
  ELSE SelectSeq(w.live[kind][chan], LAMBDA x :
         ~Lists(w.lists[b][kind][Everywhere], x.mask) /\ ~Lists(w.lists[b][kind][chan], x.mask))
Shown(w, b, kind, chan) ==
  w.lists[b][kind][Everywhere] \o w.lists[b][kind][chan] \o Unlisted(w, b, kind, chan)

-----------------------------------------------------------------------------
(* Commands *)

Changing == changes < MaxChanges /\ changes' = changes + 1
CanSend  == \A b \in Bots : Len(wire[b]) < MaxWire
Command  == Changing /\ CanSend
Reach(scope) == IF scope = Everywhere THEN Chans ELSE {scope}

\* tcl_newban and its like
PlsMask(b, kind, scope, rec) ==
  /\ Command /\ kind \in Kinds /\ ~Refused(b, kind, rec.mask)
  /\ Becomes({Enforce(Add(World, b, kind, scope, rec, TRUE), b, kind, Reach(scope), rec.mask, rec.sticky)})
\* cmd_pls_ban, cmd_pls_exempt, cmd_pls_invite
PlsBan(b, scope, rec)    == PlsMask(b, "ban", scope, rec)
PlsExempt(b, scope, rec) == PlsMask(b, "exempt", scope, rec)
PlsInvite(b, scope, rec) == PlsMask(b, "invite", scope, rec)

\* Mutant: one too many is taken off for the global list.
MnsNumberOff(w, b, kind, chan, n, console, glob) ==
  LET all  == w.lists[b][kind][Everywhere]
      mine == w.lists[b][kind][chan]
      rest == n - Len(all) + 1
      gone(scope, i) == Removed(w, b, kind, scope, i, TRUE)
  IN  IF n \in DOMAIN all THEN AddModes(gone(Everywhere, n), b, "-", kind, Chans, all[n].mask)
      ELSE IF rest \in 1..Len(mine) THEN AddMode(gone(chan, rest), b, "-", kind, chan, mine[rest].mask)
      ELSE w

\* A number, for -ban and its like: first the global list, if no channel was named and for those who
\* may; the mask that is taken off the channels is the one that was deleted last.
MnsNumber(w, b, kind, chan, n, console, glob) ==
  LET all  == w.lists[b][kind][Everywhere]
      mine == w.lists[b][kind][chan]
      res  == DelResult(all, n)
      done == IF n \in DOMAIN all /\ glob THEN Removed(w, b, kind, Everywhere, n, TRUE) ELSE w
      rest == -res
      more == Unlisted(w, b, kind, chan)
  IN  IF console /\ res > 0
      THEN IF done.last[b] = None THEN done ELSE AddModes(done, b, "-", kind, Chans, done.last[b])
      ELSE IF res >= 0 THEN w
      ELSE IF rest \in DOMAIN mine
      THEN AddMode(Removed(w, b, kind, chan, rest, TRUE), b, "-", kind, chan, mine[rest].mask)
      ELSE IF rest - Len(mine) \in DOMAIN more
      THEN AddMode(w, b, "-", kind, chan, more[rest - Len(mine)].mask)
      ELSE w
MnsByNumber(b, kind, chan, n, console, glob) ==
  Command /\ LetterOf(kind) /\ Becomes({MnsNumber(World, b, kind, chan, n, console, glob)})

\* A mask, for -ban and its like
MnsMask(b, kind, chan, mask, console, glob) ==
  LET all  == lists[b][kind][Everywhere]
      mine == lists[b][kind][chan]
      done == IF glob THEN DelMask(World, b, kind, Everywhere, mask, TRUE) ELSE World
  IN  /\ Command /\ LetterOf(kind)
      /\ Becomes({IF console /\ Lists(all, mask)
                  THEN AddModes(done, b, "-", kind, Chans, IF done.last[b] = None THEN mask ELSE done.last[b])
                  ELSE IF Lists(mine, mask) \/ Set(World, kind, chan, mask)
                  THEN AddMode(DelMask(World, b, kind, chan, mask, TRUE), b, "-", kind, chan, mask)
                  ELSE World})

\* tcl_killban and its like
Kill(b, kind, scope, mask) ==
  /\ Command /\ LetterOf(kind) /\ Lists(lists[b][kind][scope], mask)
  /\ Becomes({AddModes(DelMask(World, b, kind, scope, mask, TRUE), b, "-", kind, Reach(scope), mask)})

\* cmd_stick, cmd_unstick: by number or mask; bans are set again.
Stuck(b, kind, scope, i, sticky) ==
  LET w == SetSticky(World, b, kind, scope, i, sticky, TRUE)
  IN  IF kind = "ban" THEN Enforce(w, b, kind, Reach(scope), lists[b][kind][scope][i].mask, sticky) ELSE w
StickNumber(b, kind, chan, n, console, glob, sticky) ==
  LET all  == lists[b][kind][Everywhere]
      rest == IF n > Len(all) THEN n - Len(all) ELSE n
  IN  /\ Command /\ LetterOf(kind) /\ n # 0
      /\ Becomes({IF console /\ glob /\ n <= Len(all) THEN Stuck(b, kind, Everywhere, n, sticky)
                  ELSE IF rest \in DOMAIN lists[b][kind][chan] THEN Stuck(b, kind, chan, rest, sticky)
                  ELSE World})
StickMask(b, kind, chan, mask, console, glob, sticky) ==
  LET scope == IF console /\ glob /\ Lists(lists[b][kind][Everywhere], mask) THEN Everywhere ELSE chan
  IN  /\ Command /\ LetterOf(kind) /\ Lists(lists[b][kind][scope], mask)
      /\ Becomes({Stuck(b, kind, scope, At(lists[b][kind][scope], mask), sticky)})
\* tcl_stick: the channel's list, then the global one; nothing is set.
TclStick(b, kind, scopes, mask, sticky) ==
  LET scope == IF \E s \in scopes \ {Everywhere} : Lists(lists[b][kind][s], mask)
               THEN CHOOSE s \in scopes : s # Everywhere ELSE Everywhere
  IN  /\ Command /\ LetterOf(kind) /\ Lists(lists[b][kind][scope], mask)
      /\ Becomes({SetSticky(World, b, kind, scope, At(lists[b][kind][scope], mask), sticky, TRUE)})

\* cmd_pls_ignore, tcl_newignore; cmd_mns_ignore, tcl_killignore, which take a number as well
PlsIgnore(b, rec) ==
  Command /\ ~rec.sticky /\ Becomes({Add(World, b, "ignore", Everywhere, rec, TRUE)})
MnsIgnore(b, i) ==
  /\ Command /\ i \in DOMAIN lists[b]["ignore"][Everywhere]
  /\ Becomes({Removed(World, b, "ignore", Everywhere, i, TRUE)})

-----------------------------------------------------------------------------
(* Time *)

\* A record's time has come.
Due(b, kind, scope, i) ==
  /\ lists[b][kind][scope][i].when = "later"
  /\ Becomes({[World EXCEPT !.lists[b][kind][scope][i].when = "due"]})

\* expired_mask: what the other bot has set, it would set again.
Expires(w, b, kind, chan, mask) ==
  IF \E i \in DOMAIN w.live[kind][chan] : w.live[kind][chan][i] = [mask |-> mask, by |-> b]
  THEN AddMode(w, b, "-", kind, chan, mask) ELSE w

Needed(w, chan, mask) == \E i \in DOMAIN w.live["ban"][chan] : w.live["ban"][chan][i].mask \in Answers[mask]

\* check_expired_bans, _exempts, _invites, _ignores: an exempt stays where a ban stands; the record
\* of the channel's own stays as well, the global one goes.
CheckRec(w, b, kind, scope, mask) ==
  LET needed == {c \in Reach(scope) : kind = "exempt" /\ Needed(w, c, mask)}
      off    == FoldSet(LAMBDA c, v : IF LetterOf(kind) THEN Expires(v, b, kind, c, mask) ELSE v,
                        w, Reach(scope) \ needed)
  IN  IF scope # Everywhere /\ needed # {} THEN w
      ELSE DelMask(off, b, kind, scope, mask, TRUE)
Overdue(list) == [j \in DOMAIN SelectSeq(list, LAMBDA r : r.when = "due") |->
                    SelectSeq(list, LAMBDA r : r.when = "due")[j].mask]
CheckExpired(b, kind) ==
  LET one(w, scope) == FoldLeft(LAMBDA v, mask : CheckRec(v, b, kind, scope, mask), w,
                                Overdue(w.lists[b][kind][scope]))
  IN  /\ CanSend
      /\ \E scope \in Scopes : Overdue(lists[b][kind][scope]) # <<>>
      /\ Becomes({FoldSet(LAMBDA c, w : one(w, c), one(World, Everywhere), Chans)})

-----------------------------------------------------------------------------
(* The user file *)

\* write_bans, write_exempts, write_invites, write_ignores; of one bot only, to have fewer states
Save(b) == Others(b) = {} /\ Becomes({[World EXCEPT !.file[b] = lists[b]]})

\* restore_chanban and its like put each at the head; exempts and invites are only read back for
\* the channels whose names begin with # or +.
Restored(saved) ==
  [kind \in Kinds |-> [scope \in Scopes |->
     IF kind \in {"exempt", "invite"} /\ scope \in Chans \ Plain THEN <<>> ELSE Reverse(saved[kind][scope])]]

\* Mutant: what is there already is not cleared first.
ReloadedOnto(w, b) ==
  [w EXCEPT !.lists[b] = [kind \in Kinds |-> [scope \in Scopes |->
                            Restored(w.file[b])[kind][scope] \o w.lists[b][kind][scope]]]]
\* clear_userlist, then readuserfile; with another bot, sharing starts anew (Share.tla).
Reloaded(w, b) == [w EXCEPT !.lists[b] = Restored(w.file[b])]
Reload(b) == Changing /\ Others(b) = {} /\ Becomes({Reloaded(World, b)})

-----------------------------------------------------------------------------
(* The other bot *)

\* The hub's lists on their way, as its user file has them
SendFile ==
  /\ Changing /\ CanSend /\ Cardinality(Bots) = 2 /\ \A b \in Bots : wire[b] = <<>>
  /\ Becomes({[World EXCEPT !.wire[Hub] = <<[op |-> "file", kind |-> None, scope |-> None, mask |-> None,
                                              lists |-> lists[Hub]]>>]})
\* finish_share: what is shared is deleted, then read.
GotFile(w, b, line) ==
  [w EXCEPT !.lists[b] = [kind \in Kinds |-> [scope \in Scopes |->
                            IF scope \in Shared \cup {Everywhere} THEN Restored(line.lists)[kind][scope]
                            ELSE @[kind][scope]]],
            !.crossed = {}]

\* share_pls_exempt, share_pls_invite, share_pls_ignore
GotPls(w, b, line) == Add(w, b, line.kind, line.scope, Rec(line.mask, line.when, line.sticky), FALSE)
\* share_pls_ban and share_pls_banchan enforce it, even one that the bot refuses to have.
GotPlsBan(w, b, line) ==
  Enforce(IF Refused(b, "ban", line.mask) THEN w ELSE GotPls(w, b, line),
          b, "ban", Reach(line.scope) \cap Shared, line.mask, line.sticky)
\* share_mns_ban and its like; add_delay
GotMns(w, b, line) ==
  IF ~Lists(w.lists[b][line.kind][line.scope], line.mask) THEN w
  ELSE [DelMask(w, b, line.kind, line.scope, line.mask, FALSE) EXCEPT
          !.delayed = IF LetterOf(line.kind)
                      THEN @ \cup {[bot |-> b, kind |-> line.kind, chan |-> c, mask |-> line.mask] :
                                     c \in Reach(line.scope)}
                      ELSE @]
\* share_stick_ban and its like
GotStick(w, b, line) ==
  LET i == At(w.lists[b][line.kind][line.scope], line.mask)
  IN  IF i = 0 THEN w ELSE SetSticky(w, b, line.kind, line.scope, i, line.sticky, FALSE)
Obeyed(w, b, line) ==
  IF line.op = "file" THEN GotFile(w, b, line)
  ELSE IF line.op = "+" THEN (IF line.kind = "ban" THEN GotPlsBan(w, b, line) ELSE GotPls(w, b, line))
  ELSE IF line.op = "-" THEN GotMns(w, b, line)
  ELSE GotStick(w, b, line)
Receive(b) ==
  \E o \in Others(b) :
    /\ wire[o] # <<>>
    /\ Becomes({Obeyed([World EXCEPT !.wire[o] = Tail(@)], b, Head(wire[o]))})

\* check_delay
CheckDelay(d) ==
  Becomes({AddMode([World EXCEPT !.delayed = @ \ {d}], d.bot, "-", d.kind, d.chan, d.mask)})

\* Somebody else sets or removes a mask.
ByOthers(kind, chan, mask) ==
  /\ Changing /\ LetterOf(kind)
  /\ Becomes({IF Set(World, kind, chan, mask) THEN AddMode(World, None, "-", kind, chan, mask)
              ELSE AddMode(World, None, "+", kind, chan, mask)})

-----------------------------------------------------------------------------
Empty == [kind \in Kinds |-> [scope \in Scopes |-> <<>>]]
Init ==
  /\ lists = [b \in Bots |-> Empty] /\ file = [b \in Bots |-> Empty]
  /\ lastdeleted = [b \in Bots |-> None] /\ live = [kind \in Kinds |-> [c \in Chans |-> <<>>]]
  /\ delayed = {} /\ wire = [b \in Bots |-> <<>>] /\ crossed = {} /\ changes = 0

Numbers == 0..3
Commands(b) ==
  \E kind \in Kinds :
    \/ \E scope \in Scopes, rec \in Recs :
         PlsBan(b, scope, rec) \/ PlsExempt(b, scope, rec) \/ PlsInvite(b, scope, rec)
    \/ \E scope \in Scopes, m \in Masks : Kill(b, kind, scope, m)
    \/ \E chan \in Chans, console, glob \in BOOLEAN :
         \/ \E n \in Numbers : \/ MnsByNumber(b, kind, chan, n, console, glob)
                               \/ \E yn \in BOOLEAN : StickNumber(b, kind, chan, n, console, glob, yn)
         \/ \E m \in Masks : \/ MnsMask(b, kind, chan, m, console, glob)
                             \/ \E yn \in BOOLEAN : StickMask(b, kind, chan, m, console, glob, yn)
    \/ \E chan \in Chans, m \in Masks, yn \in BOOLEAN :
         TclStick(b, kind, {Everywhere, chan}, m, yn) \/ TclStick(b, kind, {Everywhere}, m, yn)
    \/ kind = "ignore" /\ \/ \E rec \in Recs : PlsIgnore(b, rec)
                          \/ \E i \in 1..3 : MnsIgnore(b, i)
Timed(b) ==
  /\ UNCHANGED changes
  /\ \E kind \in Kinds :
       \/ CheckExpired(b, kind)
       \/ \E scope \in Scopes : \E i \in DOMAIN lists[b][kind][scope] : Due(b, kind, scope, i)
Between(b) == UNCHANGED changes /\ (Receive(b) \/ Save(b))

Next ==
  \/ \E b \in Bots : Commands(b) \/ Timed(b) \/ Between(b) \/ Reload(b)
  \/ SendFile
  \/ UNCHANGED changes /\ \E d \in delayed : CheckDelay(d)
  \/ \E kind \in Kinds, chan \in Chans, m \in Masks : ByOthers(kind, chan, m)

Spec == Init /\ [][Next]_vars

-----------------------------------------------------------------------------
(* Properties *)

TypeOK ==
  /\ \A b \in Bots, kind \in Kinds, scope \in Scopes, i \in 1..3 :
       i \in DOMAIN lists[b][kind][scope] =>
         lists[b][kind][scope][i] \in [mask : Masks, when : {"never", "later", "due"}, sticky : BOOLEAN]
  /\ \A b \in Bots : lastdeleted[b] \in Masks \cup {None} /\ Len(wire[b]) <= MaxWire + 1

\* A list has a mask once, and so has a channel: commands, scripts, the file and the other bot.
NoTwins ==
  /\ \A b \in Bots, kind \in Kinds, scope \in Scopes :
       \A i, j \in DOMAIN lists[b][kind][scope] :
         lists[b][kind][scope][i].mask = lists[b][kind][scope][j].mask => i = j
  /\ \A kind \in Kinds, chan \in Chans : \A i, j \in DOMAIN live[kind][chan] :
       live[kind][chan][i].mask = live[kind][chan][j].mask => i = j

Recorded(list) == {list[i] : i \in DOMAIN list}
\* The number that .bans shows is the one -ban understands (for whoever may change the global list):
\* that entry goes, is taken off the channel, and nothing else.
NumberMeans(b, kind, chan, n) ==
  LET shown == Shown(World, b, kind, chan)
      now   == lists'[b][kind]
      masks == {shown[i].mask : i \in {n} \cap DOMAIN shown}
  IN  /\ now[Everywhere] \o now[chan] =
           LET both == lists[b][kind][Everywhere] \o lists[b][kind][chan]
           IN  IF n \in DOMAIN both THEN RemoveAt(both, n) ELSE both
      /\ live'[kind][chan] = SelectSeq(live[kind][chan], LAMBDA x : x.mask \notin masks)

\* An exempt does not expire on a channel where a ban that it is there for is set.
ExemptStays(b) ==
  \A chan \in Chans, m \in Masks :
    Set(World, "exempt", chan, m) /\ Needed(World, chan, m) => Lists(live'["exempt"][chan], m)

\* Two bots that share have the same masks when nothing is on its way, save those that both changed
\* at the same time, and those that match one of them.
Shareable(b, kind, scope) ==
  {<<r.mask, r.when = "never", r.sticky>> :
     r \in {x \in Recorded(lists[b][kind][scope]) :
              <<kind, scope, x.mask>> \notin crossed /\ \A o \in Bots : x.mask \notin Own[o]}}
BotsAgree ==
  (\A b \in Bots : wire[b] = <<>>) =>
    \A b, o \in Bots, kind \in Kinds, scope \in Shared \cup {Everywhere} :
      scope \in Scopes => Shareable(b, kind, scope) = Shareable(o, kind, scope)
=============================================================================
