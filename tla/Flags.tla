-------------------------------- MODULE Flags --------------------------------
(***************************************************************************)
(* What a user may do (flags.c; chattr, botattr, console and their like in   *)
(* cmds.c, tcluser.c and tcldcc.c; the console module; the file area's door; *)
(* share_chattr).  A record has global flags, flags on channels and, for a   *)
(* bot, bot flags; a change of them is text, is brought into order, sent to  *)
(* the bots that share, and taken to the sessions that are there: what they  *)
(* see on their console and where they are follows what they may.            *)
(*                                                                         *)
(* A flag is a letter, as it is written: capitals are the scripts' own.      *)
(* Console modes stand for their kinds: r what an owner may see, x a master, *)
(* b a botnet master, o a master of the channel, m everybody.                *)
(***************************************************************************)
EXTENDS Naturals, Sequences, SequencesExt, FiniteSets

CONSTANTS
  Bots, Hands, Owners, Bees,  \* bots that share; handles; the owner setting's; those of bots
  Chans,      \* the channels, in the order of the list
  Shared,     \* those that are shared
  First,      \* [Hands -> flags at first]
  Sessions,   \* [1..n -> handle]: who comes to each bot
  Changes, BotChanges, Modes,  \* texts of chattr, botattr, console: sequences of characters
  Strips,     \* texts of strip
  RequireP, AllowDk, RawLog, PrivateGlobals,   \* settings
  Scripts,    \* Tcl changes things too
  MaxWire, MaxChanges

VARIABLES
  accounts, \* [Bots -> [Hands -> [global, chan, bot]]]
  dcc,      \* [Bots -> the sessions]
  stored,   \* [Bots -> [Hands -> console settings, or None]]
  wire,     \* [Bots -> Seq of lines to it]
  crossed,  \* handles both bots changed at once
  changes
vars == <<accounts, dcc, stored, wire, crossed, changes>>

None == <<>>
ChanSet == {Chans[k] : k \in DOMAIN Chans}
NoFlags == [global |-> {}, chan |-> [c \in ChanSet |-> {}], bot |-> {}]
Gone == [hand |-> "", place |-> "", party |-> FALSE, back |-> FALSE, con |-> {}, at |-> "*",
         strip |-> {}, echo |-> FALSE, page |-> 0, lent |-> FALSE, missed |-> FALSE, leaf |-> FALSE]

-----------------------------------------------------------------------------
(* Flags as text.                                                           *)

Capitals == <<"A", "B", "C">>
Letters == <<"a", "b", "c", "d", "e", "f", "g", "h", "i", "j", "k", "l", "m", "n", "o", "p", "q", "r",
             "s", "t", "u", "v", "w", "x", "y", "z">> \o Capitals
BotLetters == SubSeq(Letters, 1, 21) \o <<"0", "1", "2", "3">>
UserValid == {Letters[k] : k \in DOMAIN Letters} \ {"i", "s"}
ChanValid == {"a", "d", "e", "f", "g", "k", "l", "m", "n", "o", "q", "r", "s", "v", "w", "y", "z"}
               \cup {Capitals[k] : k \in DOMAIN Capitals}
BotValid == {"a", "g", "h", "i", "l", "p", "r", "s", "0", "1", "2", "3"}
\* A digit means a capital where there are no digits.
Digit == [d \in {"0", "1", "2"} |-> CASE d = "0" -> "A" [] d = "1" -> "B" [] OTHER -> "C"]
Kind == <<"global", "chan", "bot">>
Valid == [global |-> UserValid, chan |-> ChanValid, bot |-> BotValid]

Meant(c, kind) ==
  Valid[kind] \cap {IF kind # "bot" /\ c \in DOMAIN Digit THEN Digit[c] ELSE c}
\* break_down_flags: which flags a text adds and takes away; match says what kinds it is about,
\* and the text goes through global, channel and bot flags at each | or &.
BreakDown(text, match, both) ==
  LET start == [kind |-> CASE "global" \in match -> 1 [] "bot" \in match -> 3 [] OTHER -> 2,
                neg |-> FALSE, and |-> FALSE,
                plus |-> [k \in {"global", "chan", "bot"} |-> {}],
                mns |-> [k \in {"global", "chan", "bot"} |-> {}]]
      step(s, c) ==
        CASE c = "+" -> [s EXCEPT !.neg = FALSE]
          [] c = "-" -> [s EXCEPT !.neg = both]
          [] c \in {"|", "&"} ->
               [s EXCEPT !.neg = FALSE, !.and = IF s.kind = 1 THEN c = "&" ELSE @,
                         !.kind = IF @ = 3 THEN 2 ELSE @ + 1]
          [] s.neg -> [s EXCEPT !.mns[Kind[s.kind]] = @ \cup Meant(c, Kind[s.kind])]
          [] OTHER -> [s EXCEPT !.plus[Kind[s.kind]] = @ \cup Meant(c, Kind[s.kind])]
  IN FoldLeft(step, start, text)

OrDash(text) == IF text = <<>> THEN <<"-">> ELSE text
Flag2Str(f) == OrDash(SelectSeq(Letters, LAMBDA c : c \in f))
\* Mutant: the digits are left out.
Bot2StrShort(f) == OrDash(SelectSeq(SubSeq(BotLetters, 1, 21), LAMBDA c : c \in f))
Bot2Str(f) == OrDash(SelectSeq(BotLetters, LAMBDA c : c \in f))
BuildFlags(fr, match) ==
  (IF "global" \in match THEN Flag2Str(fr.global) ELSE IF "bot" \in match THEN Bot2Str(fr.bot) ELSE <<>>)
    \o (IF "chan" \notin match THEN <<>>
        ELSE (IF match = {"chan"} THEN <<>> ELSE <<"|">>) \o Flag2Str(fr.chan))

\* sanity_check and chan_sanity_check: what excludes each other goes, in this order, and what is
\* implied comes.  (So o and d together are both taken off, but m brings o back; said again, the
\* same flags lose d too, if it had stayed.)
Clashes == << {"o", "d"}, {"l", "r"}, {"a", "d"}, {"y", "r"}, {"v", "q"}, {"g", "q"} >>
Resolved(f) == FoldLeft(LAMBDA s, p : IF p \subseteq s THEN s \ p ELSE s, f, Clashes)
Implied(f, rules) == FoldLeft(LAMBDA s, r : IF r[1] \in s THEN s \cup r[2] ELSE s, f, rules)
SanityCheck(f) ==
  Implied(Resolved(IF "b" \in f THEN f \ {"p", "m", "c", "n"} ELSE f),
          << <<"n", {"m"}>>, <<"m", {"t", "o", "j"}>>, <<"t", {"p"}>>, <<"j", {"x"}>>, <<"o", {"l"}>> >>)
ChanSanityCheck(f, global) ==
  Implied(Resolved(f), << <<"n", {"m"}>>, <<"m", {"o"}>>, <<"o", {"l"}>> >>)
    \ (IF "b" \in global THEN {} ELSE {"s"})
\* botfl_set: a bot is not a hub and an alternate, and one that is rejected is nothing else.
BotflSet(f) ==
  LET hub == IF {"h", "a"} \subseteq f THEN f \ {"a"} ELSE f
      kept == IF "r" \in hub /\ hub \cap {"s", "p", "h", "a"} # {} THEN hub \ {"s", "p", "h", "a", "r"} ELSE hub
  IN IF kept \cap {"s", "p"} = {} THEN kept \ {"g"} ELSE kept

-----------------------------------------------------------------------------
(* What flags allow.                                                        *)

OnChan(u, c) == IF c \in ChanSet THEN u.chan[c] ELSE {}
FlagrecEq(req, and, have, match) ==
  IF and THEN \A k \in match : req[k] \subseteq have[k]
  ELSE (\A k \in DOMAIN req : req[k] = {}) \/ \E k \in match : req[k] \cap have[k] # {}
FlagrecOk(req, and, have) ==
  CASE and -> FlagrecEq(req, TRUE, have, {"global", "chan"})
    [] ~and /\ req.global = {} /\ req.chan = {} ->
         AllowDk \/ "p" \in have.global \/ (have.global \cup have.chan) \cap {"k", "d"} = {}
    [] OTHER ->
         LET party == ~RequireP /\ ("o" \in have.global \/ "n" \in have.chan)
         IN \/ (have.global \cup (IF party THEN {"p"} ELSE {})) \cap req.global # {}
            \/ have.chan \cap req.chan # {}
\* matchattr: all, or one, of what is asked for, and not one, or all, of what is asked against.
Matchattr(u, text, c) ==
  LET match == {"global", "bot"} \cup (IF c = "" THEN {} ELSE {"chan"})
      q == BreakDown(text, match, TRUE)
      have == [global |-> u.global, chan |-> OnChan(u, c), bot |-> u.bot]
  IN /\ FlagrecEq(q.plus, q.and, have, match)
     /\ (\A k \in match \cup {"chan"} : q.mns[k] = {}) \/ ~FlagrecEq(q.mns, ~q.and, have, match)
Anywhere(u) == u.global \cup UNION {u.chan[c] : c \in ChanSet}
Geticon(u) ==
  LET f == Anywhere(u)
  IN CASE "n" \in f -> "*" [] "m" \in f -> "+" [] "t" \in u.global -> "%"
       [] "o" \in f -> "@" [] "l" \in f -> "^" [] OTHER -> "-"
\* A command is for those whose flags, on the channel of their console, meet its own.
Commands(u, s, text) ==
  LET q == BreakDown(text, {"global", "chan"}, FALSE)
  IN FlagrecOk(q.plus, q.and, [global |-> u.global, chan |-> OnChan(u, s.at)])

ConMask == {"m", "o", "b", "x"}
LogModes(c) == IF c = "*" THEN ConMask \cup {"r"} ELSE IF c = "r" /\ ~RawLog THEN {} ELSE {c}
MaskType(con) == IF RawLog THEN con ELSE con \ {"r"}
\* check_conflags: what of a console somebody with these flags may have.
CheckConflags(u, at, con) ==
  con \ ((IF "n" \in u.global THEN {} ELSE {"r"}) \cup (IF "t" \in u.global THEN {} ELSE {"b"})
           \cup (IF "m" \in u.global THEN {}
                 ELSE {"x"} \cup (IF "m" \in OnChan(u, at) THEN {} ELSE {"o"})))

-----------------------------------------------------------------------------
(* A change, as it is made at one bot: its records, its sessions, and the     *)
(* lines it sends.                                                          *)

World(b) == [u |-> accounts[b], s |-> dcc[b], out |-> <<>>]
Line(h, text, c) == [hand |-> h, text |-> text, chan |-> c]
\* set_user_flagrec, for global flags and for those of a channel.
SetGlobal(w, h, f, quiet) ==
  [w EXCEPT !.u[h].global = f,
            !.out = IF quiet \/ "u" \in f THEN @ ELSE Append(@, Line(h, BuildFlags([global |-> f], {"global"}), ""))]
SetChan(w, h, c, f, quiet) ==
  [w EXCEPT !.u[h].chan[c] = f,
            !.out = IF quiet \/ "u" \in w.u[h].global \/ c \notin Shared THEN @
                    ELSE Append(@, Line(h, BuildFlags([chan |-> f], {"chan"}), c))]
SetBot(w, h, f) == IF "b" \in w.u[h].global THEN [w EXCEPT !.u[h].bot = BotflSet(f \cap BotValid)] ELSE w

\* check_dcc_attrs for one session.  In the file area it takes the file area's data for the
\* console's, which stays as it was.
Rechecked(s, u, old) ==
  LET may == {"m", "p"} \cup (IF RequireP THEN {} ELSE {"o"})
      party == IF "o" \in u.global THEN FALSE ELSE s.party \/ "m" \notin u.global
      back == (s.back \/ s.place = "files") /\ (u.global \cap may # {})
      con == IF "m" \in u.global \ old THEN s.con \cup ConMask ELSE s.con
      t == [s EXCEPT !.party = party, !.back = back]
  IN CASE s.place = "bot" -> [s EXCEPT !.leaf = "l" \in u.bot]
       [] s.place = "chat" -> [t EXCEPT !.con = CheckConflags(u, s.at, con), !.lent = FALSE, !.missed = FALSE]
       [] u.global \cap {"x", "m"} # {} -> [t EXCEPT !.missed = TRUE]
       [] back -> [t EXCEPT !.place = "chat", !.back = FALSE, !.missed = TRUE]
       [] OTHER -> Gone
\* Mutant: somebody in the file area stays there.
CheckDccAttrsStay(w, h, old) ==
  LET u == [w.u[h] EXCEPT !.global = IF h \in Owners THEN SanityCheck(@ \cup {"n"}) ELSE @]
  IN [w EXCEPT !.u[h] = u,
               !.s = [i \in DOMAIN @ |-> IF @[i].hand = h /\ @[i].place \in {"chat", "bot"}
                                          THEN Rechecked(@[i], u, old) ELSE @[i]]]
CheckDccAttrs(w, h, old) ==
  LET u == [w.u[h] EXCEPT !.global = IF h \in Owners THEN SanityCheck(@ \cup {"n"}) ELSE @]
  IN [w EXCEPT !.u[h] = u,
               !.s = [i \in DOMAIN @ |-> IF @[i].hand = h THEN Rechecked(@[i], u, old) ELSE @[i]]]
\* check_dcc_chanattrs: who has come to have, or no longer has, a rank on a channel is shown
\* another: the one that follows the first where he has one (the loop goes one too far).
ChanOf(u) ==
  LET his == {k \in DOMAIN Chans : u.chan[Chans[k]] \cap {"o", "m", "n"} # {}}
      first == CHOOSE k \in his : \A j \in his : k <= j
  IN IF his = {} \/ first = Len(Chans) THEN Chans[1] ELSE Chans[first + 1]
CheckDccChanattrs(w, h, new, old) ==
  LET ranked(f) == f \cap {"o", "m", "n"} # {}
      checked(s) ==
        LET at == IF ranked(new) # ranked(old) THEN ChanOf(w.u[h]) ELSE s.at
            con == IF "m" \in new \ old THEN s.con \cup ConMask ELSE s.con
        IN CASE s.place = "chat" -> [s EXCEPT !.at = at, !.con = CheckConflags(w.u[h], at, con),
                                          !.lent = FALSE, !.missed = FALSE]
             [] s.place = "files" -> [s EXCEPT !.missed = TRUE]
             [] OTHER -> s
  IN [w EXCEPT !.s = [i \in DOMAIN @ |-> IF @[i].hand = h THEN checked(@[i]) ELSE @[i]]]

Others(b) == Bots \ {b}
Commit(b, w) ==
  /\ accounts' = [accounts EXCEPT ![b] = w.u]
  /\ dcc' = [dcc EXCEPT ![b] = w.s]
  /\ wire' = [x \in Bots |-> IF x = b THEN wire[b] ELSE wire[x] \o w.out]
  /\ \A x \in Others(b) : Len(wire'[x]) <= MaxWire
  /\ crossed' = crossed \cup ({w.out[k].hand : k \in DOMAIN w.out} \cap {wire[b][k].hand : k \in DOMAIN wire[b]})
Change == changes < MaxChanges /\ changes' = changes + 1

Init ==
  /\ accounts = [b \in Bots |-> [h \in Hands |-> [NoFlags EXCEPT !.global = SanityCheck(First[h])]]]
  /\ dcc = [b \in Bots |-> [i \in DOMAIN Sessions |-> Gone]]
  /\ stored = [b \in Bots |-> [h \in Hands |-> None]]
  /\ wire = [b \in Bots |-> <<>>]
  /\ crossed = {} /\ changes = 0

-----------------------------------------------------------------------------
(* chattr and botattr.                                                      *)

HasBar(text) == \E k \in DOMAIN text : text[k] \in {"|", "&"}
\* The channel meant: the one that is given, or the console's if the text speaks of channels.
Where(at, text, given) == IF given # "" THEN given ELSE IF HasBar(text) /\ at # "*" THEN at ELSE ""
Said(text, given) == IF given # "" /\ ~HasBar(text) THEN <<"|">> \o text ELSE text

\* What cmd_chattr lets somebody change: of the global flags, and of those of a channel.
\* (The scripts' own global flags anybody may who may use the command.)
Own == {Capitals[k] : k \in DOMAIN Capitals}
\* Mutant: a master may make others masters.
MayGlobalAll(by) ==
  Own \cup (CASE by \cap {"n", "m"} # {} -> UserValid \ {"b"}
              [] by \cap {"n", "m"} = {} /\ "t" \in by -> {"p", "x"}
              [] OTHER -> {})
MayGlobal(by) ==
  Own \cup (CASE "n" \in by -> UserValid \ {"b"}
              [] "n" \notin by /\ "m" \in by -> UserValid \ {"b", "n", "m", "t", "u"}
              [] by \cap {"n", "m"} = {} /\ "t" \in by -> {"p", "x"}
              [] OTHER -> {})
MayChan(by, onchan) ==
  ChanValid \ ({"s"} \cup (IF "n" \in by THEN {} ELSE {"n"}) \cup (IF "n" \in by \cup onchan THEN {} ELSE {"m"}))

\* What both chattrs do to u2 once they know what is to come and what to go.
Apply(w, h, q, c, global, chan) ==
  LET u == w.u[h]
      f == SanityCheck((u.global \cup (q.plus.global \cap global)) \ (q.mns.global \cap global))
      set == SetGlobal(w, h, f, FALSE)
      g == ChanSanityCheck((u.chan[c] \cup (q.plus.chan \cap chan)) \ (q.mns.chan \cap chan), f)
      seen == CheckDccAttrs(IF c = "" THEN set ELSE SetChan(set, h, c, g, FALSE), h, u.global)
  IN IF c = "" THEN seen ELSE CheckDccChanattrs(seen, h, g \ {"s"}, u.chan[c])
Matches(c) == IF c = "" THEN {"global"} ELSE {"global", "chan"}
Chattr(b, i, h, text, given) ==
  LET s == dcc[b][i]  u == accounts[b][s.hand]
      c == Where(s.at, text, given)
      q == BreakDown(Said(text, given), Matches(c), TRUE)
  IN /\ Change /\ s.place = "chat" /\ Commands(u, s, <<"m", "|", "m">>)
     /\ IF c = "" THEN "t" \in u.global ELSE "m" \in u.global \cup u.chan[c]
     /\ Commit(b, Apply(World(b), h, q, c, MayGlobal(u.global), MayChan(u.global, OnChan(u, c))))
     /\ UNCHANGED stored
TclChattr(b, h, text, c) ==
  /\ Scripts /\ Change
  /\ Commit(b, Apply(World(b), h, BreakDown(text, Matches(c), TRUE), c, UserValid \ {"b"}, ChanValid \ {"s"}))
  /\ UNCHANGED stored

\* A bot's flags are changed while it is not linked; s on a channel shares the channel with it.
BotMatches(c) == IF c = "" THEN {"bot"} ELSE {"bot", "chan"}
SetBotAttr(w, h, f, c, g) ==
  LET set == SetBot(w, h, f) IN IF c = "" THEN set ELSE SetChan(set, h, c, g, FALSE)
Botattr(b, i, h, text, given) ==
  LET s == dcc[b][i]  u == accounts[b][s.hand]
      c == Where(s.at, text, given)
      q == BreakDown(Said(text, given), BotMatches(c), TRUE)
      f == (accounts[b][h].bot \cup q.plus.bot) \ q.mns.bot
      g == (accounts[b][h].chan[c] \cup (q.plus.chan \cap {"s"})) \ (q.mns.chan \cap {"s"})
  IN /\ Change /\ s.place = "chat" /\ h \in Bees /\ \A j \in DOMAIN dcc[b] : dcc[b][j].hand # h
     /\ Commands(u, s, <<"n">>) /\ "t" \in u.global
     /\ Commit(b, SetBotAttr(World(b), h, IF {"s", "p"} \subseteq f THEN f \ {"s", "p"} ELSE f, c, g))
     /\ UNCHANGED stored
\* A script's botattr brings a bot's flags into order as if they were a user's: l and r exclude
\* each other, and so do 3 and r (it is where a user's y would be).
AsUser(f) == {IF x = "3" THEN "y" ELSE x : x \in f \ {"0", "1", "2"}} 
TclBotattr(b, h, text, c) ==
  LET q == BreakDown(text, BotMatches(c), TRUE)
      f == (accounts[b][h].bot \cup q.plus.bot) \ q.mns.bot
      kept == {x \in f : x \in {"0", "1", "2"} \/ (IF x = "3" THEN "y" ELSE x) \in SanityCheck(AsUser(f))}
      own == ChanValid \ Own
  IN /\ Scripts /\ Change /\ h \in Bees
     /\ Commit(b, SetBotAttr(World(b), h, kept, c,
                             (accounts[b][h].chan[c] \cup (q.plus.chan \ (own \ {"s"}))) \ (q.mns.chan \ (own \ {"s"}))))
     /\ UNCHANGED stored

\* share_chattr.  Flags on a channel are taken as they come, s apart; global ones are brought into
\* order again, whether the handle is a bot's stays, and so do those this bot keeps to itself.
\* (What was there before is not looked at: a new master is not given a master's console.)
ShareChattr(b) ==
  LET l == Head(wire[b])  u == accounts[b][l.hand]  w == World(b)
      sent == BreakDown(l.text, IF l.chan = "" THEN {"global"} ELSE {"chan"}, FALSE).plus
      g == (sent.chan \ {"s"}) \cup (u.chan[l.chan] \cap {"s"})
      f == SanityCheck((sent.global \ PrivateGlobals) \cup (u.global \cap (PrivateGlobals \cup {"b"})))
  IN /\ wire[b] # <<>>
     /\ LET v == CASE "u" \in u.global \/ l.chan \notin Shared \cup {""} -> w
                   [] "u" \notin u.global /\ l.chan \in Shared ->
                        CheckDccChanattrs(SetChan(w, l.hand, l.chan, g, TRUE), l.hand, g, u.chan[l.chan])
                   [] OTHER -> CheckDccAttrs(SetGlobal(w, l.hand, f, TRUE), l.hand, sent.global)
        IN accounts' = [accounts EXCEPT ![b] = v.u] /\ dcc' = [dcc EXCEPT ![b] = v.s]
     /\ wire' = [wire EXCEPT ![b] = Tail(@)]
     /\ UNCHANGED <<stored, crossed, changes>>

-----------------------------------------------------------------------------
(* Sessions and their consoles.                                             *)

Shown(s) == [at |-> s.at, con |-> s.con, strip |-> s.strip, echo |-> s.echo, page |-> s.page]
\* One session, and its user's stored settings if keep (console-autosave, or store).
Set(b, i, s, keep) ==
  /\ dcc' = [dcc EXCEPT ![b][i] = s]
  /\ stored' = IF keep THEN [stored EXCEPT ![b][s.hand] = Shown(s)] ELSE stored
  /\ UNCHANGED <<wire, crossed>>

\* Coming to the party line: by chon, the stored console, or a channel on which he has a rank.
ChanAtLogin(u) ==
  LET rank == CASE "n" \in Anywhere(u) -> "n" [] "m" \in Anywhere(u) -> "m" [] OTHER -> "o"
      his == {k \in DOMAIN Chans : rank \in u.chan[Chans[k]]}
  IN IF "o" \in u.global \/ his = {} THEN Chans[1] ELSE Chans[CHOOSE k \in his : \A j \in his : k <= j]
\* Mutant: stored modes are given back as they are.
ChonAsStored(u, s, st) ==
  IF st = None THEN [s EXCEPT !.at = ChanAtLogin(u)]
  ELSE [s EXCEPT !.at = st.at, !.con = st.con, !.strip = st.strip, !.echo = st.echo, !.page = st.page]
Chon(u, s, st) ==
  IF st = None THEN [s EXCEPT !.at = ChanAtLogin(u)]
  ELSE [s EXCEPT !.at = st.at, !.con = CheckConflags(u, st.at, st.con), !.strip = st.strip, !.echo = st.echo,
                 !.page = st.page]
Login(b, i) ==
  LET h == Sessions[i]  u == accounts[b][h]
      party == "p" \in u.global /\ "t" \notin u.global /\ "o" \notin Anywhere(u)
      s == [Gone EXCEPT !.hand = h, !.place = "chat", !.party = party,
                        !.con = IF "m" \in u.global THEN ConMask ELSE {}]
  IN /\ dcc[b][i] = Gone /\ h \notin Bees
     /\ "p" \in u.global \/ (~RequireP /\ "o" \in Anywhere(u))
     /\ Set(b, i, Chon(u, s, stored[b][h]), FALSE)
     /\ UNCHANGED <<accounts, changes>>
\* A bot links: a leaf is one whose flags say so.
LinkUp(b, i) ==
  /\ dcc[b][i] = Gone /\ Sessions[i] \in Bees
  /\ Set(b, i, [Gone EXCEPT !.hand = Sessions[i], !.place = "bot", !.leaf = "l" \in accounts[b][Sessions[i]].bot], FALSE)
  /\ UNCHANGED <<accounts, changes>>
Leaves(b, i) ==
  /\ dcc[b][i] # Gone /\ dcc' = [dcc EXCEPT ![b][i] = Gone]
  /\ UNCHANGED <<accounts, stored, wire, crossed, changes>>
\* boot: a bot owner only boots himself.
Boot(b, i, h) ==
  LET s == dcc[b][i]
      his == {j \in DOMAIN dcc[b] : dcc[b][j].hand = h /\ dcc[b][j].place \in {"chat", "files"}}
  IN /\ s.place = "chat" /\ Commands(accounts[b][s.hand], s, <<"n">>) /\ his # {}
     /\ "n" \in accounts[b][h].global => h = s.hand
     /\ "m" \in accounts[b][h].global => "m" \in accounts[b][s.hand].global
     /\ dcc' = [dcc EXCEPT ![b][CHOOSE j \in his : \A k \in his : j <= k] = Gone]
     /\ UNCHANGED <<accounts, stored, wire, crossed, changes>>

\* The file area, and back to the party line from it, or out.
Files(b, i) ==
  LET s == dcc[b][i]  u == accounts[b][s.hand]
  IN /\ s.place = "chat" /\ Commands(u, s, <<"-">>) /\ u.global \cap {"m", "x"} # {}
     /\ Set(b, i, [s EXCEPT !.place = "files", !.back = TRUE], FALSE)
     /\ UNCHANGED <<accounts, changes>>
DccFiles(b, i) ==
  LET s == dcc[b][i]
  IN /\ s.place = "files"
     /\ Set(b, i, IF s.back THEN [s EXCEPT !.place = "chat", !.back = FALSE] ELSE Gone, FALSE)
     /\ UNCHANGED <<accounts, changes>>

Turned(old, text, meant(_)) ==
  LET start == [pls |-> TRUE, f |-> IF text[1] \in {"+", "-"} THEN old ELSE {}]
      step(s, x) == CASE x = "+" -> [s EXCEPT !.pls = TRUE] [] x = "-" -> [s EXCEPT !.pls = FALSE]
                      [] s.pls -> [s EXCEPT !.f = @ \cup meant(x)] [] OTHER -> [s EXCEPT !.f = @ \ meant(x)]
  IN FoldLeft(step, start, text).f
\* Whom a master names: the first of his sessions on the party line.
Dest(b, i, who) ==
  LET his == {j \in DOMAIN dcc[b] : dcc[b][j].hand = who /\ dcc[b][j].place = "chat"}
  IN IF who = "" THEN {i}
     ELSE IF "m" \in accounts[b][dcc[b][i].hand].global /\ his # {} THEN {CHOOSE j \in his : \A k \in his : j <= k} ELSE {}
\* console and resetconsole: another's modes are measured by one's own flags, unless a channel
\* is given too.
Console(b, i, who, at, text) ==
  LET s == dcc[b][i]  u == accounts[b][s.hand]  onat == OnChan(u, at)
  IN /\ Change /\ s.place = "chat" /\ Commands(u, s, <<"t", "o", "|", "o">>)
     /\ text = <<"reset">> => at = ""
     /\ at # "" => "o" \in onat \/ ("o" \in u.global /\ "d" \notin onat)
     /\ \E d \in Dest(b, i, who) :
          LET t == dcc[b][d]
              now == IF at = "" THEN t.at ELSE at
              con == CASE text = <<"reset">> -> (IF "m" \in u.global THEN ConMask ELSE {})
                       [] text = <<>> -> t.con [] OTHER -> Turned(t.con, text, LogModes)
              by == CASE at # "" /\ d # i -> CheckConflags(accounts[b][t.hand], now, con)
                      [] at # "" /\ d = i -> CheckConflags(u, now, con)
                      [] OTHER -> CheckConflags(u, s.at, con)
              lent == d # i /\ at = "" /\ (by \ CheckConflags(accounts[b][t.hand], now, by) # {})
          IN Set(b, d, [t EXCEPT !.at = now, !.con = by, !.lent = lent, !.missed = FALSE], TRUE)
     /\ UNCHANGED accounts
\* (Scripts' resetconsole takes no argument, and so does nothing: the loop over them never runs.)
TclConsole(b, i, at, text) ==
  LET t == dcc[b][i]
      now == IF at = "" THEN t.at ELSE at
      con == IF text = <<>> THEN t.con ELSE Turned(t.con, text, LogModes)
  IN /\ Scripts /\ Change /\ t.place = "chat" /\ text # <<"reset">> /\ (at # "" \/ text # <<>>)
     /\ Set(b, i, [t EXCEPT !.at = now, !.con = con, !.lent = CheckConflags(accounts[b][t.hand], now, con) # con], TRUE)
     /\ UNCHANGED accounts
\* What colours and the like a session is not sent.  The one who says so gets h, or loses it, by
\* whether the session he set still has bold; no bot is told.
Strip(b, i, who, text) ==
  LET s == dcc[b][i]  h == s.hand
  IN /\ Change /\ s.place = "chat" /\ Commands(accounts[b][h], s, <<>>)
     /\ \E d \in Dest(b, i, who) :
          LET strip == Turned(dcc[b][d].strip, text, LAMBDA x : {x})
          IN /\ Set(b, d, [dcc[b][d] EXCEPT !.strip = strip], TRUE)
             /\ accounts' = [accounts EXCEPT ![b][h].global = IF "b" \in strip THEN @ \ {"h"} ELSE @ \cup {"h"}]
TclStrip(b, i, text) ==
  LET t == dcc[b][i]
  IN /\ Scripts /\ Change /\ t.place = "chat"
     /\ Set(b, i, [t EXCEPT !.strip = Turned(@, text, LAMBDA x : {x})], TRUE) /\ UNCHANGED accounts
\* echo, page and store; scripts may say the first two too.
Setting(b, i, s) ==
  /\ Change /\ dcc[b][i].place = "chat"
  /\ Scripts \/ Commands(accounts[b][dcc[b][i].hand], dcc[b][i], <<>>)
  /\ Set(b, i, s, TRUE) /\ UNCHANGED accounts
Echo(b, i, on) == Setting(b, i, [dcc[b][i] EXCEPT !.echo = on])
Page(b, i, lines) == Setting(b, i, [dcc[b][i] EXCEPT !.page = lines])
Store(b, i) == Setting(b, i, dcc[b][i])

\* A script sets what is stored of somebody, without a look at what he may.
ConsoleTclSet(b, h, at, text) ==
  /\ Scripts /\ Change
  /\ stored' = [stored EXCEPT ![b][h] =
                   [(IF @ = None THEN Shown(Gone) ELSE @) EXCEPT !.at = at, !.con = UNION {LogModes(x) : x \in {text[k] : k \in DOMAIN text}}]]
  /\ UNCHANGED <<accounts, dcc, wire, crossed>>
\* Stored settings as they are written to the file, and read.
ConsoleWritten(st) == IF st = None THEN None ELSE [st EXCEPT !.con = MaskType(@)]

\* The bot saves its users and starts again: what is written of them is read, bot flags as they
\* are, global flags brought into order; the owner setting's owners are owners again.
Reread(h, u) ==
  LET f == SanityCheck(BreakDown(BuildFlags(u, {"global"}), {"global"}, FALSE).plus.global)
  IN [global |-> IF h \in Owners THEN SanityCheck(f \cup {"n"}) ELSE f,
      chan |-> [c \in ChanSet |-> BreakDown(BuildFlags([chan |-> u.chan[c]], {"chan"}), {"chan"}, FALSE).plus.chan],
      bot |-> BreakDown(BuildFlags(u, {"bot"}), {"bot"}, FALSE).plus.bot]
Restart(b) ==
  /\ accounts' = [accounts EXCEPT ![b] = [h \in Hands |-> Reread(h, @[h])]]
  /\ stored' = [stored EXCEPT ![b] = [h \in Hands |-> ConsoleWritten(@[h])]]
  /\ dcc' = [dcc EXCEPT ![b] = [i \in DOMAIN @ |-> Gone]]
  /\ wire[b] = <<>> /\ UNCHANGED <<wire, crossed, changes>>

Given == ChanSet \cup {""}
Next ==
  \E b \in Bots :
    \/ \E i \in DOMAIN Sessions :
         \/ \E h \in Hands, text \in Changes, c \in Given : Chattr(b, i, h, text, c)
         \/ \E h \in Hands, text \in BotChanges, c \in Given : Botattr(b, i, h, text, c)
         \/ Login(b, i) \/ LinkUp(b, i) \/ Leaves(b, i) \/ Files(b, i) \/ DccFiles(b, i)
         \/ \E who \in Hands \cup {""}, at \in Given \cup {"*"}, text \in Modes : Console(b, i, who, at, text)
         \/ \E who \in Hands \cup {""}, text \in Strips : Strip(b, i, who, text)
         \/ \E at \in Given \cup {"*"}, text \in Modes : TclConsole(b, i, at, text)
         \/ \E text \in Strips : TclStrip(b, i, text)
         \/ \E on \in BOOLEAN : Strips # {} /\ Echo(b, i, on)
         \/ \E lines \in {0, 20} : Strips # {} /\ Page(b, i, lines)
         \/ Strips # {} /\ Store(b, i)
         \/ \E h \in Hands : Boot(b, i, h)
    \/ \E h \in Hands, text \in Changes, c \in Given : TclChattr(b, h, text, c)
    \/ \E h \in Hands, text \in BotChanges, c \in Given : TclBotattr(b, h, text, c)
    \/ \E h \in Hands, at \in ChanSet, text \in Modes : text # <<"reset">> /\ ConsoleTclSet(b, h, at, text)
    \/ ShareChattr(b)
    \/ Restart(b)
Spec == Init /\ [][Next]_vars

-----------------------------------------------------------------------------
(* Properties.                                                              *)

\* Records and sessions are what they should be.
TypeOK ==
  /\ \A b \in Bots, h \in Hands :
       /\ accounts[b][h].global \subseteq UserValid /\ accounts[b][h].bot \subseteq BotValid
       /\ \A c \in ChanSet : accounts[b][h].chan[c] \subseteq ChanValid
  /\ \A b \in Bots : \A i \in DOMAIN dcc[b] : dcc[b][i].place \in {"", "chat", "files", "bot"}

\* Whatever changes flags, and in whatever order, a record has what its flags imply (sanity_check,
\* chan_sanity_check): an owner is a master, a master a botnet master, an op and a janitor, and so
\* on; a bot is none of them, and only a bot has a channel shared with it; permanent owners are owners.
Complete ==
  \A b \in Bots, h \in Hands :
    LET u == accounts[b][h]
        needs(f, p, q) == p \in f => q \in f
    IN /\ needs(u.global, "n", "m") /\ needs(u.global, "m", "t") /\ needs(u.global, "m", "o")
       /\ needs(u.global, "m", "j") /\ needs(u.global, "t", "p") /\ needs(u.global, "j", "x")
       /\ needs(u.global, "o", "l")
       /\ "b" \in u.global => u.global \cap {"p", "m", "c", "n"} = {}
       /\ h \in Owners => "n" \in u.global
       /\ \A c \in ChanSet : /\ needs(u.chan[c], "n", "m") /\ needs(u.chan[c], "m", "o") /\ needs(u.chan[c], "o", "l")
                             /\ "s" \in u.chan[c] => "b" \in u.global

\* A session sees and is where its user's flags allow, whatever has become of them meanwhile: its
\* console shows what it may, and nobody is in the file area who may not be.  (Not so for modes
\* another has given it, or a script, and for a console that was not looked at in the file area.)
InBounds ==
  \A b \in Bots : \A i \in DOMAIN dcc[b] :
    LET s == dcc[b][i]  u == accounts[b][s.hand]
    IN /\ s.place = "chat" /\ ~s.lent /\ ~s.missed => CheckConflags(u, s.at, s.con) = s.con
       /\ s.place = "files" => u.global \cap {"x", "m"} # {}

\* What is written of flags, to a file or to another bot, is read as the same.
ReadsBack ==
  \A b \in Bots, h \in Hands :
    LET u == accounts[b][h]  v == Reread(h, u)
    IN v.chan = u.chan /\ v.bot = u.bot /\ SanityCheck(u.global) = v.global

\* Bots that share agree on a user's flags when all lines have arrived and no two changes
\* crossed, but for h, and for what a second look at the same flags changes.
BotsAgree ==
  (\A b \in Bots : wire[b] = <<>>) =>
    \A h \in Hands \ crossed : \A b, d \in Bots :
      LET seen(x) == SanityCheck(accounts[x][h].global) \ (PrivateGlobals \cup {"h"})
      IN /\ seen(b) = seen(d)
         /\ \A c \in Shared : accounts[b][h].chan[c] \ {"s"} = accounts[d][h].chan[c] \ {"s"}

\* The sign a user is shown with on the party line is that of his highest rank anywhere, as
\* matchattr finds it channel by channel.
IconRight ==
  \A b \in Bots, h \in Hands :
    LET u == accounts[b][h]
        rank(x) == \E c \in ChanSet : Matchattr(u, <<x, "|", x>>, c)
    IN Geticon(u) = CASE rank("n") -> "*" [] rank("m") -> "+" [] "t" \in u.global -> "%"
                      [] rank("o") -> "@" [] rank("l") -> "^" [] OTHER -> "-"

\* By chattr nobody but an owner makes or unmakes an owner, a master or a botnet master, with
\* what flags imply and exclude counted in, and a channel's master leaves everybody's global
\* flags alone, the scripts' apart (and flags that were not in order).
ByRight ==
  \A b \in Bots : accounts'[b] # accounts[b] =>
    \A i \in DOMAIN dcc[b], h \in Hands, text \in Changes, c \in Given :
      LET by == accounts[b][dcc[b][i].hand].global
          old == accounts[b][h].global  new == accounts'[b][h].global
          ranks == {"n", "m", "t", "u"}
      IN dcc[b][i].place = "chat" /\ old # new /\ Chattr(b, i, h, text, c) =>
           /\ "n" \notin by => old \cap ranks = new \cap ranks
           /\ by \cap {"m", "t"} = {} /\ SanityCheck(old) = old => old \ Own = new \ Own
=============================================================================
