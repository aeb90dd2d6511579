-------------------------------- MODULE Desk --------------------------------
(***************************************************************************)
(* One session of the party line (dcc.c, dccutil.c, tcldcc.c): what is said  *)
(* to it is sent or, with paging, kept until its user asks for more; it      *)
(* moves between chat channels, goes to the file area, is taken over by a    *)
(* script and given back; and another bot is told on which channel it is.    *)
(* Lines are the numbers 1, 2, ... in the order in which they are said; one  *)
(* stands for what one event says.                                           *)
(*                                                                         *)
(* Left out: colours and telnet escapes, away messages, what the other bot   *)
(* does with what it is told (PartyLine), the console's settings (Flags).    *)
(***************************************************************************)
EXTENDS Integers, Sequences, SequencesExt

CONSTANTS
  Sizes, ScriptSizes,   \* numbers of lines that .page and the Tcl command page are given
  PageAtFirst,          \* the one at the beginning, 0 for none
  Rooms,                \* channels to go to
  TooMany,              \* how many lines may wait (1000)
  DccFloodThr,          \* dcc-flood-thr, 0 for no limit
  MaxSaid, MaxDoings    \* how much is said; how often the session or a script changes it

VARIABLES desk, doings
deskVars == <<desk, doings>>

\* Channels: of every bot, of every bot with a number from 10000 on, and of this bot alone.
Global == {"party", "high"}
Chans == Global \cup {"local", "off"}
Big == 134217727   \* the size that turning paging off leaves
Open == {"chat", "files", "script"}

\* Whoever is put somewhere is put on a channel, and no more is said than turning paging off shows.
ASSUME DeskAssumption ==
  /\ Sizes \subseteq Nat /\ ScriptSizes \subseteq Int /\ PageAtFirst \in Nat /\ Rooms \subseteq Chans
  /\ TooMany \in Nat /\ MaxSaid \in Nat /\ MaxSaid <= Big

InitDesk ==
  /\ desk = [kind |-> "chat", channel |-> "party", seen |-> "party", misled |-> FALSE,
             page |-> PageAtFirst > 0, max_line |-> PageAtFirst, line_count |-> 0, current_lines |-> 0,
             buffer |-> <<>>, sent |-> <<>>, said |-> 0, stuck |-> FALSE, forgot |-> FALSE, wild |-> FALSE,
             msgs |-> 0, sameSecond |-> FALSE]
  /\ doings = 0

-----------------------------------------------------------------------------
(* Where it is.                                                             *)

\* Where others should see it.
Shown(d) == IF d.kind = "chat" /\ d.channel \in Global THEN d.channel ELSE ""
\* botnet_send_part_idx, and botnet_send_join_idx, which says nothing the others understand for
\* one who is off.
Part(d) == [d EXCEPT !.seen = ""]
Join(d) == [d EXCEPT !.seen = IF d.channel = "off" THEN @ ELSE d.channel]
PartIfShown(d) == IF d.channel \in Global THEN Part(d) ELSE d
Closed(d) == [d EXCEPT !.kind = "closed"]

\* do_boot, eof_dcc_chat, detect_dcc_flood; tcl_killdcc says that it left wherever it was.
Leaves(d) == Closed(IF d.kind = "chat" THEN PartIfShown(d) ELSE d)
Killdcc(d) == Closed(IF d.kind = "chat" THEN Part(d) ELSE d)

-----------------------------------------------------------------------------
(* What it is shown.                                                        *)

\* append_line: when too many wait, it is booted, and what waited is gone.
AppendLine(d, n) ==
  CASE d.current_lines > TooMany -> Leaves([d EXCEPT !.buffer = <<>>, !.page = FALSE])
    [] d.current_lines <= TooMany /\ d.line_count < d.max_line /\ d.buffer = <<>> ->
         [d EXCEPT !.line_count = @ + 1, !.sent = Append(@, n)]
    [] OTHER -> [d EXCEPT !.current_lines = @ + 1, !.buffer = Append(@, n)]
\* out_dcc_general.
\* Mutant: lines wait only when a page is full.
OutStraight(d) ==
  LET n == d.said + 1  e == [d EXCEPT !.said = n]
  IN IF d.kind \notin Open THEN d
     ELSE IF d.page /\ d.line_count >= d.max_line THEN AppendLine(e, n)
     ELSE [e EXCEPT !.sent = Append(@, n), !.line_count = @ + 1]
Out(d) ==
  LET n == d.said + 1  e == [d EXCEPT !.said = n]
  IN IF d.kind \notin Open THEN d
     ELSE IF d.page THEN AppendLine(e, n)
     ELSE [e EXCEPT !.sent = Append(@, n)]
\* flush_lines: the next page.
\* Mutant: the lines of the page are counted as shown.
FlushLinesCounted(d) ==
  LET room == IF d.max_line > d.line_count THEN d.max_line - d.line_count ELSE 0
      k == IF room < Len(d.buffer) THEN room ELSE Len(d.buffer)
  IN [d EXCEPT !.sent = @ \o SubSeq(d.buffer, 1, k), !.buffer = SubSeq(@, k + 1, Len(@)),
               !.current_lines = @ - k, !.line_count = @ + k]
FlushLines(d) ==
  LET room == IF d.max_line > d.line_count THEN d.max_line - d.line_count ELSE 0
      k == IF room < Len(d.buffer) THEN room ELSE Len(d.buffer)
  IN [d EXCEPT !.sent = @ \o SubSeq(d.buffer, 1, k), !.buffer = SubSeq(@, k + 1, Len(@)),
               !.current_lines = @ - k, !.line_count = 0]
\* What dcc_chat ends with.
Prompt(d) == IF d.kind = "chat" /\ d.page THEN FlushLines(d) ELSE d
\* A session booted in the middle of its own command has no data any more, and is used: undefined.
\* (So is one that leaves the file area for the party line with paging on: its data is read as
\* that of one in the file area.)
Or(d, e) == IF d.kind = "closed" THEN [d EXCEPT !.kind = "undefined"] ELSE e

Now(d) == desk' = [d EXCEPT !.misled = @ /\ d.seen # Shown(d)]
Doing == doings < MaxDoings /\ doings' = doings + 1

-----------------------------------------------------------------------------
(* Its user.                                                                *)

\* Something is said to it, by others or by the bot.  With paging, while a script has it, its
\* data is read as other data: what becomes of the line is undefined.
Says ==
  /\ desk.kind \in Open /\ desk.said < MaxSaid
  /\ IF desk.kind = "script" /\ desk.page
     THEN \/ Now([desk EXCEPT !.said = @ + 1, !.wild = TRUE])
          \/ Now([desk EXCEPT !.said = @ + 1, !.wild = TRUE, !.sent = Append(@, desk.said + 1)])
     ELSE Now(Out(desk))
  /\ UNCHANGED doings

\* dcc_chat and dcc_files with an empty line: the next page, on the party line only.
Enter ==
  /\ desk.kind = "chat" /\ Now(Prompt([desk EXCEPT !.sameSecond = TRUE]))
  /\ UNCHANGED doings

\* detect_dcc_flood.  A command, or an empty line, notes the time but does not begin to count anew.
TalksTooMuch == DccFloodThr > 0 /\ desk.sameSecond /\ desk.msgs >= DccFloodThr
Counted == [desk EXCEPT !.sameSecond = TRUE,
              !.msgs = IF DccFloodThr = 0 THEN 0 ELSE IF desk.sameSecond THEN @ + 1 ELSE 0]
\* dcc_chat with something to say.
Talks ==
  /\ desk.kind = "chat" /\ desk.said < MaxSaid
  /\ IF TalksTooMuch THEN Now(Leaves(Out(desk)))
     ELSE Now(Prompt(IF desk.channel = "off" THEN Out(Counted) ELSE Counted))   \* a command, if off
  /\ UNCHANGED doings
Tick == desk.sameSecond /\ desk' = [desk EXCEPT !.sameSecond = FALSE] /\ UNCHANGED doings

\* cmd_page.
\* Mutant: turning it off sends one page of what waits.
PageOffOnce(d) == [FlushLines(d) EXCEPT !.page = FALSE, !.max_line = Big]
PageOff(d) == FlushLines(FlushLines([d EXCEPT !.page = FALSE, !.max_line = Big]))
CmdPage(size) ==
  /\ desk.kind = "chat" /\ Doing /\ desk.said < MaxSaid
  /\ IF size = 0 THEN Now(PageOff(desk))
     ELSE LET d == Out(desk)
          IN Now(Or(d, Prompt([d EXCEPT !.page = TRUE, !.max_line = size, !.line_count = 0, !.current_lines = 0,
                                        !.forgot = @ \/ d.buffer # <<>>])))
\* cmd_chat.
\* Mutant: who goes to a channel of this bot is not said to have left.
GoesSilently(d, chan) ==
  LET e == [d EXCEPT !.channel = chan]
  IN CASE chan = d.channel -> d
       [] chan # d.channel /\ chan = "off" -> [PartIfShown(d) EXCEPT !.channel = chan]
       [] OTHER -> IF chan \in Global THEN Join(e) ELSE e
Goes(d, chan) ==
  LET e == [d EXCEPT !.channel = chan]
  IN CASE chan = d.channel -> d
       [] chan # d.channel /\ chan = "off" -> [PartIfShown(d) EXCEPT !.channel = chan]
       [] OTHER -> IF chan \in Global THEN Join(e) ELSE IF d.channel # "local" THEN Part(e) ELSE e
CmdChat(chan) ==
  /\ desk.kind = "chat" /\ Doing /\ desk.said < MaxSaid
  /\ LET d == Out(desk) IN Now(Or(d, Prompt(Goes(d, chan))))
\* quit: no more than a page of what waits is sent.
Quit ==
  /\ desk.kind = "chat" /\ desk.said < MaxSaid
  /\ LET d == Out(desk) IN Now(Or(d, Leaves(FlushLines(d))))
  /\ UNCHANGED doings

\* cmd_files, and dcc_files: an empty line is no request for more there.
CmdFiles ==
  /\ desk.kind = "chat" /\ Doing /\ desk.said < MaxSaid
  /\ LET d == Out(desk) IN Now(Or(d, [PartIfShown(d) EXCEPT !.kind = "files"]))
FilesCommand ==
  /\ desk.kind = "files" /\ desk.said < MaxSaid
  /\ LET d == Out(desk) IN Now(Or(d, IF d.page THEN FlushLines(d) ELSE d))
  /\ UNCHANGED doings
FilesQuit ==
  /\ desk.kind = "files" /\ Doing /\ desk.said < MaxSaid
  /\ LET d == FlushLines(Out(desk))
         e == [d EXCEPT !.kind = "chat"]
     IN Now(IF d.page \/ d.kind = "closed" THEN [d EXCEPT !.kind = "undefined"]
            ELSE IF e.channel \in Global THEN Join(e) ELSE e)

\* eof_dcc_chat, eof_dcc_files; a script is told first (eof_dcc_script).
EofDcc ==
  /\ desk.kind \in Open
  /\ Now(Leaves(IF desk.kind = "script" THEN [desk EXCEPT !.kind = "chat"] ELSE desk))
  /\ UNCHANGED doings

-----------------------------------------------------------------------------
(* Scripts.                                                                 *)

\* tcl_page: off with lines that wait, these wait for ever, and others overtake them.
TclPage(size) ==
  /\ desk.kind = "chat" /\ Doing
  /\ IF size = 0 THEN Now([desk EXCEPT !.page = FALSE, !.stuck = @ \/ desk.buffer # <<>>])
     ELSE Now([desk EXCEPT !.page = TRUE, !.max_line = size])
\* tcl_setchan.  Who is put off the party line is not said to have left the channel he was on.
TclSetchan(chan) ==
  /\ desk.kind \in {"chat", "script"} /\ Doing
  /\ LET e == [desk EXCEPT !.channel = chan]
     IN Now(CASE desk.kind = "script" -> e
              [] desk.kind = "chat" /\ chan = "local" -> IF desk.channel \in Global THEN Part(e) ELSE e
              [] OTHER -> [Join(e) EXCEPT !.misled = @ \/ chan = "off"])
\* tcl_control, and dcc_script: the script says when it is done with it.  Who is on a channel
\* from 10000 on is not said to have come back.
TclControl ==
  /\ desk.kind = "chat" /\ Doing
  /\ Now([IF desk.channel # "off" THEN Part(desk) ELSE desk EXCEPT !.kind = "script"])
\* Mutant: nobody is told that it came back.
ReturnsUnseen(d) == [d EXCEPT !.kind = "chat", !.misled = @ \/ d.channel = "high"]
Returns(d) ==
  LET e == [d EXCEPT !.kind = "chat", !.misled = @ \/ d.channel = "high"]
  IN IF d.channel = "party" THEN Join(e) ELSE e
DccScript == desk.kind = "script" /\ Now(Returns(desk)) /\ UNCHANGED doings
\* tcl_boot (and .boot), tcl_killdcc.
Boot == desk.kind \in {"chat", "files"} /\ desk.said < MaxSaid /\ Now(Leaves(Out(desk))) /\ UNCHANGED doings
TclKilldcc == desk.kind \in Open /\ Now(Killdcc(desk)) /\ UNCHANGED doings

NextDesk ==
  \/ Says \/ Enter \/ Talks \/ Tick \/ Quit \/ CmdFiles \/ FilesCommand \/ FilesQuit \/ EofDcc
  \/ \E size \in Sizes : CmdPage(size)
  \/ \E chan \in Rooms : CmdChat(chan) \/ TclSetchan(chan)
  \/ \E size \in ScriptSizes : TclPage(size)
  \/ TclControl \/ DccScript \/ Boot \/ TclKilldcc

\* Its user asks for more.
FairnessDesk == WF_deskVars(Enter)
SpecDesk == InitDesk /\ [][NextDesk]_deskVars /\ FairnessDesk

-----------------------------------------------------------------------------
(* Properties.                                                              *)

DeskTypeOK ==
  /\ desk.kind \in Open \cup {"closed", "undefined"} /\ desk.channel \in Chans /\ desk.seen \in Global \cup {""}
  /\ desk.line_count >= 0 /\ (desk.kind \in Open /\ ~desk.forgot => desk.current_lines = Len(desk.buffer))

\* What is said is shown in that order, all of it, or waits, in that order, to be shown; but what
\* a script's page command left waiting, or what was said while a script had a session with paging.
ShownInOrder ==
  LET lines == desk.sent \o desk.buffer
  IN desk.kind \in Open /\ ~desk.stuck /\ ~desk.wild => lines = [n \in 1..desk.said |-> n]
\* No more lines wait than may, where .page was not given while some waited (it sets the count to
\* nothing: the limit is then farther off by as many).
NotTooMany == desk.forgot \/ Len(desk.buffer) <= TooMany + 1
\* Others see it where it is, and no longer when it has gone: but when a script has put it off
\* the party line, or has had it while it was on a channel from 10000 on.
Announced == desk.misled \/ desk.seen = Shown(desk)

\* What is said to a session is shown or waits, all of it and in order; no more waits than may; and
\* the other bots see it where it is.
DeskKept == DeskTypeOK /\ ShownInOrder /\ NotTooMany /\ Announced

\* What waits is shown sooner or later to one who stays and asks for more.
Delivered ==
  desk.buffer # <<>> /\ desk.kind = "chat" ~> desk.buffer = <<>> \/ desk.kind # "chat" \/ desk.stuck \/ desk.max_line <= 0
=============================================================================
