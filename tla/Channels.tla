------------------------------ MODULE Channels ------------------------------
(***************************************************************************)
(* The channels the bot keeps a record of, their settings and the channel   *)
(* file: src/mod/channels.mod (channels.c, tclchan.c, udefchan.c and the    *)
(* settings commands of cmdschan.c).                                        *)
(*                                                                          *)
(* A setting is a flag, an enforced mode, a number, a pair of numbers or a  *)
(* text; scripts add settings of their own, whose values are kept beside    *)
(* the channels (udefs).  The file is a list of Tcl commands that are run   *)
(* again when it is read.  A value is a sequence of numbers, so that a text *)
(* or a key is a number too, 0 when empty.  Lines are abstracted to         *)
(* records; joining and parting are in IrcChannel.                          *)
(***************************************************************************)
EXTENDS Naturals, Sequences, FiniteSets, SequencesExt

CONSTANTS Chans,       \* channel names
          Flags,       \* settings that are on or off, as they are shown
          Texts, Nums, Floods,   \* need-*, numbers, flood-*
          Defaults,    \* [Texts \cup Nums \cup Floods \cup {"aop-delay"} -> value]: default-*
          GlobMode,    \* default-chanmode, a mode string
          AllowPs,     \* allow-ps
          Udefs,       \* names of settings scripts may define
          Options,     \* lists of items somebody may give to a command
          Config,      \* the config file's commands, one list for each way it may be written
          ReadAtLoad,  \* the file has its name before the module is loaded
          MaxChanges

VARIABLES chanset,     \* sequence of records, in the order of the list
          udef,        \* sequence of [name, type, defined, values]
          globset,     \* default-chanset: the flags it sets
          chanfile,    \* what the file on disk says, or None
          changes

vars == <<chanset, udef, globset, chanfile, changes>>

None == <<[cmd |-> "none"]>>
AopDelay == "aop-delay"
Valued == Texts \cup Nums \cup Floods \cup {AopDelay}
ValuedList == SetToSeq(Valued)
FlagList == SetToSeq(Flags)
UserFlags == {"userbans", "userexempts", "userinvites"}   \* kept as CHAN_NOUSER...
Old == {"stopnethack", "wasoptest", "clearbans"}          \* read, and forgotten

Flag(s, f) == [opt |-> f, sign |-> s, pre |-> "", arg |-> <<>>]
Value(o, v) == [opt |-> o, sign |-> "", pre |-> "", arg |-> v]
Chanmode(m) == [opt |-> "chanmode", sign |-> "", pre |-> "", arg |-> m]
UdefItem(t, s, o, v) == [opt |-> o, sign |-> s, pre |-> t, arg |-> v]

-----------------------------------------------------------------------------
(* Enforced modes.  A mode string is a word of signed letters and the        *)
(* arguments after it.                                                       *)

\* set_mode_protect(): +l and +k take the next argument, if there is one.
SetModeProtect(str) ==
  LET letter(m, l) ==
        LET takes == l[2] \in {"l", "k"} /\ l[1] = "+" /\ m.args # <<>>
            arg == IF takes THEN Head(m.args) ELSE 0
        IN [plus |-> IF l[1] = "+" THEN m.plus \cup {l[2]} ELSE m.plus \ {l[2]},
            minus |-> IF l[1] = "+" THEN m.minus \ {l[2]} ELSE m.minus \cup {l[2]},
            limit |-> IF l[2] = "l" THEN arg ELSE m.limit,
            key |-> IF l[2] = "k" THEN arg ELSE m.key,
            args |-> IF takes THEN Tail(m.args) ELSE m.args]
      m == FoldLeft(letter, [plus |-> {}, minus |-> {}, limit |-> 0, key |-> 0, args |-> str[2]], str[1])
  IN [plus |-> IF "s" \in m.plus /\ ~AllowPs THEN m.plus \ {"p"} ELSE m.plus,
      minus |-> m.minus, limit |-> m.limit, key |-> m.key]

GetModeProtectKeyLast(m) ==
  LET has(c, l) == IF c THEN <<l>> ELSE <<>>
      letters(s, set) == [i \in DOMAIN SetToSeq(set) |-> <<s, SetToSeq(set)[i]>>]
  IN << has(m.key # 0, <<"+", "k">>) \o has(m.limit # 0, <<"+", "l">>)
          \o letters("+", m.plus \ {"l", "k"}) \o letters("-", m.minus),
        has(m.limit # 0, m.limit) \o has(m.key # 0, m.key) >>

\* get_mode_protect(): a limit or a key is shown when there is one, whatever the letters say.
GetModeProtect(m) ==
  LET has(c, l) == IF c THEN <<l>> ELSE <<>>
      letters(s, set) == [i \in DOMAIN SetToSeq(set) |-> <<s, SetToSeq(set)[i]>>]
  IN << has(m.limit # 0, <<"+", "l">>) \o has(m.key # 0, <<"+", "k">>)
          \o letters("+", m.plus \ {"l", "k"}) \o letters("-", m.minus),
        has(m.limit # 0, m.limit) \o has(m.key # 0, m.key) >>

-----------------------------------------------------------------------------
(* Settings defined by scripts.                                              *)

Named(us, n) == {i \in DOMAIN us : us[i].name = n}
FirstOf(set) == CHOOSE i \in set : \A j \in set : i <= j
\* getudef(), setudef(): a channel without a value has 0, which is also no text.
GetUdef(ul, c) == ul.values[c]
SetUdef(us, i, c, v) == [us EXCEPT ![i].values[c] = v]
\* initudef(): a name that is known keeps its type.
InitUdef(us, t, n, d) ==
  IF Named(us, n) # {}
    THEN [us EXCEPT ![FirstOf(Named(us, n))].defined = @ \/ d]
    ELSE Append(us, [name |-> n, type |-> t, defined |-> d, values |-> [c \in Chans |-> 0]])

-----------------------------------------------------------------------------
(* tcl_channel_modify(): the options one after the other.  bad: some option  *)
(* was not one; stop: nothing after an option without its value is read.     *)

\* need-*, chanmode and the numbers.
SetValue(r, it) ==
  IF it.opt = "chanmode"
    THEN [r EXCEPT !.chan.modes = SetModeProtect(it.arg)]
    ELSE IF it.arg = <<>> THEN [r EXCEPT !.stop = TRUE] ELSE [r EXCEPT !.chan.vals[it.opt] = it.arg]
\* flood-*: X:Y, or 0 for 0:0; aop-delay: X:Y, or X for X:X.
SetPair(r, it) ==
  CASE Len(it.arg) = 2 -> [r EXCEPT !.chan.vals[it.opt] = it.arg]
    [] Len(it.arg) = 1 /\ it.opt = AopDelay -> [r EXCEPT !.chan.vals[it.opt] = it.arg \o it.arg]
    [] it.arg = <<0>> /\ it.opt \in Floods -> [r EXCEPT !.chan.vals[it.opt] = <<0, 0>>]
    [] OTHER -> [r EXCEPT !.stop = TRUE]
\* The flags: the user's own bans, exempts and invites are kept the other way round.
SetFlag(r, it) ==
  IF (it.sign = "+") # (it.opt \in UserFlags)
    THEN [r EXCEPT !.chan.status = @ \cup {it.opt}]
    ELSE [r EXCEPT !.chan.status = @ \ {it.opt}]
\* Anything else is a script's setting.  The file names its type, and so defines what is not
\* defined; a name that is already of another type is no option.
SetUser(r, it) ==
  LET us == IF it.pre # "" THEN InitUdef(r.udef, it.pre, it.opt, FALSE) ELSE r.udef
      hits == {i \in Named(us, it.opt) : IF it.pre # "" THEN us[i].type = it.pre
                                           ELSE (us[i].type = "flag") = (it.sign # "")}
  IN IF hits = {} THEN [r EXCEPT !.udef = us, !.bad = TRUE]
     ELSE IF it.sign = "" /\ it.arg = <<>> THEN [r EXCEPT !.udef = us, !.stop = TRUE]
     ELSE [r EXCEPT !.udef = SetUdef(us, FirstOf(hits), r.chan.name,
                                     CASE it.sign = "+" -> 1 [] it.sign = "-" -> 0 [] OTHER -> it.arg[1])]
Modify(chan, us, items) ==
  LET item(r, it) ==
        CASE r.stop -> r
          [] it.opt \in Texts \cup Nums \cup {"chanmode"} -> SetValue(r, it)
          [] it.opt \in Floods \cup {AopDelay} -> SetPair(r, it)
          [] it.opt \in Flags /\ it.sign # "" -> SetFlag(r, it)
          [] it.opt \in Old -> r
          [] OTHER -> SetUser(r, it)
  IN FoldLeft(item, [chan |-> chan, udef |-> us, bad |-> FALSE, stop |-> FALSE], items)

-----------------------------------------------------------------------------
(* Adding and removing.  w is what a command leaves: the channels, the       *)
(* scripts' settings, and whether it failed.                                 *)

At(cs, c) == {i \in DOMAIN cs : cs[i].name = c}
Has(cs, c) == At(cs, c) # {}
The(cs, c) == cs[FirstOf(At(cs, c))]
World(cs, us, fails) == [chans |-> cs, udef |-> us, fails |-> fails]

NewChan(c) == [name |-> c, modes |-> SetModeProtect(<<<<>>, <<>>>>), status |-> {}, vals |-> Defaults]
GlobItems == <<Chanmode(GlobMode)>>
               \o [i \in DOMAIN FlagList |-> Flag(IF FlagList[i] \in globset THEN "+" ELSE "-", FlagList[i])]

\* tcl_channel_add(): a channel that exists is given the default flags and modes first, as a new
\* one is.  Whatever is wrong with the options, the channel is there.
ChannelAdd(w, c, items, chan_hack) ==
  LET put(r) == World(IF Has(w.chans, c) THEN [w.chans EXCEPT ![FirstOf(At(w.chans, c))] = r.chan]
                                         ELSE Append(w.chans, r.chan),
                      r.udef, (r.bad \/ r.stop) /\ ~chan_hack)
  IN put(Modify(IF Has(w.chans, c) THEN The(w.chans, c) ELSE NewChan(c), w.udef, GlobItems \o items))
\* tcl_channel(): while the file is read a channel that is gone has no settings, silently.
ChannelSet(w, c, items, chan_hack) ==
  IF ~Has(w.chans, c) THEN [w EXCEPT !.fails = ~chan_hack]
  ELSE LET put(r) == World([w.chans EXCEPT ![FirstOf(At(w.chans, c))] = r.chan], r.udef, r.bad \/ r.stop)
       IN put(Modify(The(w.chans, c), w.udef, items))
\* remove_channel(): what scripts have set for it stays where it is.
RemoveChannel(cs, c) == SelectSeq(cs, LAMBDA r : r.name # c)

-----------------------------------------------------------------------------
(* The channel file.                                                         *)

\* One setting, as it was meant: a user flag is on when its bit is not set.
Shown(chan, f) == IF (f \in UserFlags) # (f \in chan.status) THEN "+" ELSE "-"
ShownPlain(chan, f) == IF f \in chan.status THEN "+" ELSE "-"

ChanItems(chan) ==
  <<Chanmode(GetModeProtect(chan.modes))>>
    \o [i \in DOMAIN ValuedList |-> Value(ValuedList[i], chan.vals[ValuedList[i]])]
    \o [i \in DOMAIN FlagList |-> Flag(Shown(chan, FlagList[i]), FlagList[i])]
UdefLine(c, ul) ==
  [cmd |-> "set", chan |-> c,
   items |-> <<IF ul.type = "flag" THEN UdefItem("flag", IF GetUdef(ul, c) # 0 THEN "+" ELSE "-", ul.name, <<>>)
                                   ELSE UdefItem(ul.type, "", ul.name, <<GetUdef(ul, c)>>)>>]
\* write_channels(): of the scripts' settings those somebody has defined.
WriteChannels(cs, us) ==
  LET of(chan) == <<[cmd |-> "add", chan |-> chan.name, items |-> ChanItems(chan)]>>
                    \o FoldLeft(LAMBDA f, ul : IF ul.defined THEN Append(f, UdefLine(chan.name, ul)) ELSE f, <<>>, us)
  IN FoldLeft(LAMBDA f, chan : f \o of(chan), <<>>, cs)

\* The file's commands.  One that fails is the last that is run.
RunFile(w, lines, chan_hack) ==
  FoldLeft(LAMBDA s, l : CASE s.fails -> s
                           [] l.cmd = "add" -> ChannelAdd(s, l.chan, l.items, chan_hack)
                           [] l.cmd = "set" -> ChannelSet(s, l.chan, l.items, chan_hack)
                           [] l.cmd = "setudef" -> [s EXCEPT !.udef = InitUdef(s.udef, l.type, l.chan, TRUE)]
                           [] OTHER -> s,
           w, lines)
Listed(lines) == {lines[i].chan : i \in {j \in DOMAIN lines : lines[j].cmd = "add"}}
\* The channels the file adds before a command in it fails.
Added(w, lines) == {c \in Listed(lines) : \E n \in DOMAIN lines :
                       lines[n].cmd = "add" /\ lines[n].chan = c
                         /\ ~RunFile(w, SubSeq(lines, 1, n - 1), TRUE).fails}
\* read_channels(): a reload removes the channels that were not added again.
ReadChannels(w, lines, reload) ==
  LET left(r) == World(IF reload THEN SelectSeq(r.chans, LAMBDA chan : ~Has(w.chans, chan.name)
                                                                      \/ chan.name \in Added(w, lines))
                                 ELSE r.chans, r.udef, FALSE)
  IN left(RunFile(w, IF lines = None THEN <<>> ELSE lines, TRUE))
Created(lines) == IF lines = None THEN <<>> ELSE lines

-----------------------------------------------------------------------------
(* What is shown of a channel: by `channel info', .chaninfo, `channel get    *)
(* <chan> <setting>' and `channel get <chan>'; 1 for a flag that is on.      *)

Defined(us) == {us[i].name : i \in {j \in DOMAIN us : us[j].defined}}
OnOff(sign) == IF sign = "+" THEN <<1>> ELSE <<0>>

ChannelInfo(chan, us) ==
  [o \in Valued \cup Flags \cup Defined(us) |->
     CASE o \in Valued -> chan.vals[o]
       [] o \in Flags -> OnOff(Shown(chan, o))
       [] OTHER -> <<GetUdef(us[FirstOf({i \in Named(us, o) : us[i].defined})], chan.name)>>]
Chaninfo(chan, us) ==
  LET ofUdef(o) == us[FirstOf({i \in Named(us, o) : us[i].defined})]
  IN [o \in Valued \cup Flags \cup Defined(us) |->
        CASE o \in chan.status -> IF o \in UserFlags THEN <<0>> ELSE <<1>>
          [] o \in Flags -> IF o \in UserFlags THEN <<1>> ELSE <<0>>
          [] o \in Valued -> chan.vals[o]
          [] OTHER -> <<GetUdef(ofUdef(o), chan.name)>>]
\* The first of the name, defined or not.
ChannelGet(chan, us, o) ==
  CASE o \in Valued -> chan.vals[o]
    [] o \in Flags -> OnOff(Shown(chan, o))
    [] OTHER -> <<GetUdef(us[FirstOf(Named(us, o))], chan.name)>>
\* All of them at once: the user flags are told by their bits.
ChannelGetList(chan, us) ==
  [o \in Valued \cup Flags \cup {us[i].name : i \in DOMAIN us} |->
     CASE o \in Valued -> chan.vals[o]
       [] o \in Flags -> OnOff(ShownPlain(chan, o))
       [] OTHER -> <<GetUdef(us[FirstOf(Named(us, o))], chan.name)>>]
ChanSetType(us, o) ==
  CASE o \in Texts \cup {"chanmode"} -> "str" [] o \in Floods \cup {AopDelay} -> "pair"
    [] o \in Nums -> "int" [] o \in Flags -> "flag"
    [] OTHER -> us[FirstOf(Named(us, o))].type

-----------------------------------------------------------------------------
(* Commands.                                                                 *)

Here == World(chanset, udef, FALSE)
Becomes(set) == \E w \in set : chanset' = w.chans /\ udef' = w.udef
Change == changes < MaxChanges /\ changes' = changes + 1

TclChannelAdd(c, items) ==
  Change /\ Becomes({ChannelAdd(Here, c, items, FALSE)}) /\ UNCHANGED <<globset, chanfile>>
TclChannelSet(c, items) ==
  Change /\ Has(chanset, c) /\ Becomes({ChannelSet(Here, c, items, FALSE)}) /\ UNCHANGED <<globset, chanfile>>
TclChannelRemove(c) ==
  Change /\ Has(chanset, c) /\ chanset' = RemoveChannel(chanset, c) /\ UNCHANGED <<udef, globset, chanfile>>
CmdPlsChan(c, items) == ~Has(chanset, c) /\ TclChannelAdd(c, items)
CmdMnsChan(c) == Has(chanset, c) /\ "static" \notin The(chanset, c).status /\ TclChannelRemove(c)

\* .chanset: one word after the other, whether or not the one before was an option; the first
\* that takes a value takes the rest of the line.
OneByOne(w, c, items) ==
  LET word(s, it) == IF s.fails THEN s
                     ELSE LET n == ChannelSet(s, c, <<it>>, FALSE) IN [n EXCEPT !.fails = it.sign = ""]
  IN FoldLeft(word, w, items)
CmdChanset(c, items) ==
  Change /\ Has(chanset, c) /\ Becomes({OneByOne(Here, c, items)}) /\ UNCHANGED <<globset, chanfile>>
CmdChansetAll(items) ==
  /\ Change
  /\ Becomes({FoldLeft(LAMBDA w, chan : OneByOne([w EXCEPT !.fails = FALSE], chan.name, items), Here, chanset)})
  /\ UNCHANGED <<globset, chanfile>>

\* default-chanset: a flag it knows takes the new sign.
TracedGlobchanset(items) ==
  /\ Change
  /\ globset' = FoldLeft(LAMBDA g, it : CASE it.opt \notin Flags -> g [] it.sign = "+" -> g \cup {it.opt}
                                          [] it.sign = "-" -> g \ {it.opt} [] OTHER -> g, globset, items)
  /\ UNCHANGED <<chanset, udef, chanfile>>

TclSetudef(t, n) ==
  Change /\ udef' = InitUdef(udef, t, n, TRUE) /\ UNCHANGED <<chanset, globset, chanfile>>
\* Nobody asks whether the new name is taken.
TclRenudef(t, old, new) ==
  /\ Change /\ \E i \in Named(udef, old) : udef[i].type = t
  /\ udef' = [i \in DOMAIN udef |-> IF udef[i].name = old /\ udef[i].type = t
                                      THEN [udef[i] EXCEPT !.name = new] ELSE udef[i]]
  /\ UNCHANGED <<chanset, globset, chanfile>>
\* The one behind one that goes is not looked at; the first of the list comes last.
TclDeludef(t, n) ==
  LET it(ul) == ul.name = n /\ ul.type = t
      rest == FoldLeft(LAMBDA s, ul : IF it(ul) /\ ~s.gone THEN [s EXCEPT !.gone = TRUE]
                                       ELSE [us |-> Append(s.us, ul), gone |-> FALSE],
                       [us |-> <<>>, gone |-> FALSE], Tail(udef)).us
  IN /\ Change /\ \E i \in DOMAIN udef : it(udef[i])
     /\ udef' = IF it(udef[1]) THEN rest ELSE <<udef[1]>> \o rest
     /\ UNCHANGED <<chanset, globset, chanfile>>

Save == chanfile' = WriteChannels(chanset, udef) /\ UNCHANGED <<chanset, udef, globset, changes>>
Load ==
  /\ Becomes({ReadChannels(Here, Created(chanfile), TRUE)})
  /\ chanfile' = Created(chanfile) /\ UNCHANGED <<globset, changes>>

\* The config file, and what the file then says of the same channels; it is written again at once.
Configured(w, cfg, lines) == ReadChannels(RunFile(w, cfg, FALSE), lines, FALSE)
RehashNoSave(cfg) ==
  \E w \in {Configured(Here, cfg, Created(chanfile))} :
    /\ chanset' = w.chans /\ udef' = w.udef
    /\ chanfile' = WriteChannels(w.chans, w.udef) /\ UNCHANGED <<globset, changes>>
\* rehash(): before the config file the channel file is written.
Rehash(cfg) ==
  \E w \in {Configured(Here, cfg, WriteChannels(chanset, udef))} :
    /\ chanset' = w.chans /\ udef' = w.udef
    /\ chanfile' = WriteChannels(w.chans, w.udef) /\ UNCHANGED <<globset, changes>>
\* A start: the module may read the file before the rest of the config file is run.
Booted(cfg, lines) ==
  LET empty == World(<<>>, <<>>, FALSE)
  IN Configured(IF ReadAtLoad THEN ReadChannels(empty, lines, FALSE) ELSE empty, cfg, Created(lines))
Restart(cfg) ==
  \E w \in {Booted(cfg, chanfile)} :
    /\ chanset' = w.chans /\ udef' = w.udef
    /\ chanfile' = WriteChannels(w.chans, w.udef) /\ UNCHANGED <<globset, changes>>

Init ==
  /\ globset = {"userbans"} \cap Flags /\ changes = 0
  /\ \E w \in {Booted(cfg, None) : cfg \in Config} :
       chanset = w.chans /\ udef = w.udef /\ chanfile = WriteChannels(w.chans, w.udef)

Next ==
  \/ \E c \in Chans, items \in Options :
       \/ TclChannelAdd(c, items) \/ TclChannelSet(c, items) \/ CmdPlsChan(c, items) \/ CmdChanset(c, items)
  \/ \E items \in Options : CmdChansetAll(items) \/ TracedGlobchanset(items)
  \/ \E c \in Chans : TclChannelRemove(c) \/ CmdMnsChan(c)
  \/ \E t \in {"flag", "int", "str"}, n \in Udefs :
       TclSetudef(t, n) \/ TclDeludef(t, n) \/ \E m \in Udefs : TclRenudef(t, n, m)
  \/ Save \/ Load
  \/ \E cfg \in Config : Rehash(cfg) \/ Restart(cfg)

Spec == Init /\ [][Next]_vars

-----------------------------------------------------------------------------
(* Properties.                                                               *)

\* The type invariant: a channel is in the list once, and has every setting.
TypeOK ==
  /\ \A chan \in ToSet(chanset) :
       /\ chan.name \in Chans /\ Cardinality(At(chanset, chan.name)) = 1
       /\ chan.status \subseteq Flags /\ chan.modes.plus \cap chan.modes.minus = {}
       /\ DOMAIN chan.vals = Valued /\ \A o \in Valued : Len(chan.vals[o]) = IF ChanSetType(udef, o) = "pair" THEN 2 ELSE 1
  /\ \A i \in DOMAIN udef : udef[i].type \in {"flag", "int", "str"} /\ udef[i].name \in Udefs
  /\ globset \subseteq Flags /\ changes \in 0..MaxChanges

\* renudef may give two settings one name; then the file sets the first of them twice.
Clash == \E i \in DOMAIN udef : Cardinality(Named(udef, udef[i].name)) > 1

\* A letter l or k without its argument is not shown.
SameModes(m, n) ==
  /\ m.limit = n.limit /\ m.key = n.key /\ m.minus = n.minus
  /\ m.plus \ {"l", "k"} = n.plus \ {"l", "k"}
SameUdefs(us, vs, c) ==
  \A i \in DOMAIN us : us[i].defined =>
    \E j \in DOMAIN vs : vs[j].name = us[i].name /\ vs[j].type = us[i].type
                           /\ GetUdef(vs[j], c) = GetUdef(us[i], c)
Same(a, b) == SameModes(a.modes, b.modes) /\ a.status = b.status /\ a.vals = b.vals
Kept(w, cs, us) ==
  \A chan \in ToSet(w.chans) :
    Has(cs, chan.name) /\ Same(The(cs, chan.name), chan) /\ SameUdefs(w.udef, us, chan.name)

\* What is written of the channels makes them again, in their order, with every setting they had
\* (write_channels() and the commands it writes: two lists of forty settings, and two of letters,
\* that are kept apart by hand).
SaveRestores ==
  ~Clash => \E r \in {ReadChannels(World(<<>>, <<>>, FALSE), WriteChannels(chanset, udef), FALSE)} :
              /\ [i \in DOMAIN r.chans |-> r.chans[i].name] = [i \in DOMAIN chanset |-> chanset[i].name]
              /\ Kept(Here, r.chans, r.udef)

\* The four ways to ask for a setting agree, but for the user flags in the list of them all.
ViewsSame ==
  ~Clash => \A chan \in ToSet(chanset) : \A o \in Valued \cup Flags \cup Defined(udef) :
    /\ ChannelInfo(chan, udef)[o] = ChannelGet(chan, udef, o)
    /\ Chaninfo(chan, udef)[o] = ChannelGet(chan, udef, o)
    /\ o \notin UserFlags => ChannelGetList(chan, udef)[o] = ChannelGet(chan, udef, o)

\* A command of the file fails for this bot: a setting has another type than when it was written.
Fails(w, lines) == RunFile(w, lines, TRUE).fails
Compatible(cfg, lines) ==
  \A i \in DOMAIN cfg : cfg[i].cmd = "setudef" =>
    \A j \in DOMAIN lines : lines[j].cmd = "set" /\ lines[j].items[1].opt = cfg[i].chan
                               => lines[j].items[1].pre = cfg[i].type

\* A rehash changes nothing of the channels there are, though the config file resets the flags of
\* those it names; a restart brings back what was saved; a reload removes only what is not in the file.
\* (These steps leave changes alone, and none of the others does.)
FileKeeps ==
  changes' = changes => \A cfg \in Config :
    /\ Rehash(cfg) /\ ~Clash => Kept(Here, chanset', udef')
    /\ Restart(cfg) /\ ~Clash /\ chanfile = WriteChannels(chanset, udef)
         /\ (ReadAtLoad \/ Compatible(cfg, chanfile)) => Kept(Here, chanset', udef')
    /\ Load /\ ~Fails(Here, Created(chanfile))
         => Listed(Created(chanfile)) = {chan.name : chan \in ToSet(chanset')}
=============================================================================
