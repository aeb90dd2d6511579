# HybridCore: models and proofs

HybridCore is a fork of the eggdrop IRC bot. A bot is one process with one
thread: `main.c` runs an event loop that reads every socket that is ready, runs
the handler of the line that arrived, and once a second, minute and five minutes
runs the timeouts. Bots link to each other over TCP into a *botnet*, share their
user files over these links, and each keeps one connection to an IRC server.

Nothing inside one bot runs in parallel, so each handler is an atomic action of
the models. What is hard is everything between handlers: lines under way between
bots, connections that die with lines unread, timeouts that race answers, scripts
that change a list while it is gone through, records that go while something still
points to them, and queues that are edited while they are being sent.

Contents: the system, what makes it correct, the modules, the runs, the proofs, what
the code does otherwise than it says, and what is left out.

## The system

| Component (source under `src/src/`) | State it keeps | Operations | Talks to |
|---|---|---|---|
| **Botnet topology** `botnet.c botcmd.c botmsg.c dcc.c` | list of bots (`tandbot`: via, uplink, order), types of the bot connections | dial, login, link, `n`/`un`/`r`/`ul`/`bye` lines, duplicate logins, ping timeout, shutdown | bots by lines; user flags; share and party line are told of links gained and lost |
| **Party line** `botnet.c botcmd.c dccutil.c` | `party`: members of every bot with channel, idle, away | join, part, nick, away, idle over the net; relays | topology (members of a lost bot leave) |
| **Link pings, leaf checks** `botnet.c` | STAT_PINGED, STAT_WARNED | a minute's check | topology |
| **Bot authentication, logins** `dcc.c` | types of the connections, names, passwords, new records | telnet, ident, name, password, new users, new bots | records, topology, party line |
| **Connection table** `dcc.c dccutil.c` | `dcc[]`, `dcc_total` | new, lost, removal of lost entries | everybody |
| **Sockets, loop** `net.c main.c` | socket list, input and output buffers | tputs, dequeue, sockread, sockgets, killsock | everybody |
| **Sessions** `dcc.c dccutil.c tcldcc.c` | type, paging buffer, chat channel | say, page, move, control, boot, kill | party line, file area, scripts |
| **User file sharing** `share.mod` | per link: offered, getting, sending, share, aggressive; resync buffers; delayed lines | offer, accept, transfer, lines of changes, resync, cancel | topology; file transfer; user records |
| **File transfer** `transfer.mod` | connections sending and getting, acknowledgements, waiting queue | send, get, ack, resume, timeout, cancel | share; dcc users; file area |
| **File area** `filesys.mod` | a database per directory, as it lies on the disk | add, delete, move, describe, link, optimise | transfers |
| **Server queues** `server.mod/server.c` | three message queues, their counters, burst and penalty | queue, send, stack, merge and purge kicks | server connection, IRC modules |
| **Server connection** `server.mod/servmsg.c` | server list, connection, nick | connect, register, nick fallback, jump, stoned check | dns; queues; IRC channel state |
| **IRC channel state, mode queue** `irc.mod` | members, modes, masks, pending and sent modes | join, part, who, mode changes, enforcement | server queues |
| **Channel settings** `channels.mod` | channel records, user-defined settings, channel file | add, set, remove, write, read | IRC channel state |
| **Bans, exempts, invites, ignores** `channels.mod users.c` | lists of masks | add, remove by number or mask, expire, stick, share | share; IRC channel state |
| **User records, user file** `userrec.c users.c userent.c` | user list; pointers kept elsewhere; the file | change, save, load, replace | share sends every change |
| **Flags** `flags.c cmds.c tcluser.c` | global, channel and bot flags; consoles | chattr, botattr, console, strip, sanity | share; sessions |
| **Notes** `notes.mod` | note file, forwarding addresses, ignores | send, store, forward, read, erase, expire | botnet (lines passed on) |
| **DNS** `dns.c dns.mod` | requests under way, those who wait, cache | resolve, retry, expire | server connection, links, telnet |
| **Modules** `modules.c` | module list, dependencies, hooks | load, depend, unload, call hooks | everybody |
| **Binds** `tclhash.c` | bind tables, what is marked deleted | bind, unbind, walk, collect | scripts |
| **Timers** `chanprog.c tclmisc.c` | two lists of timers | add, kill, run | scripts |
| **Masks of names** `match.c` | none | wildcard, host and cron matching | binds, bans, file area |
| Text only: seen, assoc, ctcp, uptime, woobie, logging, language, memory, encryption | little or none | | |

`PROJECT.json` lists the components with what is modelled of each, and the
hazards at the lines where they bite.

## What makes each component correct

* **Topology.** All bots see one tree: the list of bots matches the links, every
  bot's parent is listed before it, loops are cut, a rejected bot goes, and
  nobody is accused of lying when all run this code.
* **Party line.** All bots agree on the members of every channel when nothing is
  in transit, and nobody is shown behind a bot that is gone.
* **Logins.** Whoever is in is known and came by a port for such as he is; one
  user is made the first owner; a bot is linked once; nobody waits for ever.
* **Sharing.** A hub's change of the user list reaches every leaf that shares,
  in every interleaving with an offer, a transfer, a lost link or a resync; lists
  travel from hubs to leaves only, one source at most; a transfer ends.
* **Server queues.** A line leaves the queue once, merged lines keep their
  meaning, the counters match the queues, nobody who left is kicked.
* **Server connection.** A line is sent on the connection it was queued for;
  registration ends in a nick or in the next server; the bot knows its own nick.
* **IRC channels.** The bot knows who is there and what they may; what it sent is
  answered or forgotten, never taken for a desync; its policy is what holds in the
  end.
* **Records.** No pointer outlives its record; a member is taken for the record that
  matches him best; what is written is read as the same.
* **Flags.** A record's flags are in order, sessions and consoles follow what they
  allow, nobody gives what is above him.
* **Files, notes, channels, masks.** What a command is not about stays; what is
  written comes back; a number means the entry it was shown with; bots that share
  agree.
* **Sockets, binds, timers, modules.** What comes is read in order and in lines;
  what is deleted while it runs is not run again; a timer runs in time and as often
  as was asked for; a module has what it needs.

## How the models are built

One module per component, parameterised by constants, with one action per handler of
the code. A handler that goes on after a nested call (`lostdcc`, `rembot`,
`check_tcl_bind`) is one action with all it does. Actions are named for the handler,
variables for the code's where they are the code's. What is outside the program (the IRC
server, nameservers, a client, a disk that changes underneath) is an action marked
external in `PROJECT.json`.

TLC checks small instances. To keep the number of runs small, components that share no
state are checked in one run: a variable `part` (or `net`) is chosen in the initial state
and says which component, or which instance of one, moves; the others keep their
first values. This adds the state graphs, it does not multiply them. A property
`part = "x" => P` is then P on that instance. Where a theorem states a property, the run's
module extends the component's own module, so that run and theorem name the same
definition.

Bounds are constants called `Max...` (how often an event of a kind may happen) or sets of
those who may do something (`MayFail`, `Reloaders`, `Breakable`). All of them are in the
`.cfg` files or at the head of the `MC` modules. A bounded system stops, so the runs
say `CHECK_DEADLOCK FALSE`; that nothing waits for ever is said by the liveness
properties.

## Modules

### Botnet

A connection is dialled once. Each of its ends has the dcc type of the code
(`DNSWAIT`, `FORK_BOT`, `TELNET_ID`, `DUPWAIT`, `CHAT_PASS`, `BOT_NEW`, `BOT`,
"none" when lost), each of its directions is a FIFO queue of lines, and a socket
that was closed is an `EOF` at the end of the queue. `tandbot[b]` is b's list of
bots: for each of them the link it is heard over (`via`), its parent (`uplink`)
and what stands before it in the list. The order is kept because `dump_links`
sends it and the receiver refuses a line whose parent it does not know yet.

| Code | Definitions |
|---|---|
| `botnet.c` | in_chain: `InChain`; nextbot: `NextBots`; lastbot: `LastBot`; addbot: `WithBot`; unvia: `Subtree`; rembot: `Without`; dump_links: `DumpLinks`; botlink: `CanLink`, `Dial`; botlink_resolve_success: `ResolveSuccess`; check_botnet_pings: `PingTimeout`; botunlink: `Unlinkable`, `IsGhost`, `Unlink`; init_bots: `NoBots` |
| `dcc.c` | dupwait_notify: `Resumable`; free_dcc_bot_: `DropLink`; failed_link: `FailedLink`; cont_link: `ContLink`; dcc_telnet_id: `TelnetId`; timeout_dupwait: `TimeoutDupwait`; dcc_bot_new: `AnswerChallenge`, `ReadHello`, `IgnoreBye`; greet_new_bot: `GreetNewBot`; dcc_chat_pass: `ChatPass`; bot_version: `BotVersion`; eof_dcc_bot_new: `LoginLost` |
| `dccutil.c` | lostdcc: `Commit` |
| `botmsg.c` | send_tand_but: `SendBut`; botnet_send_bye: `Die` |
| `cmds.c` | cmd_link: `Botlink`; cmd_unlink: `CmdUnlink` |
| `users.c` | autolink_cycle: `AutoChoices`, `Autolink` |
| `net.c` | killsock: `PeerGone` |
| `botcmd.c` | bot_nlinked: `Loop`, `Bogus`, `IllegalLeaf`, `BotNlinked`; bot_unlinked: `FromElsewhere`, `BotUnlinked`; bot_bye: `BotBye`; bot_reject: `BotReject`; bot_unlink: `BotUnlink` |

Left out: passwords and certificates, the version handshake's handlers, relays,
the three ports that a failed dial tries in turn (a dial is answered or not), the
minute's ping counters, the warning a leaf gets before it is cut.

`MCBotnetNets` has a ring of three and a line of four, `MCBotnet` a star of five.

### PartyLine

The bots form a tree whose links break and come back; `tandbot[b]` is reduced to what the
party line asks of it (who is known, behind whom). `party[b]` has the members of other bots
by bot and socket number, `dcc` the bot's own users with what they told. Join, part, nick,
away and idle lines, the dump that opens a link and the news of bots travel over the
links; a relay takes a user off and brings him back.

| Code | Definitions |
|---|---|
| `botmsg.c` | botnet_send_join_idx: `Join`; botnet_send_part_idx: `Part`; botnet_send_nkch: `Nkch`; botnet_send_away: `AwayLine`; botnet_send_idle: `Idle`; botnet_send_nlinked: `N`; botnet_send_unlinked: `Un`; send_tand_but: `SendBut` |
| `botnet.c` | unvia: `Subtree`; tandem_relay: `TandemRelay`; cont_tandem_relay: `ContRelay`; eof_dcc_relay: `EofRelay`; eof_dcc_relaying: `EofRelaying`; failed_tandem_relay: `FailedRelay`; failed_pre_relay: `FailedPreRelay`; dcc_relaying: `ByeRelaying`; dump_links: `InOrder`, `DumpLinks`; rempartybot: `Unvia`; nextbot: `IsBehind`; addbot: `With`; addparty: `AddParty`; partystat, partyaway: `Marked` |
| `dccutil.c` | dcc_chatter: `TellIf`, `Chatter`; set_away: `SetAway`; not_away: `NotAway` |
| `cmds.c` | cmd_chat: `ChatOff`, `CmdChat` |
| `userrec.c` | change_handle: `ChangeHandle` |
| `dcc.c` | eof_dcc_chat: `EofChat`; bot_version: `BotVersion`; free_dcc_bot_: `Closes`; eof_dcc_bot: `ReadsEof` |
| `botcmd.c` | fake_alert: `FakeAlert`; bot_nlinked: `BotNlinked`; bot_unlinked: `BotUnlinked`; bot_join: `BotJoin`; bot_part: `BotPart`; bot_nickchange: `BotNickchange`; bot_away: `BotAway`; bot_idle: `BotIdle` |

Left out: chat lines, `bot_infoparty`'s who lists, the `*` channel names, assoc.

### Share

For each pair of hub and leaf there are two link ends with their status flags
(`STAT_SHARE`, `STAT_OFFERED`, `STAT_GETTING`, `STAT_SENDING`, `STAT_AGGRESSIVE`),
the buffers of changes kept for that bot (`tbuf`), the lines under way in both
directions and the transfers, each with the list that was written to the file
and the state of either end. The file's connection is not ordered with the link.
A list maps records to versions: users, bans and the bots' own records, which a
transfer treats differently.

| Code | Definitions |
|---|---|
| `share.mod/share.c` | del_tbuf: `FlushTbuf`; new_tbuf: `NewTbuf`; can_resync: `CanResync`; q_addmsg: `QAddmsg`; q_tbuf: `QTbuf`; q_resync: `QResync`; shareout_mod: `Receives`, `Kept`; shareout_mod, shareout_but: `Shareout`; cancel_user_xfer: `CloseLast`, `CloseGetting`, `CloseSending`, `Cancel`, `CancelFiles`, `LostEnd`; share_version: `Version`; hook_read_userfile: `Reoffered`, `HookEnds`, `HookSent`, `HookFiles`; check_expired_tbufs: `Minutely`; sharein_mod: `Reads`; share_userfileq: `OtherSource`, `Userfileq`; share_ufno: `Ufno`; start_sending_users: `JumpStart`, `Collected`, `Transfer`; share_ufyes: `Ufyes`; share_ufsend: `Announced`, `Ufsend`, `Forgotten`; dump_resync: `Resync`; share_resyncq: `Resyncq`; share_resync: `ResyncYes`; share_resync_no: `ResyncNo`; share_endstartup: `Endstartup`; share_end: `ShareEnd`; share_newuser: `Applied`; share_chattr: `PassedOn`; share_pls_bothost, share_change: `Change`; finish_share: `FinishShare`; share_close: `Unload`; share_start: `Load` |
| `botnet.c` | zapfbot: `Drop`; check_botnet_pings: `Parts` |
| `dcc.c` | bot_version: `LinkUp`; eof_dcc_bot: `LinkLost` |
| `botcmd.c` | bot_bye: `Closing` |
| `userrec.c` | deluser: `ChangeLine`; adduser: `Edit` |
| `chanprog.c` | reload: `Reload` |
| `modules.c` | null_share: `NullShare` |
| `transfer.mod/transfer.c` | dcc_get_pending: `Connect`; dcc_send: `Arrives`; dcc_get: `Acked`; eof_dcc_send: `FileEof`; tout_dcc_send: `FileFails`; eof_dcc_get, transfer_get_timeout: `SendFails` |

Left out: `finish_share` that cannot read the file it got (it has deleted the bans
by then and goes on without them), channel settings, the choice of features
(`uf_features.c`), delayed lines, private ownership of hosts. When a link is given
up `cancel_user_xfer` closes one of its files; with two under way the model takes
the newer one.

`InSync` and `Settles` leave out records that the leaf's own operators write:
between the end of a file and its end mark such a change stays the leaf's alone,
and no document promises otherwise.

### ServerQueue

A queue is the sequence of lines that can be reached from its head, the counter
`tot`, and whether its `last` pointer points to freed memory (`dangling`): what is
appended then is counted and never reached. `burst` and `gap` (`now - last_time`)
are the code's; `owed` and `out` are not in the code: what was accepted and has still to
be said, and what the step wrote. A line is a command, a target, the users a KICK names
and a text; kicks are per user, since lines are merged and split by user.

| Code | Definitions |
|---|---|
| `server.mod/server.c` | mq, hq, modeq: `Queues`; MAXPENALTY: `MaxPenalty`; calc_penalty: `CalcPenalty`; write_to_server: `WriteToServer`; fast_deq: `Chosen`, `Stacks`, `FastDeq`; purge_kicks: `Present`, `PurgeKicks`; deq_kick: `SameKick`, `TakeVictims`, `Merged`, `MergeKicks`, `DeqKick`, `Deq`; deq_msg: `Count`, `Due`, `Refill`, `DeqMode`, `DeqMsg`; queue_server: `Inserted`, `HasRoom`, `Twice`, `Queued`, `QueueServer`; parse_q: `Forgotten`, `Victims`, `ParseQ`; check_queues: `CheckQueues`; empty_msgq: `EmptyMsgq`; server_secondly: `SecondlyQueues` |
| `server.mod/cmdsserv.c` | cmd_clearqueue: `ClearQueue` |
| `irc.mod/chan.c` | gotpart: `Leaves` |
| `server.mod/servmsg.c` | connect_server: `Reconnect`; server_resolve_success: `LoggedIn`; server_resolve_failure: `ResolvedQueues`; disconnect_server: `DisconnectServer` |

Left out: PING and PONG, which bypass the queues; lines too long to be merged; a
script's `out` bind that queues or clears while a line is being sent (it may refuse
lines when they are queued); who of the channel's members is the bot. Members change by
`Leaves` and `CheckQueues` only (a join adds nothing here), and are as at first for the next connection.

### ServerConn and Session

The server list and the place in it, the connection with what is under way in both
directions (`toServer`, `toBot`), the flags that separate variables of the code hold (`serv`,
`resolvserv`, `online`, `trying`, `pinged`, `cycle`), the bot's nick as it believes it
(`botname`) and as the server has it (`ircnick`), channels joined. `Session` is the abstract
component: one session at a time, channels belong to it, a requested server is the
next one. `KeepsSessions` states that `ServerConn` implements it.

| Code | Definitions |
|---|---|
| `server.mod/server.c` | server_postrehash: `ConstantsOK`; server_5minutely: `NoneUnderWay`, `FiveMinutely`; next_server: `NextServer`; server_secondly: `Secondly` |
| `server.mod/servmsg.c` | disconnect_server, kill_server: `Disconnect`; nuke_server: `NukeServer`; goterror, gotmode, eof_server: `EofServer`; timeout_server: `TimeoutServer`; connect_server: `ConnectServer`; server_resolve_failure: `Resolved`; gotfake433: `Fallback`; gotnick: `GotNick`; got303: `Got303`; server_activity: `Activity`; got001: `Registered`; got433, got437: `NickRefused`; minutely_checks: `Minutely` |
| `server.mod/cmdsserv.c` | cmd_jump: `Jump` |
| outside src/ | IRC server: `ServerReads`, `FallsSilent`; IRC network: `OthersTake`, `OthersLeave`, `Renamed` |

Left out: TLS, the server's capabilities and `005`, the choice between IPv4 and IPv6,
what a script does in `init-server`; nicks the server finds invalid (432), since the bot's are
taken to be valid; `.rehash`, which leaves `botname` as it was and sends nothing (below).

### IrcChannel

`here` is the server's channel, `chan` the bot's record of it (members with their
flags, masks, what it waits for, modes collected and sent), `modeq` and `mq` the lines
queued for the server, `toBot` those it has sent. What the bot reads is what happened, in order but later; what it sends is obeyed
only if it is still op when it arrives.

| Code | Definitions |
|---|---|
| `irc.mod/irc.c` | me_op: `MeOp`; me_halfop: `MeHalfop`; check_expired_chanstuff: `SendJoin`, `Minutely`; refresh_who_chan: `RefreshWho`; reset_chan_info: `ResetChanInfo`; check_lonely_channel: `CheckLonely`; killmember: `KillMember`; flush_modes: `FlushModes` |
| `irc.mod/mode.c` | flush_mode: `FlushMode`; real_add_mode: `Compat`, `Store`, `AddMode`, `StoreUnless`; got_op: `NetHack`, `GotStatus`; got_halfop: `GotOp`; gotmode: `AfterMode`, `GotMode`, `GotVoice`, `GotLetter`; got_deop: `GotLoss`, `GotDeop`; got_dehalfop: `GotDehalfop`; got_ban: `GotBan`; got_unban: `GotUnban`; got_exempt: `GotExempt`; got_unexempt: `GotUnexempt` |
| `irc.mod/chan.c` | got315: `Rejoin`, `Got315`; kick_all: `KickAll`; check_exemptlist: `CheckExemptlist`; do_mask: `DoMask`; refresh_ban_kick: `RefreshBanKick`; enforce_bans: `EnforceBans`; recheck_bans: `RecheckBans`; recheck_exempts: `RecheckExempts`; resetmasks: `ResetMasks`; recheck_channel_modes: `RecheckModes`; set_delay: `Delay`; quickban: `QuickMask`; check_this_member: `KickFlagged`, `CheckOp`, `CheckHalfop`, `CheckVoice`, `CheckBanned`, `CheckThisMember`, `Takes`, `GivesIf`; recheck_channel: `RecheckChannel`, `RecheckLists`, `Enforced`, `AsksAgain`; got352or4: `Got352`; got352: `GotWho`; got367: `GotMasks`; got324: `Got324`; gotjoin: `Greet`, `GotJoin`, `GivesFirst`; gotpart: `GotPart`; gotkick: `GotKick`; gotnick: `GotNick`; gotquit: `GotQuit` |
| outside src/ | an IRC server's MODE: `Obey`; an IRC server: `Obeys`; another user: `Joins`; a netsplit: `Splits` |

Left out: flood protection, revenge, bouncing of server modes, invites, Tcl binds; global
and channel flags of a user are taken together.

### Dns

Requests by name or address, those who wait for each, and the connections in the dcc table
that are held until the answer is in. A reply may be lost, late or repeated. Two addresses are compared
as the code does it (`SameAddr`): any two IPv6 addresses are the same to it.

| Code | Definitions |
|---|---|
| `dccutil.c` | new_dcc: `NewDcc`; lostdcc: `LostDcc`; removedcc: `RemoveDcc`; dcc_remove_lost: `RemoveLostFrom` |
| `dns.c` | dns_dcchostbyip: `DccAnswer`, `SameAddr`; dns_tcl_iporhostres: `Answer`; call_hostbyip: `Unlink`, `CallAll`; call_ipbyhost: `Call`; tcl_dnsipbyhost: `LookUp`; dcc_dnsipbyhost: `DccLookup`; tcl_dnslookup: `Script`; dcc_dnswait: `Closes` |
| `dns.mod/coredns.c` | dorequest: `Resend`; allocresolve: `NewRec`; failrp: `FailRp`; passrp: `PassRp`; findid: `Named`; dns_lookup: `DnsLookup`; parserespacket: `PtrReply`, `AReply`, `Reply`; dns_check_expires: `ExpireRec` |
| `dcc.c` | dcc_telnet: `Telnet`, `Refused` |
| `main.c` | core_secondly, mainloop: `RemoveLost` |
| `server.mod/servmsg.c` | connect_server: `Dial` |
| `dns.mod/dns.c` | dns_event_success: `Expire` |

### Users

Records by number (so that a freed one can be told from a new one), the list, `lastuser`, the
sessions' and the members' pointers, the user file on disk. Who may give which command is left
out: any command may be refused.

| Code | Definitions |
|---|---|
| `userrec.c` | check_dcclist_hand: `DccHand`; get_user_by_handle: `Found`, `Seek`; get_user_by_host: `ByHost`, `Closest`; adduser: `AddUser`; freeuser: `DelUser`; change_handle: `ChangeHandle`; addhost_by_handle: `AddHost`; delhost_by_handle: `DelHost`; sort_compare: `SaveTo`; clear_userlist: `ClearUserlist` |
| `chanprog.c` | check_chanlist_hand: `ChanHand`; check_chanlist: `CachedFor`; set_chanlist: `SetChanlist`, `Recognise`; clear_chanlist: `ClearChanlist`; reload: `Reloaded`; clear_chanlist_member: `ClearMember` |
| `userent.c` | hosts_set: `SetHost` |
| `users.c` | readuserfile: `ReadUserfile` |
| `share.mod/share.c` | dup_userlist: `DupUserlist`, `Copy`; finish_share: `Reattach`, `Freed`, `FinishShare`; share_newuser: `ShareNewUser`; share_change: `ShareChange`; share_killuser: `ShareKillUser`; share_pls_host: `SharePlsHost`; share_pls_bothost: `SharePlsBotHost`; share_mns_host: `ShareMnsHost`; share_chhand: `ShareChHand` |
| `irc.mod/chan.c` | check_this_user: `CheckMembers`; gotjoin: `GotJoin`; gotpart: `GotPart`; gotmsg: `GotMsg`; gotnick: `Renamed`, `GotNick`; recheck_channel: `Recheck` |
| `cmds.c` | cmd_pls_user: `PlsUser`; cmd_pls_bot: `PlsBot`; cmd_mns_user: `MnsUser`; cmd_pls_host: `PlsHost`; cmd_mns_host: `MnsHost`; cmd_chhandle: `ChHandle`; cmd_handle: `Handle`; cmd_save: `Save`; cmd_reload: `Reload`; cmd_rehash: `Rehash` |
| `irc.mod/msgcmds.c` | msg_hello: `MsgHello`; msg_addhost: `MsgAddHost` |
| `dcc.c` | dcc_telnet_new: `TelnetNew`; dcc_telnet_id: `Login` |
| `tcluser.c` | tcl_deluser: `TclDelUser`; tcl_setuser: `TclSetUser`; tcl_delhost: `TclDelHost` |
| `irc.mod/irc.c` | punish_badguy: `Punish` |
| `filesys.mod/filesys.c` | cmd_files: `FileArea`; filesys_dcc_send: `DccSend` |

### Flags

A flag is a letter. A record has global flags, flags per channel and, for a bot, bot flags; a
change is a text that is broken down, applied, brought into order, shared and taken to the
sessions.

| Code | Definitions |
|---|---|
| `flags.c` | flag2str: `Letters`, `Flag2Str`; bot2str: `BotLetters`, `Bot2Str`; break_down_flags: `Meant`, `BreakDown`; build_flags: `BuildFlags`; sanity_check: `SanityCheck`; chan_sanity_check: `ChanSanityCheck`; botfl_set: `BotflSet`; flagrec_eq: `FlagrecEq`; flagrec_ok: `FlagrecOk`; get_user_flagrec: `OnChan`; geticon: `Geticon`; logmodes: `LogModes`; masktype: `MaskType`; set_user_flagrec: `SetGlobal`, `SetChan`, `SetBot` |
| `tcluser.c` | tcl_matchattr: `Matchattr`; tcl_chattr: `TclChattr`; tcl_botattr: `TclBotattr` |
| `tclhash.c` | check_tcl_dcc: `Commands` |
| `userrec.c` | check_conflags: `CheckConflags` |
| `cmds.c` | check_dcc_attrs: `Rechecked`, `CheckDccAttrs`; check_dcc_chanattrs: `ChanOf`, `CheckDccChanattrs`; cmd_chattr: `Where`, `Said`, `MayGlobal`, `MayChan`, `Apply`, `Chattr`; cmd_botattr: `Botattr`; cmd_boot: `Boot`; do_console: `Dest`, `Console`; cmd_strip: `Strip`; cmd_echo: `Echo`; cmd_page: `Page` |
| `share.mod/share.c` | share_chattr: `ShareChattr` |
| `console.mod/console.c` | console_store: `Shown`, `Store`; console_dostore: `Set`; console_tcl_set: `ConsoleTclSet`; console_write_userfile: `ConsoleWritten`; console_chon: `Chon` |
| `channels.mod/channels.c` | channels_chon: `ChanAtLogin` |
| `dccutil.c` | dcc_chatter: `Login` |
| `dcc.c` | greet_new_bot: `LinkUp` |
| `filesys.mod/filesys.c` | cmd_files: `Files`; dcc_files: `DccFiles` |
| `tcldcc.c` | tcl_do_console: `TclConsole`; tcl_strip: `TclStrip`; tcl_echo: `Setting` |
| `users.c` | readuserfile: `Reread` |
| `chanprog.c` | reaffirm_owners: `Restart` |

### Login

One entry of the dcc table after another type, with the name it gave, what it was recognised by,
what it is asked, and whether its line has just restarted the timeout (`typing`); records with flags, passwords and host masks; the ports and whom they are
for.

| Code | Definitions |
|---|---|
| `dcc.c` | dcc_telnet: `DccTelnet`; detect_telnet_flood: `Calls`, `Floods`, `DetectTelnetFlood`; dcc_telnet_got_ident: `Welcome`, `GotIdent`; dcc_telnet_hostresolved: `HostResolved`, `ConnectFails`; eof_dcc_identwait: `IdentAnswers`; dcc_telnet_id: `MayEnter`, `TelnetId`, `SaysName`; dcc_telnet_pass: `TelnetPass`; dcc_chat_pass: `ChatPass`; bot_version: `BotVersion`, `Links`; dcc_telnet_new: `TelnetNew`, `ChoosesName`, `AskedAgain`; dcc_telnet_pw: `TelnetPw`; dupwait_notify: `Notified`; eof_dcc_telnet_new: `Eof`; timeout_dupwait: `TimeoutDupwait` |
| `userrec.c` | get_user_by_host: `Recognised`; deluser: `Deluser` |
| `main.c` | check_expired_dcc: `TimePasses`, `Timeout` |
| `botnet.c` | in_chain: `InChain`; addbot: `LinksElsewhere`; rembot: `Rembot` |
| `tcldcc.c` | tcl_listen: `Listen` |
| `cmds.c` | cmd_pls_user: `AddUser`; cmd_mns_user: `DelUser`; cmd_chpass: `ChPass` |
| `users.c` | check_expired_ignores: `Unignored` |

Left out: removing a password, TLS, the telnet protocol, what is printed, the lookup of the
address (`Dns`).

### Desk

One session: its type, what has been said to it and not shown (paging), its chat channel, whether
a script controls it, what another bot has been told of it.

| Code | Definitions |
|---|---|
| `botmsg.c` | botnet_send_part_idx: `Part`; botnet_send_join_idx: `Join` |
| `dccutil.c` | lostdcc: `Closed`; do_boot: `Leaves`; flush_lines: `FlushLines`; detect_dcc_flood: `TalksTooMuch`, `Counted` |
| `tcldcc.c` | tcl_killdcc: `Killdcc`, `TclKilldcc`; tcl_page: `TclPage`; tcl_setchan: `TclSetchan`; tcl_control: `TclControl`; tcl_boot: `Boot` |
| `dcc.c` | append_line: `AppendLine`; out_dcc_general: `Out`; dcc_chat: `Prompt`, `Enter`, `Talks`, `Quit`; out_dcc_script: `Says`; eof_dcc_script: `EofDcc`; dcc_script: `Returns`, `DccScript` |
| `cmds.c` | cmd_page: `PageOff`, `CmdPage`; cmd_chat: `Goes`, `CmdChat` |
| `filesys.mod/filesys.c` | cmd_files: `CmdFiles`; dcc_files: `FilesCommand`, `FilesQuit` |

### Transfers

Files in units numbered from 1. An entry is a file sent or received with what was sent,
acknowledged and read; a queue per user of what waits.

| Code | Definitions |
|---|---|
| `transfer.mod/transfer.c` | raw_dcc_resend_send: `Slot`, `Outcome`, `RawDccSend`; at_limit: `Running`, `AtLimit`; eof_dcc_get: `NextQueued`, `Ends`; pump_file_to_sock: `Amounts`, `Pumped`; dcc_get_pending: `DccGetPending`, `Connects`, `NoConnection`; ctcp_DCC_RESUME: `CtcpResume`; dcc_get: `Understood`, `DccGet`, `Reads`, `ReadsPart`; handle_resend_packet: `Reget`; outdone_dcc_xfer: `Outdone`; transfer_get_timeout: `GetEnds`; dcc_send: `DccSendData`; eof_dcc_send: `Kept`; eof_dcc_fork_send: `SendEof`; tout_dcc_send: `SendTimeout`; transfer_close: `TransferClose` |
| `transfer.mod/transferqueue.c` | show_queued_files: `Waiting`; queue_file: `QueueFile`; send_next_file: `There`, `SendNextFile`; fileq_cancel: `FileqCancel` |
| `dccutil.c` | lostdcc: `Lost`; dcc_remove_lost: `Done`; killtransfer: `Killtransfer` |
| `filesys.mod/filesys.c` | _dcc_send: `DoDccSend`; filesys_dcc_send: `FilesysDccSend`; filesys_dcc_send_hostresolved: `SendHostresolved` |
| `transfer.mod/tcltransfer.c` | tcl_dccsend: `TclDccsend` |
| `filesys.mod/filedb3.c` | remote_filereq: `RemoteFilereq` |
| `tcldcc.c` | tcl_killdcc: `TclKilldcc` |
| outside src/ | the client that a file is sent to: `Receives` |
| `filesys.mod/files.c` | cmd_reget_get: `CmdRegetGet`; files_reget: `FilesReget` |

Left out: the user file (`Share`), encrypted connections, numbers of four bytes that are
too small for the file.

### Files

A directory's database as it lies on the disk: a header and entry behind entry, used or empty,
found only by walking. `real` is what the directory holds.

| Code | Definitions |
|---|---|
| `filesys.mod/filedb3.h` | filedb_tot_dynspace: `DynSpace` |
| `filesys.mod/filedb3.c` | _filedb_getfile: `Walk`; _filedb_matchfile: `MatchFile`; filedb_delfile: `DelFile`; filedb_findempty: `FindEmpty`, `Taken`; _filedb_addfile: `AddFile`; _filedb_updatefile: `UpdateFile`; filedb_cleanup: `Cleanup`; filedb_mergeempty: `MergeEmpty`; filedb_update: `AddMissing`, `DelGone`, `Update`; filedb_open: `Open`; filedb_change: `Change`; filedb_setdesc: `SetDesc`; filedb_setowner: `SetOwner`; filedb_setlink: `DelLink`; filedb_ls: `Ls`; remote_filereq: `FileReq`; filedb_add: `Upload` |
| `filesys.mod/files.c` | cmd_mv_cp: `Replaced`, `MoveTo`, `MoveOne`, `CmdMvCp`; cmd_hide: `Hide`; cmd_unhide: `Unhide`; cmd_share: `Share`; cmd_unshare: `Unshare`; incr_file_gots: `IncrGots`; cmd_reget_get: `Get`; cmd_desc: `Desc`; cmd_rm: `Rm`; cmd_ln: `Ln`; cmd_mkdir: `CmdMkdir`; cmd_rmdir: `CmdRmdir`; cmd_optimize: `Optimize`; files_ls: `Look`; resolve_dir: `Chdir` |
| `filesys.mod/tclfiles.c` | tcl_mkdir: `TclMkdir`; tcl_rmdir: `TclRmdir`; tcl_mv_cp: `TclMvCp` |
| outside src/ | mkdir, unlink, cp: `Outside` |

### Channels

Channel records with a setting of each kind, user-defined settings, the defaults for new channels,
the channel file as the commands it consists of.

| Code | Definitions |
|---|---|
| `channels.mod/channels.c` | set_mode_protect: `SetModeProtect`; get_mode_protect: `GetModeProtect`; channels_start: `GlobItems`, `Restart`; remove_channel: `RemoveChannel`; write_channels: `Shown`, `ChanItems`, `UdefLine`, `WriteChannels`; read_channels: `Listed`, `ReadChannels`, `Created`; traced_globchanset: `TracedGlobchanset`; channels_rehash: `Configured` |
| `channels.mod/udefchan.c` | getudef: `GetUdef`; setudef: `SetUdef`; initudef: `InitUdef` |
| `channels.mod/tclchan.c` | tcl_channel_modify: `SetValue`, `SetFlag`, `SetPair`, `SetUser`, `Modify`; tcl_channel_add: `NewChan`, `ChannelAdd`, `Added`; tcl_channel: `ChannelSet`, `TclChannelAdd`, `TclChannelSet`, `TclChannelRemove`; tcl_channel_info: `ChannelInfo`; tcl_channel_get: `ChannelGet`; tcl_channel_getlist: `ShownPlain`, `ChannelGetList`; tcl_chansettype: `ChanSetType`; tcl_setudef: `TclSetudef`; tcl_renudef: `TclRenudef`; tcl_deludef: `TclDeludef` |
| `tcl.c` | readtclprog: `RunFile` |
| `channels.mod/cmdschan.c` | cmd_chaninfo: `Chaninfo`; cmd_pls_chan: `CmdPlsChan`; cmd_mns_chan: `CmdMnsChan`; cmd_chanset: `OneByOne`, `CmdChanset`, `CmdChansetAll`; cmd_chansave: `Save`; cmd_chanload: `Load` |
| `chanprog.c` | rehash: `Rehash`; chanprog: `Booted` |

### Masks

The lists of bans, exempts, invites and ignores of one bot or of two that share, the modes set on
their channels, what is deleted last and what is delayed.

| Code | Definitions |
|---|---|
| `channels.mod/userchan.c` | u_match_mask: `AddMode`; u_equals_mask: `At`; u_addban: `Add`, `Refused`; u_delban: `DelResult`, `Removed`; u_setsticky_mask: `SetSticky`; tell_invites: `Unlisted`; tell_bans: `Shown`; expired_mask: `Expires`; check_expired_exempts: `Needed`, `CheckRec`; check_expired_bans: `CheckExpired`; write_bans: `Save` |
| `irc.mod/chan.c` | check_this_ban: `CheckThisBan` |
| `share.mod/share.c` | shareout_mod: `Tell`; share_pls_exempt: `GotPls`; share_pls_ban: `GotPlsBan`; share_mns_ban: `GotMns`; share_stick_ban: `GotStick`; add_delay: `CheckDelay` |
| `users.c` | delignore: `DelMask`; check_expired_ignores: `Overdue`; restore_chanban: `Restored`; readuserfile: `Reloaded` |
| `channels.mod/tclchan.c` | tcl_newchanban: `PlsMask`; tcl_killban: `Kill`; tcl_stick: `TclStick` |
| `channels.mod/cmdschan.c` | cmd_pls_ban: `PlsBan`; cmd_pls_exempt: `PlsExempt`; cmd_pls_invite: `PlsInvite`; cmd_mns_ban: `MnsNumber`; cmd_mns_exempt: `MnsByNumber`; cmd_mns_invite: `MnsMask`; cmd_stick: `Stuck`; cmd_stick_yn: `StickNumber`, `StickMask` |
| `cmds.c` | cmd_pls_ignore: `PlsIgnore`; cmd_mns_ignore: `MnsIgnore` |

### Notes

The note file, forwarding addresses, ignores, the sessions and the lines between bots.

| Code | Definitions |
|---|---|
| `botmsg.c` | add_note: `Vias`, `Open`, `IsAway`, `AddNote`; botnet_send_priv: `Send` |
| `notes.mod/notes.c` | tcl_storenote: `Origin`, `MayForward`, `StoreNote`; num_notes: `NumNotes`; msg_notes: `MsgTo`; notes_parse: `NotesParse`; notes_in: `NotesIn`; notes_del: `OrAll`, `Chosen`, `TakeOut`, `NotesDel`; tcl_erasenotes: `NumberOf`, `TclEraseNotes`; notes_read: `NotesRead`; tcl_notes: `TclNotes`; tcl_listnotes: `TclListNotes`; expire_notes: `Hourly`; notes_change: `Chhand`; away_notes: `Away`; chon_notes: `Chon`; match_note_ignore: `MatchNoteIgnore`; add_note_ignore: `AddNoteIgnore`; del_note_ignore: `DelNoteIgnore` |
| `notes.mod/cmdsnote.c` | cmd_note: `CmdNote`; cmd_notes: `NotesIndex`; cmd_fwd: `CmdFwd`; cmd_pls_noteign: `PlsNoteign`; cmd_mns_noteign: `MnsNoteign` |
| `tclmisc.c` | tcl_sendnote: `SendNote` |
| `botcmd.c` | bot_priv: `Received`, `BotPriv`; bot_unlinked: `Unlinked` |
| `dcc.c` | eof_dcc_bot: `Break` |
| `botnet.c` | rembot: `Forget` |

### Sockets

The socket table with input and output buffers and flags; a character is the number of its place in
what was written.

| Code | Definitions |
|---|---|
| `net.c` | allocsock: `Entry`, `Null`; sockgets: `LineEnd`, `HasLine`, `AfterEnds`, `Pending`, `FromInbuf`, `EofAtWrite`, `Taken`, `Connected`, `Sockgets`; killsock: `Killed`, `Killsock`; sockoptions: `Unbuffer`; sock_has_data: `Stored`; sockread: `Sockread`; tputs: `Tputs`; dequeue_sockets: `DequeueSockets`, `WriteFails`, `Drains` |
| `main.c` | mainloop: `EofAtRead` |

### Binds

A table of binds in order, what is marked deleted, and the walks under way, one inside the other.

| Code | Definitions |
|---|---|
| `tclhash.c` | bind_bind_entry: `Mask`, `Cmd`, `At`, `BindBindEntry`; unbind_bind_entry: `Has`, `Live`, `Unbound`; check_bind_match: `Met`; garbage_collect_tclhash: `Collected`; check_tcl_bind: `CheckTclBind`, `RunsNext`, `ChoosesOne`, `Preferred`, `Finishes`, `Returns`; trigger_bind: `TriggerBind`; tcl_bind: `Bind`, `Unbind` |
| `main.c` | garbage_collect: `GarbageCollect` |

### Match

The matching algorithms as steps over a state (mask position, name position, fallbacks), beside what
the documentation says a mask means.

| Code | Definitions |
|---|---|
| `match.c` | _wild_match_per: `At`, `Past`, `Fallback`, `Compare`, `Back`, `EndsInStar`, `Turn`, `Turns`, `Start`, `WildMatchPer`; _wild_match: `Before`, `Rest`, `WildMatch`; cron_matchfld: `CronMatchfld`; cron_match: `CronMatch` |
| `transfer.mod/transfer.c` | wild_match_file: `WildMatchFile` |

### Timers

Two lists of timers, the one that is gone through, the script that runs, and the clock. `wanted` is what
has been asked for.

| Code | Definitions |
|---|---|
| `chanprog.c` | add_timer: `Added`; remove_timer: `Without`; wipe_timers: `WipeTimers`; do_check_timers: `Begun`, `Less`, `Back`, `GoesBack`, `Fires`, `HasRun` |
| `tclmisc.c` | tcl_timer: `TclTimer`; tcl_killtimer: `TclKilltimer` |
| `main.c` | mainloop: `CoreSecondly`; core_secondly: `Minute`, `AllDone`; core_minutely: `CoreMinutely` |

### Modules

The list of modules, what each needs, the hooks, and the nest of loads and unloads under way.

| Code | Definitions |
|---|---|
| `modules.c` | module_load: `ModuleEntry`, `Found`, `LoadBegins`, `ModuleLoad`, `StartFails`, `LoadReturns`; init_modules: `InitModules`; add_hook: `HooksOf`, `StartEnds`; del_hook: `DelHook`; module_find: `ModuleFind`; module_unload: `Needed`, `ModuleUnload`, `Prior`, `Refused`, `Unloaded`, `Mishap`; module_undepend: `Undepended`; module_depend: `Asks`, `DependLoads`, `ModuleDepend` |
| `tclmisc.c` | tcl_loadmodule: `MayAsk` |
| `modules.h` | call_hook: `CallHook`, `NextHook` |
| `tcldcc.c` | tcl_restart: `Restart` |
| `main.c` | mainloop: `CanGo`, `RestartUnloads` |

## Runs

| Run | Parts | Properties |
|---|---|---|
| `botnet_nets` | ring, line | `ListsKept`, `NoFalseAlarm`, `OneNet`, `LineIsTrue`, `RingRests` |
| `party` | party, relays | `NoStrangers`, `PartyKnown`, `AwayTold` |
| `share_nets` | hubs, basic, resync, reload | `InSyncNets`, `EndsAgreeNets`, `Directed`, `SettlesNets` |
| `server` | queues, connection | `QueuesKept`, `NothingMissing`, `ConnectionKept`, `Drains`, `KeepsSessions`, `RegainsNick` |
| `irc` | members, ops, deops, bans, exempts, halfops, kicks, hack, alone | `StateKnown`, `ModesKnown`, `PolicyHoldsNets`, `RejoinsNets` |
| `services` | lookups, callbacks, IPv6 lookups; recognition, sessions; bans, exempts, invites, shared bans, ignores; one directory, two directories; settings, settings of scripts; note file, notes on the way | `NamesKept`, `RecordsKept`, `MasksKept`, `FilesKept`, `ChannelsKept`, `NotesKept`, `AllAnswered`, `OthersKeep`, `NumbersMean` |
| `people` | flags, console, bot flags, shared flags; founding, bots, ident; paging, moving; files that wait, one file, uploads; lines, writing; wildcards, codes, commands; masks; timers; modules | `LoginsKept`, `DeskKept`, `PartsKept`, `TimersKept`, `SocketsKept`, `ModulesKept`, `FlagsByRight`, `LoginsEnd`, `AllDelivered` |
| `botnet_orphan`, `share_late_end`, `server_stoned`, `irc_ghost`, `users_nick` | | one violated property each, see "What the code does otherwise" |

A property with `Kept`, `Nets` or a plural in its name is the conjunction, over the parts,
of the properties of the components' modules; what each of those says is told where it is
defined.

### `botnet_nets`

The ring: three bots, each dials the next, two of them with hubs and an alternate, any link
may fail and one bot may shut down. Lists keep their shape and order and match the links at
every moment (`ListsKept`), no honest bot is cut off for a bogus or misdirected line
(`NoFalseAlarm`), and when nothing is under way the links form trees and every list is
the tree it is in (`OneNet`). Under fairness the net comes to rest (`RingRests`): no login waits
for ever. The line: four bots, a leaf, a bot that another one rejects and that tries
another way in, a remote unlink and a link that fails. The same properties, and the
rejected bot is off (`LineIsTrue`).

Bounds: each connection is dialled once, so a net of n connections sees at most n logins and as
many losses; `MayFail`, `MayDie` and `Unlinks` name who fails and what is typed. Three bots are
the least with a loop and an alternate route, four the least with a route that is longer than one
bot, five are needed by the ghost of `botnet_orphan` (somebody behind the bot that comes back). In
`botnet_orphan` two constraints prescribe the order in which the net is built, since all
orders of five links are out of reach; a constraint can only hide counterexamples.

### `party`

Three bots in a row and one user who joins, changes channel and nick, goes away, relays and
leaves, on a global or a local channel, in four operations; the link to the last bot breaks once, with
lines under way. `NoStrangers`: nobody is shown of a bot that is not in the list.
`PartyKnown`: with nothing under way all agree on who is where and as whom. `AwayTold`: and on
who is away, but for those whose message a bot has kept after they came back (botcmd.c:1380). In "relays" the relay of a user fails or is broken off.

### `share_nets`

Hub and leaf with transfers that fail in every way, repeated offers and a module that is unloaded
(basic); two hubs, a bot in the middle and its leaf (hubs); resync buffers at both ends of a link that is
lost when silent (resync); user files reloaded at either end (reload). With nothing under way both ends of
a pair have the same list (`InSyncNets`), take themselves to share or not to share together
(`EndsAgreeNets`), and in "reload" settle on one list for good (`SettlesNets`). A leaf has one
source, and never offers its own list upwards (`Directed`).

`InSync` and `Settles` leave out records that the leaf's own operators write: between the end of a
file and its end mark such a change stays the leaf's alone, and no document promises otherwise.

The run takes two things as given that the code does not force. The first is `InOrder`: the leaf
notices what happens to its file connection before it reads lines that were sent later on the link;
`share_late_end` is what happens otherwise. The second is the absence of combinations in which the
promise breaks. TLC finds these when the constants of the named part are changed:

| Part and change | What is violated, and how |
|---|---|
| resync, `Lossy` | `InSync`: changes that were under way when the link was lost are in no buffer, and the resync that follows has nothing to send. |
| resync, `QLimit = 1` | `InSync`: `q_addmsg` ignores what does not fit and the buffer is sent as if complete (the code's limit is 1000). |
| resync, `Reloaders = {"leaf"}` | `EndsAgree`: after a resync the hub is not marked as the leaf's source (`share_resyncq` sets STAT_SHARE without STAT_AGGRESSIVE, share.c:1240), so the leaf's reload makes it offer its list to the hub, which refuses, and sharing ends at one end. |
| hubs, `AllowResync` for the bot in the middle | `Directed`, in 16 steps: having resynced with one hub it also takes the file of the other. |
| hubs, `AllowResync` for all | `InSync`: the middle bot takes over a file while its leaf is away; the leaf resyncs from a buffer in which the file is not. |
| resync, `Keen = {"hub"}` | `EndsAgree`: the offer is repeated while the answer to the resync is under way; the leaf accepts, the hub ignores it, and the leaf waits for a file. |
| basic, `SlowFiles` | `EndsAgree`: a transfer longer than `resync-time` loses its buffer, end mark included, and the leaf stays in STAT_GETTING. |
| `share_late_end`, `Reloaders = {"hub"}` | `EndsAgree`: the refusal of a cancelled file is taken for that of its successor. |
| hubs, `Breakable` or `Unloaders` = `{"hub"}` | `InSync`: the middle bot offers a new list to its leaf only when it reads the end mark; when the hub goes between the file and the mark, the leaf is not told. |
| reload, `Unloaders = {"hub"}` | `Settles`: an offer lost with the module leaves STAT_OFFERED set for good unless the hub is keen to repeat it. |

Bounds: two to four changes, two to four links established, at most three lines under way per direction
before a new change is made. Every race above needs one change and one transfer or reconnection; three
links give a cancelled transfer, its successor and one more loss.

### `server`

Queues: four lines besides the login over two connections, queues of two lines, one change of the
channel. Two lines in a queue are enough to stack, merge, duplicate and overflow. What was accepted is said
or still queued, counters match, nothing goes out on a connection it was not queued for, nobody who has
left is kicked (`QueuesKept`, `NothingMissing`), and in the end everything is said (`Drains`). The part stays clear of
faults that TLC finds under other constants:

* `deq_kick` unlinks a merged kick and leaves `last` on the freed entry if it was the last line and others
  stay; `purge_kicks` does the same with a kick nobody is left for. What is queued next is counted
  and never sent: `CountMatches` and `NothingLost` break as soon as a kick, another line and a
  second kick share a queue. In the run the kicks have the server queue to themselves.
* `parse_q` rewrites a KICK of two users when one changes nick and drops every victim before one who keeps his
  (server.c:564; doc/settings/mod.server:241-243). In the run one of the kicks names two users; those who are
  dropped so (`Forgotten`), and they alone, are not owed any more.
* `.clearqueue` of the mode or the server queue resets `burst`, so the lines queued right after it are a new
  burst; a line of the help queue is sent without being counted into it.
* With `KickMethod = 0`, documented as "all at once", no kick is ever merged; and the victims of the first
  line count as one, so a merged line may name more than `kick-method` of them.

Connection: two servers, four attempts, two losses, one `.jump`, nick taken by others or renaming by a service, two nicks and a ghost: an attempt
can fail at each stage and be followed by one that succeeds and one that is lost again. There is one
connection, its flags describe it, and at rest the bot knows its own nick (`ConnectionKept`); the module
implements `Session` (`KeepsSessions`); the bot gets its nick back (`RegainsNick`).

### `irc`

Nine channels, of one to three other users and two or three events: splits, renames and kicks (one user is
op at first); ops, the bot's own too; two other ops and one who joins, four events, with the bot deopped while a WHO is answered (deops); a sticky ban and a user who must not be op; dynamic bans, exempts and delayed voices;
halfops; a kick and a nick change; a net hack; the bot alone. The bot knows who is there, as whom,
and which masks are set (`StateKnown`); what it sent is answered or forgotten and not taken for a desync
(`ModesKnown`, but for what `got_deop` leaves, see below); its policy holds (`PolicyHoldsNets`); it comes back when it is kicked (`RejoinsNets`).
Three events are enough for a change, the WHO or mode that answers it, and one that crosses it.

### `services`

* Lookups and callbacks: four who ask, of two addresses and three names, two sends per request; replies that
  come late, twice, never, for a slot that has been used anew. `NamesKept`, and `AllAnswered` in the end. In
  "IPv6 lookups" two telnets and a script ask about IPv6 addresses; there, and only there, one may be given the other's name.
* Recognition and sessions: two records and a bot's, two masks, three changes: `RecordsKept`.
* Bans, exempts, invites, ignores, alone and shared by two bots: `MasksKept`; a number given to `.-ban`
  means the entry shown with it (`NumbersMean`).
* One and two directories, three operations: `FilesKept`. Channels, two changes, save and restart: `ChannelsKept`.
* Notes, a file of one or two notes and a line of three bots that forward to each other: `NotesKept`.
* What a step is not about stays (`OthersKeep`).

### `people`

* Flags: two or three changes by owners, masters and scripts, of one bot or crossing between two: `FlagsKept`,
  which is part of `PeopleKept` (in `PartsKept`), and `FlagsByRight`.
* Logins: two or three connections and one or two changes by others meanwhile: `LoginsKept` (the first users
  of a new bot), `PeopleKept` (a bot that comes twice; callers asked for by ident), `LoginsEnd`: whoever waits is let in
  or sent away, unless he keeps being refused names (see below).
* Desk: up to five lines said, two to four doings: `DeskKept` (paging) and, in `PeopleKept`, the same where the session
  moves about. Transfers, in `PeopleKept` too: three requests, or a file of five bytes in blocks of two.
* Sockets: every text of six characters of which some are line ends, read in any pieces, with a buffer of three (`SocketsKept`); two
  connections that are written to and read (`CoreKept`, in `PartsKept`, by the same `SocketsKept`). Binds: three masks, two procs, two changes while two walks are
  nested. All masks of up to three characters against names of up to three, and five kinds of cron field on 42
  days. Modules: five, of which one may fail to start, one refuses to go, three loads or unloads nested: `ModulesKept`.
* Timers: two, with times 0 and 2 and counts 0, 1, 2, a clock that jumps by one or four: `TimersKept`.
* `AllDelivered`: what comes is read, what is written is taken, what waits is shown to one who asks for more.

### Fairness

Weak fairness only, and only of what `main.c` does in every round of its loop (sockets that are ready are read,
buffers are sent) or what its timers do (`core_secondly`, `core_minutely` and their hooks), and of an
outside that goes on where the property is about an outside that does:

* `Botnet`: each end with something to read or to time out is served (`Handle`). Dialling and typing are not fair.
* `Share`: a link that is down comes up (autolink), the minute timer runs, sockets are read, files end or time out.
* `ServerQueue`: `SecondlyQueues`. `ServerConn`: the three timers, the timeout, what is read, that lookups end, and that the
  server reads and that others leave a nick the bot falls back on.
* `IrcChannel`: the server's lines are read, the minute timer, a server that answers, in the part "alone".
* `Dns`: a request times out in the end. `Login`: who waits and
  says nothing for long enough is served or times out; that he says nothing for so long is not assumed (`AskedAgain`, `TimePasses`). `Sockets`: what is there is
  read, what is buffered goes out. `Desk`: the user presses return.

## Proofs

Eight modules prove theorems for every value of the constants, `tlapm` checking each leaf. A theorem that states a
property of a run names the same definition the run checks.

### The net (`Botnet_proofs`)

For any finite set of bots, any connections, hubs, alternates, leaves, rejects, failures and shutdowns:

| Theorem | States |
|---|---|
| `Invariance` | `IInv` is an invariant |
| `TypeCorrect`, `ListsMatchLinks`, `ParentsAreFirst`, `ListsAreKept` | `TypeOK`, `ListMatchesLinks`, `ParentsFirst`, and all three: `ListsKept` |
| `DumpParentsFirst` | the lines of `dump_links` can be read one by one: the parent in each is the sender or was in an earlier line |
| `LinesAreTrue` | `LInv` is an invariant |
| `NobodyIsAccused` | `NoFalseAlarm`: no link is lost for a bogus link notice, no bot is rejected for an `un` about a bot that is not behind it |
| `NeighboursDoAgree` | where a link is up and nothing is under way on it, what one end has heard is what the other lists without having heard it here |
| `ThereIsOneNet` | `OneNet`: at rest, n bots that see each other have n - 1 links between them, and each lists the rest |

All assume the three assumptions on the constants in `Botnet`, and `OnlyLocalUnlinks`: operators unlink neighbours only.
Without it `ListMatchesLinks` is false: that is `botnet_orphan`.

`ListMatchesLinks` is not inductive. When a link goes, everything heard over it must go, and what `unvia` removes
is what hangs below the lost bot by its parents. That the two are the same set needs `ParentsFirst`: from a listed bot each
step to the parent stays on the same link and goes strictly earlier in the list, so it ends at the link's own bot
(`ViaInSubtree`, by well-foundedness of the sets of earlier names). `ParentsFirst` in turn needs the order to be a strict order
of one list. The conjunction of these for one bot is `Good`. The handlers of another bot do not touch it, so the only thing
`IInv` says of several bots is what may be under way: no bot sends its neighbour a remote unlink or the news that it is itself
unlinked. Each handler is one step of the proof; they share lemmas on what adding a bot, removing a subtree and
closing ends do to `Good`.

What relates two bots is what is under way between them. `LInv` says, for each direction of a connection: take what the
reader has heard over it (`Via`), apply the queued lines one after the other, and the result is what the sender
shows the reader (`Shown`: its list without what it heard there); and each line is justified when its
turn comes: a link notice names a parent the reader has by then and a bot it does not have, an unlink notice a bot it has. A
bot that is added, a subtree that goes and a dump are each a lemma on how a queue is told. `LInv` also says what may stand in the
queue of an end that is closed or dialling (nothing), and that where the peer has closed an EOF is last. A line
that is justified trips none of the checks of `botcmd.c`: `NobodyIsAccused`.

At rest every queue is empty, so neighbours agree. That makes one picture of the whole net only if no link is missing
from it and none makes a loop. Suppose b lists q and q's own link were not there: pass on to the bot over which b
heard of q, and on; the walk never turns back, and on a finite set it would have to close a circle. `NoWalk` excludes
it without induction over paths: take the smallest set that is closed under the walk; without those that have heard of q over
the walk it would be closed and smaller. `ListedIsReached` and `ReachedIsListed` follow, and every bot but the one
that all the others have heard first has exactly one link towards it, which counts the links (`LinksFormTrees`).

### The party line (`PartyLine`, `PartyLine_proofs`)

`NoStrangersShown`: `NoStrangers`, for any tree of bots, any users, channels, relays and losses, with no assumption. A member
is taken only behind a bot that is known, and whatever takes a bot off the list takes its members with it.

### Sharing (`Share_proofs`)

`ListsGoOneWay`: `Directed`, for any bots and any pairs of hub and leaf, however they reload, unload, break and fail. It
assumes `LeavesTakeFiles`: bots that are a leaf to another do not resync; the table above shows the run that
needs it. The invariant (`EndsOK`) says of each end which combinations of status flags it can be in, seen from the
direction of the pair, what may be under way in that direction (`May`), and that buffers keep only what `Stored` allows.

### The server (`Server_proofs`)

| Theorem | States |
|---|---|
| `ConnInvariance` | the inductive invariant: flags that go together, what may be in the queues to and from the server, and that the bot's nick and the lines under way account for what the server calls it |
| `ConnectionIsKept` | `ConnectionKept`: one connection, its flags describe it, the bot knows its nick at rest |
| `SessionsAreKept` | `KeepsSessions`: each step is a step of `Session` or leaves it alone |
| `QueuesAreKept` | `QueuesKept`: nothing goes out on another connection than it was queued for; with optimize-kicks 2 nobody who has left is kicked; counts and burst within bounds |
| `NothingIsMissing` | `NothingMissing`: without optimize-kicks every line accepted is said or still in its queue, and each queue's count is its length |

The first three assume `ConstantsOK`: there is a server (the bot does not start without one, server.c:1752-1757), and the
names are names. `SessionsAreKept` also takes `TableFull = FALSE`: `connect_server` gives up the requested server before it
knows whether the table of connections has room for it (servmsg.c:1197, 1215).

The theorems about the queues hold for any lines, nicks, channels, limits and settings, with no bound on what is queued, moves or
connects. They assume `QueuesAssumption`: a KICK, and no other line, names users, on a channel the bot knows, and the login kicks
nobody. `NothingIsMissing` takes `OptimizeKicks = 0`, because merging and purging kicks leaves `last` on freed memory (the faults above),
and a login that fits into its queue, since `server_resolve_success` does not ask whether it does.

`NoVainKicks` speaks of the step that sends; its invariant (`QueuesInv`, by `Fine`) is about values: what `DeqMsg`, up to four turns deep, makes of
any record of the queues. Each operator of the module has one lemma saying that it takes such a record to another (`FastDeqFine`,
`PurgeFine`, `MergeFine`, `DeqFine`, `DeqMsgFine`, `QueuedFine`) and, for `NothingMissing`, that it loses nothing (`FastDeqWhole` and on). The rest are
lemmas on the recursive functions: what `Chosen` takes out of a sequence and in which places, what `Merged` makes of lines
behind the first. Recursion over data is reasoned about here by the least place where the claim fails (`LeastOfMany`).

### Logins (`Login_proofs`)

`LoginsAreKept`: `LoginsKept`, for any connections, ports, handles, passwords and settings. It assumes `ConstantsOK`: no
user is called NEW, passwords are not empty, who is asked for by name is a name. The invariant joins `Typed`; `AllSound`, what each state of a
connection says about its record, its port and its host; `Links1`, that a bot is linked once; `Founding` and `Choosing`, that
who chooses a password has a record that waits for it and the first owner is one of them; and `NoneHalfMade`. What others may do
between two steps, delete the record, change flags, link the same bot, close the port, keeps each part.

### Sessions (`Desk_proofs`)

`DesksAreKept`: `DeskKept`, for any sizes of page, rooms, limits, and whatever the user and the scripts do. It assumes
`DeskAssumption`: sizes that users give are naturals (`cmd_page` does nothing for a number below one; 0 stands for `off`), those of scripts any
integers, and no more is said in a run than the 0x7ffffff lines that `.page off` sends at once. What is shown and what waits are one numbered sequence
(`Numbered`) only together with three more facts: without paging nothing waits, or a script has left it; `current_lines` is the length
of the buffer, until `.page` has set it to nothing; and who has gone or is with a script is not seen. Handlers are
composed of few steps on one session (`Out`, `FlushLines`, `Goes`, `Leaves`): each is a lemma on what it does to the lines and to the place,
and a handler that only moves the session is one that leaves its lines alone (`LinesStay`), and the other way round (`PlaceStays`).

### Connections (`Sockets`, `Loop_proofs`)

`SocketsAreKept`: `SocketsKept`, for any number of connections, any texts, any width of a line, however what comes is split, whatever
the network takes, and however connections are lost or closed in between. It assumes `SocketsAssumption`: a text is a
sequence of characters that end a line or do not, and a line has room for one at least. `SocketsKept` says that lines are what they should be; the invariant
says of each entry where in its text it has got to: what was given on ends at some character, the buffer goes on
from there and what is still to come behind it (`Reads`), and what was written is taken, in order, or still held (`Writes`). Each step
touches one entry, so `Sound` is proved of one entry at a time.

### Timers (`Timers`, `Loop_proofs`)

`TimersAreKept`: `TimersKept`, for any timers, times, counts, jumps of the clock and scripts. It assumes that times and counts are
naturals (`tcl_timer` and `tcl_utimer` refuse negative ones) and that a minute has at least one second. The invariant: no timer is in two
of the places it may be in, the two lists, what is still to be gone through and the one whose script runs (`Separate`); in each it has as
many runs and as much time left as were asked for (`AllKept`); and what was asked for and is not killed is in one of
them (`AllThere`).

### Modules (`Modules`, `Modules_proofs`)

`ModulesAreKept`: `ModulesKept`, for any modules and needs, in a circle too, whatever is missing, fails to start or does not close, and
however deep scripts nest loadings and unloadings. It assumes `ModulesAssumption`: what is there at first is there once and with what it needs, which
is how a bot comes up (`init_modules` and the configuration file). Like the property it says nothing after a `mishap`: then the code works with freed entries.

`ListTrue` is not inductive: a failing start takes the first entry off the list, and an unloading acts on what was asked before scripts
ran. What saves both is the order of numbers. The list is the youngest first (`Whole`); whatever is above another in the stack of acts began later
(`Stacked`); so whoever came to need a module whose start still runs is younger than that module (`Started`), and whoever came to
need one that is being unloaded is younger than the question (`Asked`). A start that fails with its own entry at the head is then needed by nobody
(`Fails`), and an unloading without a mishap removes one that nobody needs (`Undone`). Steps are composed of a few facts about values: an entry put first
(`LoadRight`), a need noted (`DependRight`), one that nobody needs taken out (`GoneRight`), a script phase begun (`ScriptRight`), an act begun or ended
(`PushRight`, `PopRight`).

### What is only model-checked

* Liveness under fairness, and what needs ENABLED (`RingRests`, `SettlesNets`, `Drains`, `RegainsNick`, `RejoinsNets`, `AllAnswered`,
  `LoginsEnd`, `AllDelivered`): out of the prover's reach.
* What a recursive definition computes for every input, and modules with RECURSIVE operators: `Dns`, `Notes`, `Match`.
* Agreement in the end where lines overtake each other or are lost with a link: `PartyKnown`, `AwayTold`, `InSync`, `EndsAgree`,
  `RejectedAreOff`, the mask lists of two bots. An invariant would have to account for every line under way, as `LInv` does, in models where
  a line's effect depends on more than one record.
* `IrcChannel`, `Users`, `Flags`, `Masks`, `Files`, `Channels`, `Transfers`, `Binds`.
  The first seven and `Transfers` compute with folds over sets and sequences whose operator is a LAMBDA: the provers do not expand
  these, and what they do for every input would need induction over data.
* Nets with remote unlinks; `Login`'s other nets (covered by the theorem as well as by the run).

## What the code does otherwise than it says

Five runs end in a violation. Each quotes the comment or document in `PROJECT.json`.

* `botnet_orphan`: a remote unlink that arrives after its target has come back over another route. `botunlink`
  (botnet.c:936-959) takes a bot that is listed and not among its own connections for a ghost and strikes it off alone. The bots behind
  it stay listed with a parent that is gone, `unvia` does not reach them when their link is lost: the branch written against ghosts makes one.
* `share_late_end`: the hub dumps the changes of the transfer when the last block is acknowledged. A leaf that reads its link before it
  notices the end of the file applies them to the old list, and `finish_share` then replaces that list.
* `server_stoned`: a server that falls silent between its first line and 001 is waited for for ever.
* `irc_ghost`: a member who leaves while the WHO that followed a deop is unanswered stays on the list.
* `users_nick`: somebody who is on two channels changes his nick, and the two give him to different users.

What else was met while the models were written, and that they keep as it is in the code or stay clear of, by component:

* **Masks of names.** At the end of a mask with name left `case 0` (match.c:87-94, and `wild_match_file`) goes back to the
  last character that is no `?` and compares again: `ab` matches `abb`, a bind mask `foo` matches `fooo`
  (doc/tcl-commands.doc:3532). `*a?` does not match `aaa`; `~?` never matches. In `cron_match`
  `0 0 13 5 *` runs on every day of May (doc/tcl-commands.doc:3314-3320), a step carries over to later values of a list, and
  hours and days wrap at 60 as minutes do.
* **Sockets.** The rest of a line longer than 510 that stands in the buffer is lost; CR LF split over two reads gives an empty line; the last
  line without an end is dropped at EOF.
* **Binds.** A command newly bound in a mask the walk has not reached is run by the same event; tables of masks that do not stack run nothing
  (tclhash.c:925); a sole hit moves its mask to the front also where the comment (917-919, 939-946) says otherwise.
* **Timers.** The order is reversed in each run; `restart` from a timer's script leaves timers still to be gone through
  (doc/tcl-commands.doc:2072, 2084); missed seconds are not made up for, missed minutes are, all with the same minute (main.c:671).
* **Modules.** A failing start that loaded another module takes that one off the list and leaves its own freed entry (modules.c:822); the hook
  after the one that runs may be freed by it (modules.h:55).
* **Transfers.** `send_next_file` overwrites the full path, so queued files of the area are dropped and the queue stalls; RESUME at or behind the
  end takes the original away; at a full table the receiver's queue is flushed; the last block after a resume may never be counted.
* **Logins.** A line at the NEW prompt restarts the timeout before the name in it is refused (dcc.c:1958), and so does a bot's
  repeated `*hello!` (dcc.c:168): who keeps on is never sent away. An ident connection that fails at once hands the answer to entry 0; the first owner who leaves before choosing a password leaves a bot
  without owner; a record that goes meanwhile leaves the session without one.
* **Sessions.** `.page n` with lines waiting loses count of them; after the file area, paging reads the other kind's data;
  a script that switches paging off leaves the lines where they are.
* **Flags.** Masters given both m and d are not settled by one sanity check; `.console` of another session without a channel is checked against
  the issuer; `botattr` of Tcl leaves STAT_LEAF stale; the second bar in a flag text is undefined.
* **Notes.** `add_note` never says a box is full, so the remote sender is told "stored"; a forwarded note may be lost though
  "forwarded" was said; a handle's change merges two boxes, and a handle made anew inherits one.
* **Channels.** `channel get` inverts userbans, userexempts and userinvites (tclchan.c:990, doc/tcl-commands.doc:889-894); a channel file with a setting
  whose type was changed is read up to there (tclchan.c:1195, comment 2103).
* **DNS.** Addresses that differ as IPv6 are compared as IPv4 next (dns.c:123-130, 401-408), where an IPv6 address has its flow label,
  0: the answer about one IPv6 address goes to all who wait for any. The slot of an entry is reused while a telnet waits for it (dns.c:213-225, comment 114-115); a reply for AAAA is thrown away when the one for A
  never comes.
* **Records.** `share_chhand` does not test the new handle; `share_pls_host` leaves cached members as they were; a renamed record's sessions in
  the file area keep the old name.
* **Bans and their like.** `.-ban 0` removes the mask deleted last; a global ban named by an op of a channel is said to be removed;
  exempts and invites of `&` and `!` channels are ignored on reading (users.c:730-750); sticky masks may expire.
* **File area.** A failed `rmdir` has deleted the directory's database by then (help filesys.help:154-155); `mv` and `cp` delete the
  entry at the destination even when they fail; names are used as masks in `filedb_update`.
* **Party line.** `bot_away` of somebody who is back leaves the mark (botcmd.c:1380), and may index with -1 (1386); a relay that
  fails puts its user back without telling the net, or drops him without (botnet.c:1372).
* **Server.** After `.rehash`, `server_postrehash` (server.c:1757-1761) changes back to `nick` only if the old nick equals both `nick` and
  `altnick` (`rfc_casecmp` is 0 for equal names): never with two different ones, though the comment has it otherwise.
* **IRC.** A bot that is deopped while a WHO is answered returns before "Cancel any pending kicks and modes" (mode.c:629, 667-673), so
  a change that the server then drops stays marked as sent; a halfop's always does (`chan.uncancelled`). Members who return from a split while the list is awaited are dropped; `got_dehalfop` tests op instead of halfop.

## Not modelled

* The steps of a save of the user file (`secure.c`, `main.c:433`: the save of the signal handler in the midst of one): the next module of
  the plan, with a crash between any two.
* Passwords as such, certificates and TLS; the version handshake; choice of share features.
* Seen, assoc, ctcp, uptime, woobie: text and counters. Tcl wrappers that only call what is modelled. Logging, language files,
  memory accounting. Encryption, hashing, encodings of lines: bytes.
* `increase_socks_max`, which moves the table of connections while handlers hold pointers into it.

## Plan

1. `Flags` and `Transfers` with recursive functions in place of folds, and their invariants as theorems.
2. `NothingMissing` with kicks merged, for queues that hold kicks only, which is what the run checks.
3. `UserFile`: the save, its signal handler, a crash.
4. `PartyKnown` for a tree of bots, with the account of the lines under way that `LInv` gives for the lists.
