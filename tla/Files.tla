------------------------------- MODULE Files -------------------------------
(***************************************************************************)
(* The file area: the database that each directory has of its files, as it  *)
(* lies on the disk (filedb3.c), and the commands of users and scripts that *)
(* change it (files.c, tclfiles.c).  A database is a header and then one    *)
(* entry behind the other; one that is no longer used stays as space.  The  *)
(* program finds an entry only by walking over those before it.             *)
(***************************************************************************)
EXTENDS Naturals, Sequences, FiniteSets, SequencesExt, FiniteSetsExt

CONSTANTS
  Dirs, Root, \* the directories; the others are in Root
  Names,      \* of files
  Descs,      \* descriptions, as their lengths: 0 for none
  Users,      \* those who give commands; Janitors may change what others own
  Janitors,
  Hdr,        \* sizeof(filedb_header)
  Est,        \* FILEDB_ESTDYN
  Ages,       \* how long ago a database may have been closed, of "now", "5 minutes", "6 hours"
  Stats,      \* how files are marked, of "hide", "unhide", "share", "unshare"
  MaxOps      \* bound: commands and changes from outside

VARIABLES
  exists,     \* the directories there are
  real,       \* real[d]: the files in it
  db,         \* db[d]: its database
  stale,      \* stale[d]: whether the directory changed visibly since the database was last closed
  meant,      \* history: what the last step was about
  ops         \* history: how many there were

vars == <<exists, real, db, stale, meant, ops>>
World == [exists |-> exists, real |-> real, db |-> db, stale |-> stale]
Becomes(w) == exists' = w.exists /\ real' = w.real /\ db' = w.db /\ stale' = w.stale

All     == "*"
Me      == "botnetnick"
Top     == 1
NoDb    == [at |-> <<>>, eof |-> 0]
NewDb   == [at |-> <<>>, eof |-> Top]
Entry   == [name : Names \cup Dirs, owner : Users \cup {Me, ""}, desc : Descs, link : BOOLEAN,
            hid : BOOLEAN, shr : BOOLEAN, dir : BOOLEAN]
New(name, owner, link, dir) ==
  [name |-> name, owner |-> owner, desc |-> 0, link |-> link, hid |-> FALSE, shr |-> FALSE, dir |-> dir]
Matches(mask, name) == mask \in {All, name}
\* filedb_tot_dynspace
DynSpace(e) == 1 + e.desc + (IF e.link THEN 1 ELSE 0)
Subdirs(w, d) == IF d = Root THEN w.exists \ {Root} ELSE {}

-----------------------------------------------------------------------------
(* The disk.  at[p] is a header that was once written at p and not yet       *)
(* overwritten; an entry's data are kept with its header.                    *)

End(f, p) == p + Hdr + f.at[p].dyn + f.at[p].buf
\* Reading one entry after the other: filedb_getfile
Walk(f) ==
  LET from[p \in Top..Max({Top, f.eof})] ==
        IF p + Hdr > f.eof \/ p \notin DOMAIN f.at THEN <<>>
        ELSE IF End(f, p) >= f.eof THEN <<p>> ELSE <<p>> \o from[End(f, p)]
  IN  from[Top]
FirstOrNone(hits) == IF hits = <<>> THEN 0 ELSE hits[1]
\* The first entry at or after a position that a mask matches, or 0: filedb_matchfile
MatchFile(f, where, mask) ==
  FirstOrNone(SelectSeq(Walk(f), LAMBDA p : p >= where /\ f.at[p].used /\ Matches(mask, f.at[p].e.name)))

\* What is written at p destroys the headers that were in its place.
Put(f, p, h, data) ==
  LET end == p + Hdr + (IF data THEN h.dyn ELSE 0)
  IN  [at  |-> [q \in {p} \cup {q \in DOMAIN f.at : q + Hdr <= p \/ q >= end} |-> IF q = p THEN h ELSE f.at[q]],
       eof |-> Max({f.eof, end})]
Header(used, dyn, buf, e) == [used |-> used, dyn |-> dyn, buf |-> buf, e |-> e]
Space(buf) == Header(FALSE, 0, buf, New("", "", FALSE, FALSE))
\* filedb_delfile
DelFile(f, p) == Put(f, p, Space(f.at[p].dyn + f.at[p].buf), FALSE)

\* Mutant: the header of what remains is forgotten.
TakenNoHeader(f, p, tot) ==
  IF p = 0 THEN [f |-> f, pos |-> f.eof, buf |-> 0]
  ELSE IF f.at[p].buf > tot + Hdr + Est
  THEN [f |-> Put(f, p + Hdr + tot, Space(f.at[p].buf - tot), FALSE), pos |-> p, buf |-> tot]
  ELSE [f |-> f, pos |-> p, buf |-> f.at[p].buf]
\* The space at p, cut in two if much of it would be left; the end, if there is none.
Taken(f, p, tot) ==
  IF p = 0 THEN [f |-> f, pos |-> f.eof, buf |-> 0]
  ELSE IF f.at[p].buf > tot + Hdr + Est
  THEN [f |-> Put(f, p + Hdr + tot, Space(f.at[p].buf - tot - Hdr), FALSE), pos |-> p, buf |-> tot]
  ELSE [f |-> f, pos |-> p, buf |-> f.at[p].buf]
\* filedb_findempty: the first space that is large enough.
FindEmpty(f, tot) ==
  Taken(f, FirstOrNone(SelectSeq(Walk(f), LAMBDA p : ~f.at[p].used /\ f.at[p].buf >= tot)), tot)

PutIn(place, e) ==
  Put(place.f, place.pos, Header(TRUE, DynSpace(e), IF place.buf > 0 THEN place.buf - DynSpace(e) ELSE 0, e), TRUE)
\* filedb_addfile; and the part of filedb_updatefile that looks for a new place
AddFile(f, e) == PutIn(FindEmpty(f, DynSpace(e)), e)

\* Mutant: the old entry is not deleted when the new one needs more room.
UpdateFileTwice(f, p, e) ==
  LET room == f.at[p].dyn + f.at[p].buf
  IN  IF DynSpace(e) <= room THEN Put(f, p, Header(TRUE, DynSpace(e), room - DynSpace(e), e), TRUE)
      ELSE AddFile(f, e)
\* filedb_updatefile, with UPDATE_ALL: in its place, if it has room there.
UpdateFile(f, p, e) ==
  LET room == f.at[p].dyn + f.at[p].buf
  IN  IF DynSpace(e) <= room THEN Put(f, p, Header(TRUE, DynSpace(e), room - DynSpace(e), e), TRUE)
      ELSE AddFile(DelFile(f, p), e)
\* With UPDATE_HEADER
UpdateHeader(f, p, e) == Put(f, p, [f.at[p] EXCEPT !.e = e], FALSE)

CutAt(f, end) == [at |-> [q \in {q \in DOMAIN f.at : q < end} |-> f.at[q]], eof |-> end]
\* filedb_cleanup: what is used moves towards the top.
Cleanup(f) ==
  LET move(s, p) ==
        LET h == s.f.at[p]
        IN  IF ~h.used THEN s
            ELSE [f   |-> IF p = s.to THEN s.f ELSE Put(s.f, s.to, h, TRUE),
                  to  |-> s.to + Hdr + h.dyn + h.buf]
      done == FoldLeft(move, [f |-> f, to |-> Top], Walk(f))
  IN  CutAt(done.f, done.to)
\* filedb_mergeempty: neighbouring spaces become one, the last ones go.
MergeEmpty(f) ==
  LET join(s, p) ==
        IF s.f.at[p].used THEN [s EXCEPT !.last = 0]
        ELSE IF s.last = 0 THEN [s EXCEPT !.last = p]
        ELSE [s EXCEPT !.f = Put(@, s.last, Space(@.at[s.last].buf + Hdr + @.at[p].buf), FALSE)]
      done == FoldLeft(join, [f |-> f, last |-> 0], Walk(f))
  IN  IF done.last = 0 THEN done.f ELSE CutAt(done.f, done.last)

-----------------------------------------------------------------------------
(* Opening and closing *)

AddMissing(f, there) ==
  FoldSet(LAMBDA n, g : IF MatchFile(g, Top, n) # 0 THEN g ELSE AddFile(g, New(n, Me, FALSE, n \in Dirs)), f, there)
DelGone(f, there) ==
  FoldLeft(LAMBDA g, p : IF g.at[p].used /\ ~g.at[p].e.link /\ g.at[p].e.name \notin there
                         THEN DelFile(g, p) ELSE g, f, Walk(f))
Sorted(f, sort) == IF sort THEN Cleanup(f) ELSE f
\* filedb_update: every real file is in the database, and every entry is real, links apart.
Update(f, there, sort) == Sorted(DelGone(AddMissing(f, there), there), sort)
\* filedb_open; when it is closed it is stamped with the time.
Open(w, d, sort, age) ==
  IF d \notin w.exists THEN w
  ELSE [w EXCEPT !.stale[d] = FALSE,
                 !.db[d] = IF @ = NoDb \/ sort \/ age = "6 hours" \/ w.stale[d]
                           THEN Update(IF @ = NoDb THEN NewDb ELSE @, w.real[d] \cup Subdirs(w, d), sort)
                           ELSE IF age = "5 minutes" THEN MergeEmpty(@) ELSE @]

\* What is done with each entry that a mask matches; the next is looked for behind the place where
\* this one was, which may find the same again.
Entries(f) == Cardinality({p \in DOMAIN f.at : f.at[p].used})
Each(w, d, mask, Do(_, _)) ==
  LET after(s, done) == [w |-> done.w, where |-> s.next, stop |-> done.stop]
      at(s, p)   == IF p = 0 \/ s.stop THEN s ELSE after([next |-> End(s.w.db[d], p)], Do(s.w, p))
      step(s, i) == at(s, MatchFile(s.w.db[d], s.where, mask))
  IN  FoldLeft(step, [w |-> w, where |-> Top, stop |-> FALSE], [i \in 1..(2 * Entries(w.db[d]) + 1) |-> i]).w
Goes(w)  == [w |-> w, stop |-> FALSE]
Named(w, d, mask) == {<<d, w.db[d].at[p].e.name>> : p \in {q \in DOMAIN w.db[d].at :
                                                          w.db[d].at[q].used /\ Matches(mask, w.db[d].at[q].e.name)}}
Command(about) == ops' = ops + 1 /\ meant' = about

-----------------------------------------------------------------------------
(* Commands, in the directory somebody is in *)

Mark(d, mask, Now(_), age) ==
  \E w \in {Open(World, d, FALSE, age)} :
    /\ Command(Named(w, d, mask)) /\ d \in exists
    /\ Becomes(Each(w, d, mask, LAMBDA v, p : Goes([v EXCEPT !.db[d] = UpdateHeader(@, p, Now(@.at[p].e))])))
Hide(d, mask, age)    == Mark(d, mask, LAMBDA e : [e EXCEPT !.hid = TRUE], age)
Unhide(d, mask, age)  == Mark(d, mask, LAMBDA e : [e EXCEPT !.hid = FALSE], age)
Share(d, mask, age)   == Mark(d, mask, LAMBDA e : [e EXCEPT !.shr = @ \/ ~(e.hid \/ e.dir)], age)
Unshare(d, mask, age) == Mark(d, mask, LAMBDA e : [e EXCEPT !.shr = @ /\ (e.hid \/ e.dir)], age)

\* What scripts do is for the first that matches, hidden or not.
First(d, mask, age, Do(_, _)) ==
  \E w \in {Open(World, d, FALSE, age)} : \E p \in {MatchFile(w.db[d], Top, mask)} :
    /\ Command(Named(w, d, mask)) /\ d \in exists
    /\ Becomes(IF p = 0 THEN w ELSE [w EXCEPT !.db[d] = Do(@, p)])
\* filedb_change
Change(d, mask, what, age) ==
  First(d, mask, age, LAMBDA f, p :
    UpdateHeader(f, p, LET e == f.at[p].e
                       IN  CASE what = "hide"   -> [e EXCEPT !.hid = TRUE]
                             [] what = "unhide" -> [e EXCEPT !.hid = FALSE]
                             [] OTHER           -> [e EXCEPT !.shr = IF e.dir THEN @ ELSE what = "share"]))
\* filedb_setdesc, filedb_setowner
SetDesc(d, mask, desc, age)  == First(d, mask, age, LAMBDA f, p : UpdateFile(f, p, [f.at[p].e EXCEPT !.desc = desc]))
SetOwner(d, mask, user, age) == First(d, mask, age, LAMBDA f, p : UpdateFile(f, p, [f.at[p].e EXCEPT !.owner = user]))
\* incr_file_gots; the count itself is left out
IncrGots(d, name, age) == First(d, name, age, LAMBDA f, p : UpdateHeader(f, p, f.at[p].e))
\* cmd_reget_get, files_reget: a link that is asked for is written anew.
Get(d, mask, first, age) ==
  LET again(v, p) == IF v.db[d].at[p].e.link /\ ~v.db[d].at[p].e.hid
                     THEN [v EXCEPT !.db[d] = UpdateFile(@, p, @.at[p].e)] ELSE v
  IN  /\ Command({}) /\ d \in exists
      /\ Becomes(Each(Open(World, d, FALSE, age), d, mask, LAMBDA v, p : [w |-> again(v, p), stop |-> first]))

\* cmd_desc: of what one owns, if it changes.  A directory that mkdir made has no owner to ask for.
Desc(d, mask, desc, user, age) ==
  LET may(e) == ~e.hid /\ (user \in Janitors \/ e.owner = user) /\ ~(desc # 0 /\ e.desc = desc)
  IN  \E w \in {Open(World, d, FALSE, age)} :
        /\ Command(Named(w, d, mask)) /\ d \in exists
        /\ Becomes(Each(w, d, mask, LAMBDA v, p :
                 Goes(IF may(v.db[d].at[p].e)
                      THEN [v EXCEPT !.db[d] = UpdateFile(@, p, [@.at[p].e EXCEPT !.desc = desc])] ELSE v)))

\* cmd_rm: a link is not a file.
Rm(d, mask, age) ==
  LET gone(v, p) == LET e == v.db[d].at[p].e
                    IN  IF e.hid \/ e.dir THEN v
                        ELSE [v EXCEPT !.db[d] = DelFile(@, p),
                                       !.real[d] = IF e.link THEN @ ELSE @ \ {e.name}]
  IN  \E w \in {Open(World, d, FALSE, age)} :
        Command(Named(w, d, mask)) /\ d \in exists /\ Becomes(Each(w, d, mask, LAMBDA v, p : Goes(gone(v, p))))

\* cmd_ln, filedb_setlink
Ln(d, name, user, age) ==
  \E w \in {Open(World, d, FALSE, age)} :
    /\ Command({<<d, name>>}) /\ d \in exists
    /\ Becomes(IF MatchFile(w.db[d], Top, name) # 0 THEN w
                 ELSE [w EXCEPT !.db[d] = AddFile(@, New(name, user, TRUE, FALSE))])
\* filedb_setlink, without a link
DelLink(d, name, age) ==
  \E w \in {Open(World, d, FALSE, age)} : \E p \in {MatchFile(w.db[d], Top, name)} :
    /\ Command({<<d, name>>}) /\ d \in exists
    /\ Becomes(IF p # 0 /\ w.db[d].at[p].e.link THEN [w EXCEPT !.db[d] = DelFile(@, p)] ELSE w)

\* cmd_mkdir; again for one that is there, to change who may enter it.
MakeDir(s, age) ==
  \E w \in {Open(World, Root, FALSE, age)} : \E p \in {MatchFile(w.db[Root], Top, s)} :
    /\ Command({<<Root, s>>})
    /\ Becomes(IF p # 0 THEN [w EXCEPT !.db[Root] = UpdateFile(@, p, @.at[p].e)]
               ELSE IF s \in w.exists THEN w
               ELSE [w EXCEPT !.exists = @ \cup {s}, !.real[s] = {}, !.db[s] = NoDb,
                              !.db[Root] = AddFile(@, New(s, "", FALSE, TRUE))])
\* cmd_rmdir: the database of the directory goes first, and is gone when it is not empty.
RemoveDir(s, age) ==
  \E w \in {Open(World, Root, FALSE, age)} : \E p \in {MatchFile(w.db[Root], Top, s)} :
    /\ Command({<<Root, s>>} \cup {<<s, n>> : n \in Names})
    /\ Becomes(IF p = 0 THEN w
               ELSE IF s \notin w.exists \/ w.real[s] # {} THEN [w EXCEPT !.db[s] = NoDb]
               ELSE [w EXCEPT !.db[s] = NoDb, !.exists = @ \ {s}, !.db[Root] = DelFile(@, p)])

CmdMkdir(s, age) == MakeDir(s, age)
TclMkdir(s, age) == MakeDir(s, age)
CmdRmdir(s, age) == RemoveDir(s, age)
TclRmdir(s, age) == RemoveDir(s, age)

\* One step of cmd_mv_cp, for the entry e at p, where the entry at q has the new name already: that
\* one is deleted first, even where nothing is then moved.
Replaced(w, to, q) == IF q # 0 /\ ~w.db[to].at[q].e.dir THEN [w EXCEPT !.db[to] = DelFile(@, q)] ELSE w
Moved(w, p, e, from, to, name, copy) ==
  [w EXCEPT !.db[to] = AddFile(@, [e EXCEPT !.name = name]), !.db[from] = IF copy THEN @ ELSE DelFile(@, p),
            !.real[from] = IF copy \/ e.link THEN @ ELSE @ \ {e.name},
            !.real[to] = IF e.link THEN @ ELSE @ \cup {name}]
MoveTo(w, p, e, q, from, to, name, copy, works) ==
  IF e.hid \/ e.dir THEN [w |-> w, ok |-> FALSE]
  ELSE IF \/ q # 0 /\ w.db[to].at[q].e.dir
          \/ from = to /\ name = e.name
          \/ ~(e.link \/ (works /\ e.name \in w.real[from]))
  THEN [w |-> Replaced(w, to, q), ok |-> FALSE]
  ELSE [w |-> Moved(Replaced(w, to, q), p, e, from, to, name, copy), ok |-> TRUE]
MoveOne(w, p, from, to, newfn, copy, works) ==
  LET e    == w.db[from].at[p].e
      name == IF newfn = "" THEN e.name ELSE newfn
  IN  MoveTo(w, p, e, MatchFile(w.db[to], Top, name), from, to, name, copy, works)
\* cmd_mv, cmd_cp; tcl_mv, tcl_cp, which take the first of several for one name
Moves(from, mask, to, newfn, copy, works, tcl, age) ==
  LET one == mask = All /\ newfn # ""
      done(m) == [w |-> m.w, stop |-> one /\ m.ok]
      onto(moved) == IF newfn # "" THEN {<<to, newfn>>} ELSE {<<to, x[2]>> : x \in moved}
      several(f, first) == MatchFile(f, End(f, first), mask) # 0
  IN  /\ {from, to} \subseteq exists /\ ~(from = to /\ newfn \in {"", mask})
      /\ \E w \in {Open(Open(World, from, FALSE, age), to, FALSE, age)} :
         \E first \in {MatchFile(w.db[from], Top, mask)}, moved \in {Named(w, from, mask)} :
           /\ Command(moved \cup onto(moved))
           /\ Becomes(IF first = 0 \/ (~tcl /\ one /\ several(w.db[from], first)) THEN w
                      ELSE Each(w, from, mask, LAMBDA v, p : done(MoveOne(v, p, from, to, newfn, copy, works))))

CmdMvCp(from, mask, to, newfn, copy, works, age) == Moves(from, mask, to, newfn, copy, works, FALSE, age)
TclMvCp(from, mask, to, newfn, copy, works, age) == Moves(from, mask, to, newfn, copy, works, TRUE, age)

\* cmd_optimize
Optimize(d, age) == Command({}) /\ d \in exists /\ Becomes(Open(World, d, TRUE, age))
\* What only looks opens the database too: ls, another bot's request, the way to another directory.
Look(d, age)    == Command({}) /\ d \in exists /\ Becomes(Open(World, d, FALSE, age))
Ls(d, age)      == Look(d, age)
FileReq(d, age) == Look(d, age)
\* resolve_dir
Chdir(s, age) ==
  \E w \in {Open(World, Root, FALSE, age)} : \E p \in {MatchFile(w.db[Root], Top, s)} :
    Command({}) /\ Becomes(IF p = 0 \/ ~w.db[Root].at[p].e.dir THEN w ELSE Open(w, s, FALSE, age))

\* An upload has arrived: the file is there, then add_file.
Upload(d, name, user) ==
  \E f \in {Open([World EXCEPT !.real[d] = @ \cup {name}, !.stale[d] = TRUE], d, db[d] = NoDb, "now")} :
  \E p \in {MatchFile(f.db[d], Top, name)} :
    /\ Command({<<d, name>>}) /\ d \in exists /\ name \notin real[d]
    /\ Becomes([f EXCEPT !.db[d] = UpdateFile(@, p, [@.at[p].e EXCEPT !.owner = user])])

\* Somebody puts a file there or takes one away; within the second in which the database was closed
\* this does not show.
Outside(d, name, seen) ==
  /\ Command({<<d, name>>}) /\ d \in exists
  /\ Becomes([World EXCEPT !.real[d] = IF name \in @ THEN @ \ {name} ELSE @ \cup {name},
                           !.stale[d] = @ \/ seen])

-----------------------------------------------------------------------------
Init ==
  /\ exists = {Root} /\ real \in [Dirs -> SUBSET Names] /\ (\A d \in Dirs \ {Root} : real[d] = {}) /\ db = [d \in Dirs |-> NoDb]
  /\ stale = [d \in Dirs |-> FALSE] /\ meant = {} /\ ops = 0

Masks == Names \cup {All}
Next ==
  ops < MaxOps /\ \E age \in Ages, d \in Dirs :
    \/ \E mask \in Masks :
         \/ Hide(d, mask, age) \/ Unhide(d, mask, age) \/ Share(d, mask, age) \/ Unshare(d, mask, age)
         \/ \E what \in Stats : Change(d, mask, what, age)
         \/ \E desc \in Descs, user \in Users : Desc(d, mask, desc, user, age)
         \/ \E desc \in Descs : SetDesc(d, mask, desc, age)
         \/ \E user \in Users : SetOwner(d, mask, user, age)
         \/ \E first \in BOOLEAN : Get(d, mask, first, age)
         \/ Rm(d, mask, age)
         \/ \E to \in Dirs, newfn \in Names \cup {""}, copy, works \in BOOLEAN :
              CmdMvCp(d, mask, to, newfn, copy, works, age) \/ TclMvCp(d, mask, to, newfn, copy, works, age)
    \/ \E name \in Names : \/ \E user \in Users \cup {Me} : Ln(d, name, user, age)
                           \/ DelLink(d, name, age) \/ IncrGots(d, name, age)
                           \/ \E user \in Users : Upload(d, name, user)
                           \/ \E seen \in BOOLEAN : Outside(d, name, seen)
    \/ d # Root /\ (CmdMkdir(d, age) \/ TclMkdir(d, age) \/ CmdRmdir(d, age) \/ TclRmdir(d, age) \/ Chdir(d, age))
    \/ Optimize(d, age) \/ Ls(d, age) \/ FileReq(d, age)
Spec == Init /\ [][Next]_vars

-----------------------------------------------------------------------------
(* Properties *)

Listing(f) == {f.at[p].e : p \in {q \in ToSet(Walk(f)) : f.at[q].used}}
TypeOK ==
  /\ exists \subseteq Dirs /\ Root \in exists /\ \A d \in Dirs : real[d] \subseteq Names
  /\ \A d \in Dirs : Listing(db[d]) \subseteq Entry

\* Reading one entry after the other leads from the top exactly to the end.
Tiled ==
  \A d \in Dirs : db[d] # NoDb =>
    LET walk == Walk(db[d])
    IN  IF walk = <<>> THEN db[d].eof = Top ELSE End(db[d], Last(walk)) = db[d].eof
\* A name has one entry.
NamesOnce ==
  \A d \in Dirs : \A p, q \in ToSet(Walk(db[d])) :
    db[d].at[p].used /\ db[d].at[q].used /\ db[d].at[p].e.name = db[d].at[q].e.name => p = q

\* A step changes no entry but those it is about, those of files that have gone, and those of
\* files that are new: whatever is moved, cut in two or merged meanwhile.  (A database that stays
\* as it is has the same entries.)
EntriesStay ==
  \A d \in {x \in Dirs : db'[x] # db[x]} :
    LET before == Listing(db[d])
        after  == Listing(db'[d])
        about  == {x[2] : x \in {y \in meant' : y[1] = d}}
        there  == real'[d] \cup Subdirs([exists |-> exists'], d)
    IN  /\ \A e \in before : e.name \notin about /\ (e.link \/ e.name \in there) => e \in after
        /\ \A e \in after \ before : e.name \in about \/ (e.name \in there /\ e.owner = Me)
=============================================================================
