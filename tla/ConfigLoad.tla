----------------------------- MODULE ConfigLoad -----------------------------
(***************************************************************************)
(* Loading the configuration files: FromFiles and FromReader of            *)
(* config/config.go, and the Map of config/map.go that their lines fill.   *)
(*                                                                         *)
(* One thread (the main thread) reads the files line by line.  A mask line *)
(* changes the masks in force; an entry line is masked, expanded to the    *)
(* entries it stands for, and put into the map.  An ELF line needs its     *)
(* dependencies: they are resolved and included at once, or, with          *)
(* -elf.concurrent, by a goroutine, with a copy of the masks of the line,  *)
(* and included when all lines of the file are read.  At most Slots        *)
(* goroutines run at a time (the channel q).  When a file is read its map  *)
(* is merged into the map of all files.                                    *)
(*                                                                         *)
(* The file system, the ELF resolver and the symlink expansion are         *)
(* functions given by CONSTANTS; a path's text never matters.  A           *)
(* destination is a sequence of names.                                     *)
(***************************************************************************)
EXTENDS MaskList, EntryMap, FiniteSets

CONSTANTS
    MaxLines, MaxFiles,           \* bounds: lines of a file, files
    NumGoroutine,                 \* -elf.numgoroutine
    Concurrent, Once, Fallback,   \* -elf.concurrent, -elf.once, -elf.fallback
    ElfExpand, FileExpand, GlobExpand, \* -elf.expand, -file.expand, -glob.expand
    \* The lines a file may hold, by the operation they call for.
    MaskLines,      \* [mask, last, idx]: mm, mr, mi, mI, mt, ml
    ClearLines,     \* [all, idx]: mc
    EntryLines,     \* [type, src, dst, own, dstSet, fail, alts]: not ELF
    ElfLines,       \* the same, of the types L, LA, rL, i and p
    \* Values of a line or a file attribute that is not given.
    NoOwn, NoLib, NoFile, DefaultOwn,
    \* The system: functions on sources (names on a line) and paths (files).
    InPrefix,       \* source -> path: path.Join(prefix, source)
    TrimSrc,        \* path -> source: the prefix is cut off
    CleanDst,       \* source or path -> destination
    Expansion,      \* path -> [ok, none, path, links]: (m *Map) expand; none
                    \* says that it failed because a file does not exist
    Follow,         \* source -> the same from /: elf.Expand without a prefix
    Stat,           \* path -> [kind, own, link]: Lstat and Readlink
    Walk,           \* path -> sequence of [file, rel]: filepath.Walk
    Matches,        \* source or path -> [ok, files]: (m *Map) match
    FindLib,        \* library name -> source or NoFile: Resolver.Find
    PathFiles,      \* program name -> its candidates along Opt.Path
    Result          \* <<path, lib>> -> [err, libs]: Resolver.Resolve

VARIABLES
    pc,        \* what the main thread does next
    file,      \* files opened so far
    line,      \* lines read of the current file
    map,       \* A and m of the current file's Map
    cfg,       \* A and m of the Map all files are merged into
    heap, mm,  \* the arrays of masks, and the slice in force
    saved,     \* mm while includeElfs works with the masks of results
    pend,      \* entries the current operation has still to put
    todo,      \* ELF entries the current line has still to pass to addElf
    jobs,      \* the goroutines started for the current file
    elf,       \* m.elf: the jobs whose result is recorded, in order
    mu,        \* the job that holds m.mu, or 0
    wg, q,     \* the counter of m.wg, the tokens in the channel q
    leaving,   \* goroutines past wg.Done that still hold a token of q
    next,      \* results included, or entries merged, so far
    cur,       \* the ELF that includeElf works on
    libs,      \* the libraries of cur it has not added yet
    bad,       \* did includeElf fail for some result
    elfAdded   \* the sources addElf has seen (shared by all files)

load == <<pc, file, line>>
masks == <<heap, mm, saved>>
pool == <<jobs, elf, mu, wg, q, leaving>>
incl == <<next, cur, libs, bad>>
vars == <<load, map, cfg, masks, pend, todo, pool, incl, elfAdded>>
main == <<map, cfg, pend, todo, incl, elfAdded>>

(* Mutant of Slots: the channel may have no place. *)
SlotsUnbuffered == NumGoroutine

(* make(chan struct{}, NumGoroutine), with at least one place. *)
Slots == IF NumGoroutine < 1 THEN 1 ELSE NumGoroutine

NoElf == [e |-> <<>>, src |-> NoFile]

Init ==
    /\ pc = "open" /\ file = 0 /\ line = 0
    /\ map = EmptyMap /\ cfg = EmptyMap
    /\ heap = <<>> /\ mm = NilSlice /\ saved = NilSlice
    /\ pend = <<>> /\ todo = <<>>
    /\ jobs = <<>> /\ elf = <<>> /\ mu = 0 /\ wg = 0 /\ q = 0 /\ leaving = 0
    /\ next = 0 /\ cur = NoElf /\ libs = {} /\ bad = FALSE
    /\ elfAdded = {}

-----------------------------------------------------------------------------
(* Entries *)

MkEntry(type, src, dst, own) ==
    [type |-> type, src |-> src, dst |-> dst, own |-> own, time |-> 0, lib |-> NoLib]

OmitDst == <<"-">>

(* (e entry) Entry: the entry a line declares. *)
LineEntry(l) ==
    MkEntry(l.type, l.src, l.dst, IF l.own = NoOwn THEN DefaultOwn ELSE l.own)

(* The entries expand adds for the symlinks it passes. *)
Link(k) == MkEntry("l", k.to, k.dst, DefaultOwn)
Links(x) == [i \in DOMAIN x.links |-> Link(x.links[i])]

Unexpanded(path) == [ok |-> TRUE, none |-> FALSE, path |-> path, links |-> <<>>]

TrimDst(path) == CleanDst[TrimSrc[path]]

(* (m *Map) auto: the entry of a file as found, for the kinds it supports. *)
AutoOk(path) == Stat[path].kind \in {"f", "d", "l"}
AutoEntry(path, dst, own) ==
    MkEntry(Stat[path].kind,
            IF Stat[path].kind = "l" THEN Stat[path].link ELSE path,
            dst,
            IF own = NoOwn THEN Stat[path].own ELSE own)

(* What an operation puts: by Add, which applies the masks, or as it is. *)
Added(es) == [i \in DOMAIN es |-> [e |-> es[i], masked |-> FALSE]]
AsIs(e) == <<[e |-> e, masked |-> TRUE]>>

(* The masks in force, as a value. *)
InForce == Eff(heap, mm)

Busy == pend # <<>>

(***************************************************************************)
(* The end of add and Add: the next entry is masked, unless add did so     *)
(* already, and put unless a mask drops it.                                *)
(***************************************************************************)
Put ==
    /\ pc # "failed" /\ Busy
    /\ LET p == Head(pend)
           r == IF p.masked THEN [e |-> p.e, drop |-> FALSE]
                ELSE ApplyMasks(InForce, p.e)
       IN map' = IF r.drop THEN map ELSE PutEntry(map, r.e)
    /\ pend' = Tail(pend)
    /\ UNCHANGED <<load, cfg, masks, todo, pool, incl, elfAdded>>

-----------------------------------------------------------------------------
(* Reading lines.  Each action is one line: the scan in FromReader and the
   call of add, which returns with an error, drops the entry, or leaves the
   entries to put in pend or the ELF entries in todo. *)

NextLine == pc = "read" /\ ~Busy /\ line < MaxLines /\ line' = line + 1

MaskLine(r) ==
    /\ NextLine
    /\ pc' = (IF r.ok THEN pc ELSE "failed")
    /\ heap' = r.heap /\ mm' = r.mm
    /\ UNCHANGED <<file, saved, main, pool>>

ReadMask == \E l \in MaskLines : MaskLine(MaskSet(heap, mm, l))
ReadClear == \E l \in ClearLines : MaskLine(MaskDel(heap, mm, l))

(* How add goes on after the masks. *)
Fails == [ok |-> FALSE, pend |-> <<>>, todo |-> <<>>]
Puts(es) == [ok |-> TRUE, pend |-> es, todo |-> <<>>]
PassesOn(es) == [ok |-> TRUE, pend |-> <<>>, todo |-> es]

(* Mutant of LookupAsIs: files are looked up below the prefix. *)
LookupNotFiles == {"LA", "r", "R"}

(***************************************************************************)
(* lookup: the first of several sources that exists, with its symlinks     *)
(* followed and not added.  All but the sources of four types are looked   *)
(* up below the prefix; a, the auto type of sources outside it, is not     *)
(* among the four.                                                         *)
(***************************************************************************)
LookupAsIs == {"LA", "r", "R", "f"}
Lookup(type, srcs) ==
    LET x(i) == IF type \in LookupAsIs THEN Follow[srcs[i]] ELSE Expansion[InPrefix[srcs[i]]]
        found == {i \in DOMAIN srcs : x(i).ok}
        y == x(IF found = {} THEN Len(srcs) ELSE Min(found))
    IN [ok |-> y.ok, none |-> y.none,
        src |-> IF type \in LookupAsIs THEN y.path ELSE TrimSrc[y.path]]

(* The source of a line: the one of its alternatives, as in a(b|c), that
   exists, or of a line with ? its own if it exists. *)
Source(l) ==
    IF l.alts # <<>> THEN Lookup(l.type, l.alts)
    ELSE IF l.fail THEN Lookup(l.type, <<l.src>>)
    ELSE [ok |-> TRUE, none |-> FALSE, src |-> l.src]

(* The entry of the line with its source, after the masks. *)
Masked(l) ==
    LET src == Source(l).src
        e == [LineEntry(l) EXCEPT !.src = src]
    IN ApplyMasks(InForce, IF l.alts # <<>> /\ ~l.dstSet
                           THEN [e EXCEPT !.dst = CleanDst[src]] ELSE e)

(* f, d, l, c, cl, b64: the entry stands for itself. *)
Plain(l, e) == Puts(AsIs(e))

(* fr: the symlinks on the way are added; without a destination on the line
   the expanded path gives it, whatever the masks made of it before. *)
RegularRel(l, e) ==
    LET p == InPrefix[e.src]
        x == IF FileExpand THEN Expansion[p] ELSE Unexpanded(p)
        dst == IF FileExpand /\ ~l.dstSet THEN TrimDst(x.path) ELSE e.dst
    IN IF x.ok
       THEN Puts(Added(Links(x)) \o
                 AsIs([e EXCEPT !.type = "f", !.src = x.path, !.dst = dst]))
       ELSE Fails

(* a, ar: the type is the file's. *)
AutoFile(l, e) ==
    LET rel == l.type = "ar"
        p == IF rel THEN InPrefix[e.src] ELSE e.src
        x == IF rel /\ FileExpand THEN Expansion[p] ELSE Unexpanded(p)
        dst == IF rel /\ FileExpand /\ ~l.dstSet THEN TrimDst(x.path) ELSE e.dst
    IN IF x.ok /\ AutoOk(x.path)
       THEN Puts(Added(Append(Links(x), AutoEntry(x.path, dst, l.own))))
       ELSE Fails

(* R, Rr: everything below a directory, in the order of filepath.Walk. *)
Recursive(l, e) ==
    LET x == Expansion[IF l.type = "Rr" THEN InPrefix[e.src] ELSE e.src]
        kids == Walk[x.path]
        dst(k) == IF e.dst = OmitDst THEN k.rel ELSE e.dst \o k.rel
        kid(k) == AutoEntry(k.file, dst(k), l.own)
    IN IF x.ok /\ \A i \in DOMAIN kids : AutoOk(kids[i].file)
       THEN Puts(Added(Links(x) \o [i \in DOMAIN kids |-> kid(kids[i])]))
       ELSE Fails

(* r, rr: the files a regular expression matches.  Only rr expands them. *)
Glob(l, e) ==
    LET rel == l.type = "rr"
        g == Matches[IF rel THEN InPrefix[e.src] ELSE e.src]
        x(k) == IF rel /\ GlobExpand THEN Expansion[k.file] ELSE Unexpanded(k.file)
        dst(k) == IF e.dst = OmitDst THEN TrimDst(x(k).path) ELSE e.dst \o k.rel
        one(k) == Append(Links(x(k)), AutoEntry(x(k).path, dst(k), l.own))
    IN IF g.ok /\ \A i \in DOMAIN g.files :
                     x(g.files[i]).ok /\ AutoOk(x(g.files[i]).path)
       THEN Puts(Added(FlattenSeq([i \in DOMAIN g.files |-> one(g.files[i])])))
       ELSE Fails

(* L, LA *)
Elf(l, e) == PassesOn(<<e>>)

(* rL: one ELF entry for each match, its destination is the source. *)
ElfGlob(l, e) ==
    LET g == Matches[InPrefix[e.src]]
        src(i) == TrimSrc[g.files[i].file]
    IN IF g.ok
       THEN PassesOn([i \in DOMAIN g.files |->
              [e EXCEPT !.src = src(i), !.dst = CleanDst[src(i)]]])
       ELSE Fails

(* i: the library is looked up in the library paths. *)
ElfLib(l, e) ==
    LET src == FindLib[e.src] IN
    IF src = NoFile THEN Fails
    ELSE PassesOn(<<[e EXCEPT !.src = src, !.dst = CleanDst[src]]>>)

(* p: the first candidate along Opt.Path that exists; an absolute source
   (no candidates) is taken as it is. *)
ElfPath(l, e) ==
    LET c == PathFiles[e.src]
        found == {i \in DOMAIN c : Stat[InPrefix[c[i]]].kind # "none"}
        src == c[Min(found)]
        dst == IF e.dst = CleanDst[e.src] THEN CleanDst[src] ELSE e.dst
    IN IF c = <<>> THEN PassesOn(<<e>>)
       ELSE IF found = {} THEN Fails
       ELSE PassesOn(<<[e EXCEPT !.src = src, !.dst = dst]>>)

(* What becomes of a line; then is what one of the operators above makes of
   it. *)
Outcome(l, then) ==
    IF l.fail /\ Source(l).none THEN Puts(<<>>)
    ELSE IF ~Source(l).ok THEN Fails
    ELSE IF Masked(l).drop THEN Puts(<<>>)
    ELSE then

EntryLine(l, then) ==
    LET r == Outcome(l, then) IN
    /\ NextLine
    /\ pc' = (IF ~r.ok THEN "failed" ELSE IF r.todo # <<>> THEN "elf" ELSE pc)
    /\ pend' = r.pend
    /\ todo' = r.todo
    /\ UNCHANGED <<file, map, cfg, masks, pool, incl, elfAdded>>

OfType(lines, types) == {l \in lines : l.type \in types}

ReadPlain == \E l \in OfType(EntryLines, {"f", "d", "l", "c", "cl", "b64"}) :
    EntryLine(l, Plain(l, Masked(l).e))
ReadRegularRel == \E l \in OfType(EntryLines, {"fr"}) :
    EntryLine(l, RegularRel(l, Masked(l).e))
ReadAuto == \E l \in OfType(EntryLines, {"a", "ar"}) :
    EntryLine(l, AutoFile(l, Masked(l).e))
ReadRecursive == \E l \in OfType(EntryLines, {"R", "Rr"}) :
    EntryLine(l, Recursive(l, Masked(l).e))
ReadGlob == \E l \in OfType(EntryLines, {"r", "rr"}) :
    EntryLine(l, Glob(l, Masked(l).e))
ReadElf == \E l \in OfType(ElfLines, {"L", "LA"}) :
    EntryLine(l, Elf(l, Masked(l).e))
ReadElfGlob == \E l \in OfType(ElfLines, {"rL"}) :
    EntryLine(l, ElfGlob(l, Masked(l).e))
ReadElfLib == \E l \in OfType(ElfLines, {"i"}) :
    EntryLine(l, ElfLib(l, Masked(l).e))
ReadElfPath == \E l \in OfType(ElfLines, {"p"}) :
    EntryLine(l, ElfPath(l, Masked(l).e))

(* A read error of the scanner ends the load, whatever still runs. *)
ReadError ==
    /\ pc = "read" /\ ~Busy
    /\ pc' = "failed"
    /\ UNCHANGED <<file, line, masks, main, pool>>

(* Mutant of EndOfFile: the results are not waited for. *)
EndAtOnce ==
    /\ pc = "read" /\ ~Busy
    /\ pc' = "merge"
    /\ UNCHANGED <<file, line, masks, main, pool>>

(* The end of a file: with -elf.concurrent the results are waited for. *)
EndOfFile ==
    /\ pc = "read" /\ ~Busy
    /\ pc' = (IF Concurrent THEN "wait" ELSE "merge")
    /\ UNCHANGED <<file, line, masks, main, pool>>

-----------------------------------------------------------------------------
(* addElf and resolve *)

ElfSrc(e) == IF e.type = "LA" THEN e.src ELSE InPrefix[e.src]

(* The ELF lines of this call that are left. *)
More(es) == IF es = <<>> THEN "read" ELSE "elf"

(* make and copy of the masks; the goroutine gets this slice. *)
NewJob(e, src) ==
    LET s == Snapshot(heap, mm) IN
    /\ jobs' = Append(jobs, [e |-> e, src |-> src, mm |-> s.mm, stage |-> "queued",
                             at |-> 0])
    /\ heap' = s.heap
    /\ wg' = wg + 1
    /\ pc' = "spawn"
    /\ UNCHANGED <<cur, elf, mu, q, leaving>>

(* Without -elf.concurrent the result is included at once. *)
Inline(e, src) ==
    /\ cur' = [e |-> e, src |-> src]
    /\ pc' = "include"
    /\ UNCHANGED <<pool, heap>>

AddElf ==
    /\ pc = "elf" /\ ~Busy
    /\ todo' = Tail(todo)
    /\ LET e == Head(todo)
           src == ElfSrc(e)
           x == IF ElfExpand THEN Expansion[src] ELSE Unexpanded(src)
       IN IF Once /\ src \in elfAdded
          THEN pc' = More(todo') /\ UNCHANGED <<pend, elfAdded, pool, heap, cur>>
          ELSE /\ elfAdded' = IF Once THEN elfAdded \cup {src} ELSE elfAdded
               /\ IF ~x.ok
                  THEN pc' = "failed" /\ UNCHANGED <<pend, pool, heap, cur>>
                  ELSE /\ pend' = Added(Links(x))
                       /\ IF Concurrent THEN NewJob(e, x.path) ELSE Inline(e, x.path)
    /\ UNCHANGED <<file, line, map, cfg, mm, saved, next, libs, bad>>

(* q <- struct{}{}: blocks while the channel is full. *)
Spawn ==
    /\ pc = "spawn" /\ ~Busy
    /\ q < Slots
    /\ q' = q + 1
    /\ jobs' = [jobs EXCEPT ![Len(jobs)].stage = "running"]
    /\ pc' = More(todo)
    /\ UNCHANGED <<file, line, masks, main, elf, mu, wg, leaving>>

-----------------------------------------------------------------------------
(* The goroutine of job j.  append(m.elf, ...) reads the slice's header and
   writes the longer one: two steps, as nothing but the lock makes it one. *)

Stage(j, from, to) ==
    /\ jobs[j].stage = from
    /\ jobs' = [jobs EXCEPT ![j].stage = to]
    /\ UNCHANGED <<load, masks, main>>

(* Mutant of Lock: nobody looks at the lock. *)
LockIgnored(j) ==
    /\ jobs[j].stage = "running"
    /\ mu' = j
    /\ jobs' = [jobs EXCEPT ![j].stage = "append", ![j].at = Len(elf)]
    /\ UNCHANGED <<load, masks, main, elf, wg, q, leaving>>

(* Resolve returns, and the goroutine takes m.mu. *)
Lock(j) ==
    /\ jobs[j].stage = "running"
    /\ mu = 0
    /\ mu' = j
    /\ jobs' = [jobs EXCEPT ![j].stage = "append", ![j].at = Len(elf)]
    /\ UNCHANGED <<load, masks, main, elf, wg, q, leaving>>

Record(j) ==
    /\ Stage(j, "append", "unlock")
    /\ elf' = Append(SubSeq(elf, 1, jobs[j].at), j)
    /\ UNCHANGED <<mu, wg, q, leaving>>

Unlock(j) ==
    /\ Stage(j, "unlock", "done")
    /\ mu' = 0
    /\ UNCHANGED <<elf, wg, q, leaving>>

WgDone(j) ==
    /\ Stage(j, "done", "gone")
    /\ wg' = wg - 1
    /\ leaving' = leaving + 1
    /\ UNCHANGED <<elf, mu, q>>

(* <-q: a goroutine's last step, after the job is done. *)
Release ==
    /\ leaving > 0
    /\ leaving' = leaving - 1
    /\ q' = q - 1
    /\ UNCHANGED <<load, masks, main, jobs, elf, mu, wg>>

Goroutine(j) == Lock(j) \/ Record(j) \/ Unlock(j) \/ WgDone(j)
Goroutines == \E j \in DOMAIN jobs : Goroutine(j)

-----------------------------------------------------------------------------
(* includeElfs and includeElf *)

(* Mutant of Wait: the wait group is not waited for. *)
WaitForNone ==
    /\ pc = "wait"
    /\ saved' = mm
    /\ pc' = "results"
    /\ UNCHANGED <<file, line, heap, mm, main, pool>>

Wait ==
    /\ pc = "wait"
    /\ wg = 0
    /\ saved' = mm
    /\ pc' = "results"
    /\ UNCHANGED <<file, line, heap, mm, main, pool>>

(* Mutant of NextResult: the masks of the last line of the file stay. *)
NextResultUnmasked ==
    /\ pc = "results" /\ ~Busy
    /\ next < Len(elf)
    /\ LET j == jobs[elf[next + 1]] IN cur' = [e |-> j.e, src |-> j.src]
    /\ next' = next + 1
    /\ pc' = "include"
    /\ UNCHANGED <<file, line, map, cfg, masks, pend, todo, pool, libs, bad, elfAdded>>

(* The next result is included with the masks of its line. *)
NextResult ==
    /\ pc = "results" /\ ~Busy
    /\ next < Len(elf)
    /\ LET j == jobs[elf[next + 1]] IN
       /\ mm' = j.mm
       /\ cur' = [e |-> j.e, src |-> j.src]
    /\ next' = next + 1
    /\ pc' = "include"
    /\ UNCHANGED <<file, line, map, cfg, heap, saved, pend, todo, pool, libs, bad,
                   elfAdded>>

(* The masks are restored; the errors of the results, if any, end the load. *)
ResultsDone ==
    /\ pc = "results" /\ ~Busy
    /\ next = Len(elf)
    /\ mm' = saved
    /\ next' = 0
    /\ pc' = (IF bad THEN "failed" ELSE "merge")
    /\ UNCHANGED <<file, line, map, cfg, heap, saved, pend, todo, pool, cur, libs, bad,
                   elfAdded>>

(* includeElf returns: to the loop over the results, or to addElf. *)
Included ==
    /\ pc' = (IF Concurrent THEN "results" ELSE More(todo))
    /\ UNCHANGED bad
IncludeFails ==
    /\ pc' = (IF Concurrent THEN "results" ELSE "failed")
    /\ bad' = (IF Concurrent THEN TRUE ELSE bad)

ResultOf(c) == Result[c.src, c.e.lib]

(* The entry of the ELF itself: a destination that is only the source's is
   made anew from the resolved source. *)
MainEntry(c) ==
    LET default == IF c.e.type = "LA" THEN CleanDst[c.src] ELSE TrimDst(c.src)
    IN MkEntry("f", c.src,
               IF CleanDst[c.e.src] = c.e.dst THEN default ELSE c.e.dst, c.e.own)

LibEntry(c, path) == MkEntry("f", path, TrimDst(path), c.e.own)

(* The error of Resolve is "ok", "format" (not an ELF file) or "other". *)
IncludeMain ==
    /\ pc = "include" /\ ~Busy
    /\ LET r == ResultOf(cur) IN
       \/ r.err = "other" /\ IncludeFails /\ UNCHANGED <<pend, libs>>
       \/ /\ r.err = "format"
          /\ pend' = Added(<<MainEntry(cur)>>)
          /\ IF Fallback THEN Included ELSE IncludeFails
          /\ UNCHANGED libs
       \/ /\ r.err = "ok"
          /\ pend' = Added(<<MainEntry(cur)>>)
          /\ libs' = r.libs \ {cur.src}
          /\ pc' = "libs"
          /\ UNCHANGED bad
    /\ UNCHANGED <<file, line, map, cfg, masks, todo, pool, next, cur, elfAdded>>

(* Resolve collects the libraries in a Go map: their order is any order. *)
IncludeLib ==
    /\ pc = "libs" /\ ~Busy
    /\ \E v \in libs :
         LET x == Expansion[v] IN
         /\ libs' = libs \ {v}
         /\ IF x.ok
            THEN pend' = Added(Append(Links(x), LibEntry(cur, x.path)))
                 /\ UNCHANGED <<pc, bad>>
            ELSE pend' = Added(Links(x)) /\ IncludeFails
    /\ UNCHANGED <<file, line, map, cfg, masks, todo, pool, next, cur, elfAdded>>

LibsDone ==
    /\ pc = "libs" /\ ~Busy
    /\ libs = {}
    /\ Included
    /\ UNCHANGED <<file, line, map, cfg, masks, pend, todo, pool, next, cur, libs,
                   elfAdded>>

-----------------------------------------------------------------------------
(* Merge and FromFiles *)

(* The Map of all files has no masks: Add puts the entry as it is. *)
MergeNext ==
    /\ pc = "merge" /\ ~Busy
    /\ next < Len(map.A)
    /\ cfg' = PutEntry(cfg, map.A[next + 1])
    /\ next' = next + 1
    /\ UNCHANGED <<load, map, masks, pend, todo, pool, cur, libs, bad, elfAdded>>

(* Mutant of MergeDone: the last entry is left out. *)
MergeDoneEarly ==
    /\ pc = "merge" /\ ~Busy
    /\ next >= Len(map.A) - 1
    /\ pc' = "open"
    /\ next' = 0
    /\ UNCHANGED <<file, line, map, cfg, masks, pend, todo, pool, cur, libs, bad,
                   elfAdded>>

MergeDone ==
    /\ pc = "merge" /\ ~Busy
    /\ next = Len(map.A)
    /\ pc' = "open"
    /\ next' = 0
    /\ UNCHANGED <<file, line, map, cfg, masks, pend, todo, pool, cur, libs, bad,
                   elfAdded>>

(* A new Map: no entries, no masks, no goroutines. *)
NewMap ==
    /\ map' = EmptyMap
    /\ heap' = <<>> /\ mm' = NilSlice /\ saved' = NilSlice
    /\ jobs' = <<>> /\ elf' = <<>>
    /\ cur' = NoElf

(* Mutants of OpenFile: the ELFs that were added, and the channel, are the
   Map's. *)
OpenForgetsElfs ==
    /\ pc = "open" /\ file < MaxFiles
    /\ file' = file + 1 /\ line' = 0 /\ pc' = "read"
    /\ NewMap
    /\ elfAdded' = {}
    /\ UNCHANGED <<cfg, pend, todo, mu, wg, q, leaving, next, libs, bad>>
OpenForgetsTokens ==
    /\ pc = "open" /\ file < MaxFiles
    /\ file' = file + 1 /\ line' = 0 /\ pc' = "read"
    /\ NewMap
    /\ q' = 0
    /\ UNCHANGED <<cfg, pend, todo, mu, wg, leaving, next, libs, bad, elfAdded>>

(* The next file gets a Map of its own; q and elfAdded are shared. *)
OpenFile ==
    /\ pc = "open"
    /\ file < MaxFiles
    /\ file' = file + 1
    /\ line' = 0
    /\ pc' = "read"
    /\ NewMap
    /\ UNCHANGED <<cfg, pend, todo, mu, wg, q, leaving, next, libs, bad, elfAdded>>

(* The file does not open. *)
OpenFails ==
    /\ pc = "open"
    /\ file < MaxFiles
    /\ pc' = "failed"
    /\ UNCHANGED <<file, line, masks, main, pool>>

FilesDone ==
    /\ pc = "open"
    /\ pc' = "done"
    /\ UNCHANGED <<file, line, masks, main, pool>>

-----------------------------------------------------------------------------

ReadLine ==
    \/ ReadMask \/ ReadClear
    \/ ReadPlain \/ ReadRegularRel \/ ReadAuto \/ ReadRecursive \/ ReadGlob
    \/ ReadElf \/ ReadElfGlob \/ ReadElfLib \/ ReadElfPath
    \/ ReadError \/ EndOfFile

Include ==
    \/ Wait \/ NextResult \/ ResultsDone
    \/ IncludeMain \/ IncludeLib \/ LibsDone

Files == MergeNext \/ MergeDone \/ OpenFile \/ OpenFails \/ FilesDone

MainThread == Put \/ ReadLine \/ AddElf \/ Spawn \/ Include \/ Files

(* Nothing is left to do. *)
Ended == pc \in {"done", "failed"}
Terminated == Ended /\ UNCHANGED vars

Next ==
    \/ MainThread
    \/ Goroutines
    \/ Release
    \/ Terminated

Spec == Init /\ [][Next]_vars

(* Go runs every goroutine that can run, the main one included. *)
Fairness ==
    /\ WF_vars(MainThread)
    /\ WF_vars(Release)
    /\ WF_vars(Goroutines)

FairSpec == Spec /\ Fairness

-----------------------------------------------------------------------------
(* Properties *)

(* The assumptions on the constants. *)
ASSUME BoundsAssumption ==
    /\ MaxLines \in Nat /\ MaxFiles \in Nat /\ NumGoroutine \in Int
    /\ {Concurrent, Once, Fallback, ElfExpand, FileExpand, GlobExpand} \subseteq BOOLEAN

ASSUME LinesAssumption ==
    /\ MaskLines \subseteq [mask : Masks, last : BOOLEAN, idx : Int]
    /\ ClearLines \subseteq [all : BOOLEAN, idx : Int]

(* The texts on lines and the paths of files: a function of the system takes
   any of them, and gives one again.  The library paths an entry can have. *)
Texts == DOMAIN CleanDst
LibPaths == {NoLib} \cup {MaskDef[k].lib : k \in {x \in Masks : MaskDef[x].kind = "ml"}}

SourceLine == [type : STRING, src : Texts, dst : Seq(STRING), own : STRING \cup {NoOwn},
               dstSet : BOOLEAN, fail : BOOLEAN, alts : Seq(Texts)]
Followed == [ok : BOOLEAN, none : BOOLEAN, path : Texts,
             links : Seq([dst : Seq(STRING), to : STRING])]
Listing == Seq([file : Texts, rel : Seq(STRING)])

ASSUME SystemAssumption ==
    /\ Texts \subseteq STRING
    /\ CleanDst \in [Texts -> Seq(STRING)]
    /\ InPrefix \in [Texts -> Texts] /\ TrimSrc \in [Texts -> Texts]
    /\ Expansion \in [Texts -> Followed] /\ Follow \in [Texts -> Followed]
    /\ Stat \in [Texts -> [kind : STRING, own : STRING, link : STRING]]
    /\ Walk \in [Texts -> Listing]
    /\ Matches \in [Texts -> [ok : BOOLEAN, files : Listing]]
    /\ FindLib \in [Texts -> Texts \cup {NoFile}]
    /\ PathFiles \in [Texts -> Seq(Texts)]
    /\ Result \in [Texts \X LibPaths -> [err : {"ok", "format", "other"}, libs : SUBSET Texts]]

ASSUME EntriesAssumption ==
    /\ EntryLines \subseteq SourceLine /\ ElfLines \subseteq SourceLine
    /\ DefaultOwn \in STRING /\ LibPaths \subseteq STRING
    /\ \A k \in Masks :
          /\ MaskDef[k].kind = "mr" => MaskDef[k].to \in [MaskDef[k].re -> Seq(STRING)]
          /\ MaskDef[k].kind = "mm" => MaskDef[k].own \in STRING
          /\ MaskDef[k].kind = "mt" => MaskDef[k].time \in Nat

(* The types of the entries made here are strings (a fact of TLA+ that no
   prover has a rule for). *)
ASSUME TypesAssumption == {"f", "l"} \subseteq STRING

Stages == {"queued", "running", "append", "unlock", "done", "gone"}

(* A goroutine of job j is in flight: not past wg.Done. *)
InFlight == {j \in DOMAIN jobs : jobs[j].stage # "gone"}

(* The types of the variables. *)
TypeOK ==
    /\ pc \in {"open", "read", "elf", "spawn", "include", "libs", "wait", "results",
               "merge", "done", "failed"}
    /\ file \in 0..MaxFiles /\ line \in 0..MaxLines
    /\ \A x \in {map, cfg} : \A i \in DOMAIN x.A : x.A[i] \in Entry
    /\ heap \in Heaps
    /\ IsSlice(heap, mm) /\ IsSlice(heap, saved)
    /\ \A i \in DOMAIN pend : pend[i].e \in Entry /\ pend[i].masked \in BOOLEAN
    /\ \A i \in DOMAIN todo : todo[i] \in Entry
    /\ \A j \in DOMAIN jobs : /\ jobs[j].e \in Entry /\ IsSlice(heap, jobs[j].mm)
                              /\ jobs[j].stage \in Stages
                              /\ jobs[j].at \in 0..Len(elf)
    /\ elf \in Seq(DOMAIN jobs)
    /\ mu \in {0} \cup DOMAIN jobs
    /\ {wg, q, leaving, next} \subseteq Nat
    /\ bad \in BOOLEAN

(***************************************************************************)
(* No destination is in the archive's list twice, and an entry is found    *)
(* where the index says (config/map.go:149-151 and 158-159), in the map    *)
(* of the file that is read and in the merged one.                         *)
(***************************************************************************)
MapsIndexed == Indexed(map) /\ Indexed(cfg)

(***************************************************************************)
(* The masks a goroutine was given with its line are the ones its result   *)
(* is filtered by: no later mask line of the file, whichever array it      *)
(* writes to in place, changes them (the copy in resolve).                 *)
(***************************************************************************)
SameMasks ==
    file' = file => \A j \in DOMAIN jobs :
                       /\ j \in DOMAIN jobs'
                       /\ Eff(heap', jobs'[j].mm) = Eff(heap, jobs[j].mm)
MasksOfLineKept == [][SameMasks]_vars

(***************************************************************************)
(* When the results are included, every goroutine of the file has recorded *)
(* its result, once: no append was lost to another one, and none comes     *)
(* after the wait group let the main thread pass.                          *)
(***************************************************************************)
NoResultLost ==
    Concurrent /\ pc \in {"results", "include", "libs", "merge"} =>
        /\ Len(elf) = Len(jobs)
        /\ ToSet(elf) = DOMAIN jobs

(***************************************************************************)
(* At most Slots goroutines resolve at a time, over all files: the tokens  *)
(* in q are the goroutines that run or are about to release theirs.        *)
(***************************************************************************)
WorkersBounded ==
    /\ q = leaving + Cardinality({j \in InFlight : jobs[j].stage # "queued"})
    /\ q <= Slots

(* What job j adds to the map, masked by the masks of its line. *)
Filtered(masksOf, es) ==
    {r.e : r \in {x \in {ApplyMasks(masksOf, e) : e \in es} : ~x.drop}}

Adds(c) ==
    LET r == ResultOf(c) IN
    CASE r.err = "other" -> {}
      [] r.err = "format" -> {MainEntry(c)}
      [] r.err = "ok" ->
           {MainEntry(c)} \cup
           UNION {ToSet(Links(Expansion[v])) \cup {LibEntry(c, Expansion[v].path)} :
                     v \in r.libs \ {c.src}}

Produced(j) == Filtered(Eff(heap, jobs[j].mm), Adds([e |-> jobs[j].e, src |-> jobs[j].src]))

(***************************************************************************)
(* -elf.concurrent adds the results "to the end of the archive"            *)
(* (config/map.go:39): once they are included, everything every ELF line   *)
(* of the file needs is in the map, and no other line's entry stands in    *)
(* its place.                                                              *)
(***************************************************************************)
ElfResultsLast ==
    Concurrent /\ pc = "merge" /\ next = 0 =>
        \A j \in DOMAIN jobs : \A p \in Produced(j) :
            /\ p.dst \in Dsts(map)
            /\ EntryOf(map, p.dst) \in UNION {Produced(i) : i \in DOMAIN jobs}

(***************************************************************************)
(* "overlapping entries will be replaced by subsequent entries"            *)
(* (config/map.go:150): where several ELF lines of a file give a           *)
(* destination an entry, the last of these lines' stays.                   *)
(***************************************************************************)
LaterLineWins ==
    Concurrent /\ pc = "merge" /\ next = 0 =>
        \A j \in DOMAIN jobs : \A p \in Produced(j) :
            \/ EntryOf(map, p.dst) \in Produced(j)
            \/ \E k \in j+1..Len(jobs) : \E x \in Produced(k) : x.dst = p.dst

(***************************************************************************)
(* A merged file is merged whole: each of its entries is in the map of all *)
(* files and overrides what the files before it had there.                 *)
(***************************************************************************)
FileMerged ==
    pc \in {"open", "done"} =>
        \A d \in Dsts(map) : d \in Dsts(cfg) /\ EntryOf(cfg, d) = EntryOf(map, d)

(***************************************************************************)
(* "Masks can be used to rewrite [...] entries" (README.md:135): no entry  *)
(* gets a destination that a rename mask in force rewrites to another, but *)
(* the one of an fr line to which -file.expand gives the destination of    *)
(* its file after the masks (config/map.go:372).                           *)
(***************************************************************************)
OfFile(p) == FileExpand /\ p.masked /\ p.e.type = "f" /\ p.e.dst = TrimDst(p.e.src)
RenamesBy(k, d) ==
    MaskDef[k].kind = "mr" /\ d \in MaskDef[k].re /\ MaskDef[k].to[d] # d
Renames(s, d) == \E k \in ToSet(s) : RenamesBy(k, d)
NothingUnrenamed ==
    [][\A d \in Dsts(map') \ Dsts(map) :
          Renames(InForce, d) => OfFile(Head(pend)) /\ d = Head(pend).e.dst]_vars

(* The masks of which that is proved: none rewrites a destination that one of
   them gives, so that there are no chains and no cycles. *)
RenamesEnd ==
    \A x, k \in Masks :
        MaskDef[x].kind = "mr" =>
            \A d \in MaskDef[x].re : ~RenamesBy(k, MaskDef[x].to[d])

(***************************************************************************)
(* "files prefixed with ? are omitted if they don't exist" (README.md:51): *)
(* a file, which is below the rootfs for fr and ar only (README.md:14), is *)
(* put if it exists, unless a mask drops it; if not, the load goes on.     *)
(***************************************************************************)
Honoured(l, then) ==
    l.fail /\ l.alts = <<>> /\ EntryLine(l, then) =>
        LET x == IF l.type \in {"fr", "ar"} THEN Expansion[InPrefix[l.src]] ELSE Follow[l.src]
        IN IF x.none THEN pend' = <<>> /\ pc' # "failed"
           ELSE pend' # <<>> \/ Masked(l).drop
OptionalHonoured ==
    [][/\ \A l \in OfType(EntryLines, {"f"}) : Honoured(l, Plain(l, Masked(l).e))
       /\ \A l \in OfType(EntryLines, {"fr"}) :
            Honoured(l, RegularRel(l, Masked(l).e))
       /\ \A l \in OfType(EntryLines, {"a", "ar"}) :
            Honoured(l, AutoFile(l, Masked(l).e))]_vars

(***************************************************************************)
(* -elf.once: a source reaches the resolver once, over all files and for   *)
(* every kind of ELF line: what was resolved is never forgotten, and what  *)
(* is resolved now never was.                                              *)
(***************************************************************************)
ResolvedOnce ==
    [][Once => /\ elfAdded \subseteq elfAdded'
               /\ \A j \in DOMAIN jobs' \ DOMAIN jobs :
                     ElfSrc(jobs'[j].e) \in elfAdded' \ elfAdded]_vars

(***************************************************************************)
(* Every load ends: no file, line or result keeps the main thread waiting  *)
(* for a goroutine that waits for it.                                      *)
(***************************************************************************)
Terminates == <>Ended

-----------------------------------------------------------------------------
(* The refinement *)

(* While results are included, the masks of the lines are put aside. *)
Including == Concurrent /\ pc \in {"results", "include", "libs"}

(* The job whose result is included, of which the masks must be in force. *)
Taken == IF Including /\ next > 0 THEN elf[next] ELSE 0

Abstract == INSTANCE LoadSpec WITH
    masks <- Eff(heap, IF Including THEN saved ELSE mm),
    scope <- InForce,
    deferred <- [j \in DOMAIN jobs |-> Eff(heap, jobs[j].mm)],
    taken <- Taken,
    queue <- pend,
    entries <- Content(map),
    total <- Content(cfg)

(***************************************************************************)
(* The load does what LoadSpec promises: the list with its index is a      *)
(* dictionary that later entries override, the mask slices are lists that  *)
(* no other slice's write changes, a result is filtered by the masks of    *)
(* its line, and every file is merged whole before the next one begins.    *)
(***************************************************************************)
ImplementsLoadSpec == Abstract!Spec
=============================================================================
