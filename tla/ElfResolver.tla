---------------------------- MODULE ElfResolver ----------------------------
(***************************************************************************)
(* The Resolver of elf/resolver.go with the loader of elf/elf.go: after    *)
(* ReadConfig, goroutines search the libraries of one program each, depth  *)
(* first, while the main thread goes on to the next line and may search a  *)
(* library itself with Find.  They share the cache of loaded files, the    *)
(* cache of directories and the class.                                     *)
(*                                                                         *)
(* A step takes a lock at most once and does nothing else another thread   *)
(* could see.                                                              *)
(***************************************************************************)
EXTENDS LdConf

CONSTANTS
    Worlds,         \* the worlds of the run
    ElfFiles,       \* ELF file -> [class, interp, needed, rpath, runpath]
    Truncated,      \* files that end before debug/elf has its header
    DefaultLibs,    \* defaultLibs, each a path
    LibcSo          \* the name libc.so

(* A directory as an ELF file or a line gives it: an absolute path, one from
   $ORIGIN, or one that is neither.  ld.so.conf has absolute ones alone. *)
Directory(tok, p) == [tok |-> tok, p |-> p]
(* A needed library: a name, or an absolute path. *)
Lib(name) == [abs |-> FALSE, p |-> <<name>>]
None == 0           \* ELFCLASSNONE; the classes are 32 and 64

Directories == [tok : {"/", "$", ""}, p : Paths]
Libs == [abs : BOOLEAN, p : Paths]

(* A name does not go up; the directories of a file may. *)
ASSUME ElfAssumption ==
    /\ Prefix \in Paths /\ DefaultLibs \in Seq(Paths)
    /\ Truncated \cap DOMAIN ElfFiles = {}
    /\ \A f \in DOMAIN ElfFiles :
          LET e == ElfFiles[f]
          IN /\ e.class \in {32, 64} /\ e.interp \in Paths /\ e.needed \in Seq(Libs)
             /\ \A lib \in Range(e.needed) : ~lib.abs => ".." \notin Range(lib.p)
             /\ e.rpath \in Seq(Directories) /\ e.runpath \in Seq(Directories)

(* What ld.so.conf and the files it includes say. *)
ConfLines(w) == UNION {Range(w.conf[f]) : f \in DOMAIN w.conf}
ConfDirs(w) == {l.dir : l \in {x \in ConfLines(w) : ~x.include}}

ASSUME WorldsAssumption ==
    \A w \in Worlds :
        /\ \A f \in DOMAIN w.conf : w.conf[f] \in Seq(ConfLines(w))
        /\ ConfDirs(w) \subseteq Paths
        /\ \A t \in DOMAIN w.jobs :
              /\ w.jobs[t].file \in Paths /\ w.jobs[t].ld \in Seq(Directories)
              /\ w.jobs[t].find \in BOOLEAN

VARIABLES
    loaded,     \* the cache of the loader: name -> handle
    dirs,       \* fileset.dirs
    files,      \* fileset.files
    class,      \* Resolver.class
    ctx,        \* job -> what its goroutine is at
    crashed     \* a goroutine has panicked

rvars == <<loaded, dirs, files, class, ctx, crashed>>
vars == <<lvars, rvars>>

(* A job is [file, ld, find]: a line with a file that has been expanded, and
   the directories of a library mask; or an i line, whose file is a name. *)
Jobs == DOMAIN world.jobs
Fresh(job) ==
    [pc |-> "idle", file |-> job.file, at |-> <<>>, f |-> <<>>, class |-> None, ldconf |-> <<>>,
     ret |-> {}, err |-> {}, stack |-> <<>>, lib |-> <<>>, queue |-> <<>>, list |-> "", res |-> ""]

Init ==
    /\ world \in Worlds
    /\ LdInit
    /\ loaded = << >> /\ dirs = {} /\ files = {} /\ class = None
    /\ ctx = [t \in Jobs |-> Fresh(world.jobs[t])]
    /\ crashed = FALSE

Going(t, pc) == conf = "ok" /\ ~crashed /\ ctx[t].pc = pc
Done(c, res) == [c EXCEPT !.pc = "done", !.res = res]
-----------------------------------------------------------------------------
(* defaultLoader.  A handle is [name, real, interp, open]: a file that is in
   the cache has been closed. *)

(* elf.Open: a file that ends too early is io.EOF, not a FormatError. *)
Fails(err) == [err |-> err]
Opened(name, there) ==
    IF there.err # "ok" THEN Fails(IF there.err = "none" THEN "none" ELSE "other")
    ELSE IF world.fs[there.path].kind = "d" THEN Fails("other")
    ELSE IF there.path \in Truncated THEN Fails("other")
    ELSE IF there.path \notin DOMAIN ElfFiles THEN Fails("format")
    ELSE [err |-> "ok", f |-> [name |-> name, real |-> there.path, interp |-> <<>>, open |-> TRUE]]

OpenAt(name, e) == Opened(name, IF e.err = "ok" THEN OsStat(world.fs, e.s) ELSE NotFound(e.err))
Opens(name) ==
    OpenAt(name, IF Prefix = <<>> THEN [s |-> name, err |-> "ok"] ELSE Expand(world.fs, name))
Loader(name) ==
    IF name \in DOMAIN loaded THEN [err |-> "ok", f |-> loaded[name]] ELSE Opens(name)

Elf(f) == ElfFiles[f.real]

(* Interpreter, and what it keeps of it in the handle. *)
Interpreter(f) == IF f.open THEN Elf(f).interp ELSE f.interp
KeepsNone(f) == f
Keeps(f) == [f EXCEPT !.interp = Interpreter(f)]

(* Dynamic puts the file in the cache when it has read it. *)
Cached(f) == [name \in DOMAIN loaded \cup {f.name} |-> IF name = f.name THEN f ELSE loaded[name]]
DynamicOpen(f) == loaded' = Cached(f)
Dynamic(f) == loaded' = IF f.open THEN Cached([f EXCEPT !.open = FALSE]) ELSE loaded
-----------------------------------------------------------------------------
(* Directories.  A pathset is the sequence of its [path, origin, class], and
   has no path twice.  A path from $ORIGIN keeps its "..": it is cleaned when
   it is joined with something, but opened as it is. *)

PathDir(p) == Clean(Front(p))
Pe(d, rd) == [path |-> IF d.tok = "$" THEN rd \o d.p ELSE d.p,
              origin |-> d.tok = "$", class |-> None]

(* pathset.add: not what begins with neither / nor $, and nothing twice. *)
PathAdd(set, rd, ds) ==
    FoldLeft(LAMBDA r, d : IF d.tok = "" \/ \E i \in DOMAIN r : r[i].path = Pe(d, rd).path
                           THEN r ELSE Append(r, Pe(d, rd)), set, ds)

(* pathset.set *)
PathSet(set, path, c) ==
    [i \in DOMAIN set |-> IF set[i].path = path THEN [set[i] EXCEPT !.class = c] ELSE set[i]]

Mkpe(ds, rd) == [i \in DOMAIN ds |-> Pe(ds[i], rd)]
Absolute(paths) == [i \in DOMAIN paths |-> Directory("/", paths[i])]
Rootprefix(v) == IF v.origin THEN v.path ELSE Clean(Prefix \o v.path)

(* The path search1 tries in a directory. *)
Try(v, lib) == IF lib.abs THEN lib.p ELSE Clean(Rootprefix(v)) \o lib.p
-----------------------------------------------------------------------------
(* Lines.  The main thread starts them in their order, and an i line has
   found its library before the next one. *)

StartLine(t) ==
    /\ Going(t, "idle") /\ \A u \in Jobs : u < t => ctx[u].pc \notin {"idle", "find"}
    /\ ctx' = [ctx EXCEPT ![t] =
                 IF world.jobs[t].find
                 THEN [@ EXCEPT !.pc = "find", !.queue = ldconf \o DefaultLibs]
                 ELSE [@ EXCEPT !.pc = "load"]]
    /\ UNCHANGED <<lvars, loaded, dirs, files, class, crashed>>

(* classmatch: 64 when no file has been resolved. *)
MatchFirst(c) == class \in {None, c}
Match(c) == IF class = None THEN c = 64 ELSE c = class

(* Find, one directory; addElf expands the path it returns. *)
Finds(c, l, e) ==
    IF l.err # "ok" \/ ~Match(Elf(l.f).class) THEN [c EXCEPT !.queue = Tail(@)]
    ELSE IF e.err = "ok" THEN [c EXCEPT !.pc = "load", !.file = e.s, !.queue = <<>>]
    ELSE Done(c, "error")

(* A path that Expand has gone through to its end is a path again: the run of
   its calls ends, so that its recursion defines one. *)
ASSUME ExpandAssumption ==
    \A w \in Worlds : \A t \in DOMAIN w.jobs :
        \A dir \in ConfDirs(w) \cup Range(DefaultLibs) :
            w.jobs[t].find =>
                LET e == Expand(w.fs, Prefix \o dir \o w.jobs[t].file)
                IN e.err = "ok" => e.s \in Paths

FindIn(t) ==
    /\ Going(t, "find") /\ ctx[t].queue # <<>>
    /\ LET p == Prefix \o Head(ctx[t].queue) \o ctx[t].file
       IN ctx' = [ctx EXCEPT ![t] = Finds(@, Loader(p), Expand(world.fs, p))]
    /\ UNCHANGED <<lvars, loaded, dirs, files, class, crashed>>

FindNothing(t) ==
    /\ Going(t, "find") /\ ctx[t].queue = <<>>
    /\ ctx' = [ctx EXCEPT ![t] = Done(@, "nolib")]
    /\ UNCHANGED <<lvars, loaded, dirs, files, class, crashed>>
-----------------------------------------------------------------------------
(* Resolve *)

Loads(c, l, ds) ==
    IF l.err # "ok" THEN Done(c, "error")
    ELSE [c EXCEPT !.pc = "class", !.at = c.file, !.f = l.f, !.class = Elf(l.f).class,
                   !.ldconf = PathAdd(<<>>, PathDir(c.file), ds)]

LoadRoot(t) ==
    /\ Going(t, "load")
    /\ ctx' = [ctx EXCEPT ![t] = Loads(@, Loader(@.file), world.jobs[t].ld \o Absolute(ldconf))]
    /\ UNCHANGED <<lvars, loaded, dirs, files, class, crashed>>

(* Under the resolver's lock; then the interpreter is put in the set. *)
SetClass(t) ==
    /\ Going(t, "class")
    /\ class' = IF class = None THEN ctx[t].class ELSE class
    /\ LET f == ctx[t].f
           i == Interpreter(f)
       IN ctx' = [ctx EXCEPT ![t].pc = "enter", ![t].f = Keeps(f),
                             ![t].ret = IF i = <<>> THEN {} ELSE {Prefix \o i}]
    /\ UNCHANGED <<lvars, loaded, dirs, files, crashed>>

(* What a call of resolv leaves to the calls under it. *)
Parent(c) == IF c.stack = <<>> THEN [run |-> <<>>, rpath |-> <<>>] ELSE Head(c.stack)

(* resolv is called with the file. *)
Enter(t) ==
    /\ Going(t, "enter")
    /\ LET c == ctx[t]
           e == Elf(c.f)
           rd == PathDir(c.at)
           frame == [file |-> c.at, needed |-> e.needed, old |-> Parent(c).run,
                     run |-> Mkpe(e.runpath, rd), rpath |-> PathAdd(Parent(c).rpath, rd, e.rpath)]
       IN IF c.at \in c.ret
          THEN /\ ctx' = [ctx EXCEPT ![t].pc = "needed"]
               /\ UNCHANGED loaded
          ELSE /\ ctx' = [ctx EXCEPT ![t].pc = "needed", ![t].ret = @ \cup {c.at},
                                     ![t].stack = <<frame>> \o @]
               /\ Dynamic(c.f)
    /\ UNCHANGED <<lvars, dirs, files, class, crashed>>

(* A needed libc.so ends the loop. *)
More(frame) == frame.needed # <<>> /\ Head(frame.needed) # Lib(LibcSo)

(* The next needed library of the file resolv is at. *)
NeedsNext(c) ==
    LET frame == Head(c.stack)
    IN [c EXCEPT !.pc = "search", !.lib = Head(frame.needed), !.list = "paths",
                 !.stack[1].needed = Tail(@), !.queue = frame.old \o frame.run \o frame.rpath]

Search(t) ==
    /\ Going(t, "needed") /\ ctx[t].stack # <<>> /\ More(Head(ctx[t].stack))
    /\ ctx' = [ctx EXCEPT ![t] = NeedsNext(@)]
    /\ UNCHANGED <<lvars, loaded, dirs, files, class, crashed>>

(* resolv returns. *)
Leave(t) ==
    /\ Going(t, "needed") /\ ctx[t].stack # <<>> /\ ~More(Head(ctx[t].stack))
    /\ ctx' = [ctx EXCEPT ![t].stack = Tail(@)]
    /\ UNCHANGED <<lvars, loaded, dirs, files, class, crashed>>

Resolved(t) ==
    /\ Going(t, "needed") /\ ctx[t].stack = <<>>
    /\ ctx' = [ctx EXCEPT ![t] = Done(@, IF @.err = {} THEN "ok" ELSE "missing")]
    /\ UNCHANGED <<lvars, loaded, dirs, files, class, crashed>>
-----------------------------------------------------------------------------
(* search, search1 *)

Exists(t) ==
    /\ Going(t, "search") /\ ctx[t].queue # <<>>
    /\ LET v == Head(ctx[t].queue)
       IN /\ v.class \in {None, ctx[t].class} /\ Try(v, ctx[t].lib) \in ctx[t].ret
          /\ ctx' = [ctx EXCEPT ![t].pc = "exists", ![t].at = Try(v, ctx[t].lib)]
    /\ UNCHANGED <<lvars, loaded, dirs, files, class, crashed>>

(* fileset.add: os.Open follows the links of the directory it was given, not
   of the one Expand returns, and Readdirnames of a file makes it panic.  It
   opens nothing if Expand fails but for a name that is not there. *)
Names(at) == {Last(p) : p \in {q \in DOMAIN world.fs : q # <<>> /\ Front(q) = at}}
ListedAt(dir, e, there) ==
    IF dir \in dirs \/ e.err \notin {"ok", "none"} \/ there.err # "ok" THEN {}
    ELSE {Append(Clean(dir), name) : name \in Names(there.path)}
Listing(dir) == ListedAt(dir, Expand(world.fs, dir), OsStat(world.fs, dir))
IsFileAt(there) == there.err = "ok" /\ world.fs[there.path].kind # "d"
ListsFile(dir) ==
    /\ dir \notin dirs /\ Expand(world.fs, dir).err \in {"ok", "none"}
    /\ IsFileAt(OsStat(world.fs, dir))

(* fileset.ok: whether the file is there, of all that has been listed. *)
OkBefore(dir, file) == file \in files
Ok(dir, file) == file \in files \cup Listing(dir)

(* search1 goes on to the next directory, or returns the file it has loaded;
   then the library is not missing, even if another file has missed it. *)
NextDirStays(c) == [c EXCEPT !.pc = "search"]
NextDir(c) == [c EXCEPT !.pc = "search", !.queue = Tail(@)]
TakeClears(c, f) == [c EXCEPT !.pc = "enter", !.f = f, !.err = {}]
TakeLib(c, f) == [c EXCEPT !.pc = "enter", !.f = f, !.err = @ \ {c.lib}]

Look(t) ==
    /\ Going(t, "search") /\ ctx[t].queue # <<>>
    /\ LET c == ctx[t]
           v == Head(c.queue)
           r == Try(v, c.lib)
           dir == IF c.lib.abs THEN v.path ELSE Rootprefix(v)
           skip == [ctx EXCEPT ![t] = NextDir(c)]
           try == [ctx EXCEPT ![t].pc = "try", ![t].at = r]
       IN IF v.class \notin {None, c.class}
          THEN ctx' = skip /\ UNCHANGED <<dirs, files, crashed>>
          ELSE /\ r \notin c.ret
               /\ IF v.path \in Range(DefaultLibs)
                  THEN ctx' = try /\ UNCHANGED <<dirs, files, crashed>>
                  ELSE IF ListsFile(dir)
                  THEN crashed' = TRUE /\ UNCHANGED <<ctx, dirs, files>>
                  ELSE /\ ctx' = IF Ok(dir, r) THEN try ELSE skip
                       /\ dirs' = dirs \cup {dir} /\ files' = files \cup Listing(dir)
                       /\ UNCHANGED crashed
    /\ UNCHANGED <<lvars, loaded, class>>

(* The loader is called.  A directory with a file of the other class is
   marked. *)
Tries(c, l) ==
    IF l.err = "other" THEN Done(c, "error")
    ELSE IF l.err # "ok" THEN NextDir(c)
    ELSE IF Elf(l.f).class = c.class THEN TakeLib(c, l.f)
    ELSE [NextDir(c) EXCEPT !.ldconf = PathSet(@, Head(c.queue).path, Elf(l.f).class)]

Load(t) ==
    /\ Going(t, "try")
    /\ ctx' = [ctx EXCEPT ![t] = Tries(@, Loader(@.at))]
    /\ UNCHANGED <<lvars, loaded, dirs, files, class, crashed>>

(* After the paths of the files those of ldconf, then the default ones. *)
NextList(t) ==
    /\ Going(t, "search") /\ ctx[t].queue = <<>> /\ ctx[t].list # "default"
    /\ LET c == ctx[t]
       IN ctx' = [ctx EXCEPT ![t] =
                    IF c.list = "paths" THEN [c EXCEPT !.list = "ldconf", !.queue = c.ldconf]
                    ELSE [c EXCEPT !.list = "default",
                                   !.queue = Mkpe(Absolute(DefaultLibs), <<>>)]]
    /\ UNCHANGED <<lvars, loaded, dirs, files, class, crashed>>

NotFoundAt(t) ==
    /\ Going(t, "search") /\ ctx[t].queue = <<>> /\ ctx[t].list = "default"
    /\ ctx' = [ctx EXCEPT ![t].pc = "needed", ![t].err = @ \cup {ctx[t].lib}]
    /\ UNCHANGED <<lvars, loaded, dirs, files, class, crashed>>

(* The path is in the set already: err stays as it is. *)
Skip(t) ==
    /\ Going(t, "exists")
    /\ ctx' = [ctx EXCEPT ![t].pc = "needed"]
    /\ UNCHANGED <<lvars, loaded, dirs, files, class, crashed>>

Work(t) ==
    \/ StartLine(t) \/ FindIn(t) \/ FindNothing(t) \/ LoadRoot(t) \/ SetClass(t) \/ Enter(t)
    \/ Search(t) \/ Leave(t) \/ Resolved(t) \/ Exists(t) \/ Look(t) \/ Load(t) \/ NextList(t)
    \/ NotFoundAt(t) \/ Skip(t)

Config == LdNext /\ UNCHANGED rvars

Ended == crashed \/ conf = "failed" \/ (conf = "ok" /\ \A t \in Jobs : ctx[t].pc = "done")
Terminated == Ended /\ UNCHANGED vars

Next == Config \/ (\E t \in Jobs : Work(t)) \/ Terminated

Spec == Init /\ [][Next]_vars

(* Weak fairness of Next, which is enabled until Ended and whose steps before
   change vars: some goroutine that can go on does. *)
FairSpec == Spec /\ ([]<>Ended \/ []<><<Next>>_vars)
-----------------------------------------------------------------------------
(* Properties *)

TypeOK ==
    /\ conf \in {"read", "ok", "failed"} /\ OpenFiles <= MaxOpen
    /\ class \in {None, 32, 64} /\ crashed \in BOOLEAN
    /\ \A name \in DOMAIN loaded : loaded[name].name = name /\ ~loaded[name].open
    /\ \A t \in Jobs :
        /\ ctx[t].pc \in {"idle", "find", "load", "class", "enter", "needed", "search",
                          "exists", "try", "done"}
        /\ \A i, j \in DOMAIN ctx[t].ldconf :
              ctx[t].ldconf[i].path = ctx[t].ldconf[j].path => i = j
        /\ {ctx[t].stack[i].file : i \in DOMAIN ctx[t].stack} \subseteq ctx[t].ret

InRoot(p) == Follow(world.fs, Prefix, Trimmed(p))
IsElf(p) == LET there == InRoot(p) IN there.err = "ok" /\ there.path \in DOMAIN ElfFiles
ClassAt(p) == ElfFiles[InRoot(p).path].class

(* The root file systems and programs the caches are made for: the directories
   are the same for a process outside of the root file system, each has ELF
   files of one class, needed libraries are names, interpreters are there and
   of the class of what they are for, and where a file's directories go up no
   link leads to a directory. *)
Tame ==
    LET nodes == DOMAIN world.fs
        in(dir) == {q \in nodes : q # <<>> /\ Front(q) = dir /\ IsElf(q)}
    IN /\ Plain(world.fs)
       /\ \A p \in nodes : world.fs[p].kind = "l" /\ IsPrefix(Prefix, p) =>
             LET there == InRoot(p)
             IN there.err = "ok" /\ world.fs[there.path].kind = "d" => OsStat(world.fs, p) = there
       /\ \A p \in nodes : world.fs[p].kind = "d" =>
             Cardinality({ClassAt(q) : q \in in(p)}) <= 1
       /\ \A f \in DOMAIN ElfFiles \cap nodes :
             LET e == ElfFiles[f]
             IN /\ \A i \in DOMAIN e.needed : ~e.needed[i].abs
                /\ \/ \A d \in Range(e.rpath \o e.runpath) : ".." \notin Range(d.p)
                   \/ \A p \in nodes : world.fs[p].kind = "l" =>
                         LET there == InRoot(p)
                         IN there.err = "ok" => world.fs[there.path].kind # "d"
                /\ e.interp # <<>> => IsElf(Prefix \o e.interp) /\ ClassAt(Prefix \o e.interp) = e.class

(* Where the search of a library looks: in the order of search, without the
   marks and the caches. *)
SearchPath(c) ==
    LET frame == Head(c.stack)
    IN frame.old \o frame.run \o frame.rpath \o c.ldconf \o Mkpe(Absolute(DefaultLibs), <<>>)
Provides(p, c) == IsElf(p) /\ ClassAt(p) = c
Having(c) == {i \in DOMAIN SearchPath(c) : Provides(Try(SearchPath(c)[i], c.lib), c.class)}

(* Whatever the other goroutines have loaded, listed or marked, each search
   gives the first file of the program's class on the search path of the file
   that needs it, and gives up only if there is none: the caches, the marks
   and the paths that are in the set already change no answer. *)
SearchRight ==
    \A t \in Jobs :
        LET c == ctx[t]
        IN c.stack # <<>> =>
            /\ c.pc \in {"enter", "exists"} /\ Tame =>
                  Having(c) # {} /\ c.at = Try(SearchPath(c)[Min(Having(c))], c.lib)
            /\ c.pc = "search" /\ c.queue = <<>> /\ c.list = "default" /\ Tame => Having(c) = {}

(* A program that is resolved has all it needs: of each file of the set the
   libraries before a libc.so are in it. *)
Closed ==
    \A t \in Jobs : ctx[t].res = "ok" =>
        \A file \in ctx[t].ret :
            LET e == Elf(Opens(file).f)
                isInterp == \E x \in Range(ElfFiles) : file = Prefix \o x.interp
            IN ~isInterp => \A i \in DOMAIN e.needed :
                 (\A j \in 1..i : e.needed[j] # Lib(LibcSo)) =>
                     \E lib \in ctx[t].ret : IsSuffix(e.needed[i].p, lib)

(* A program's interpreter is in its set however often and in whatever order
   it is loaded, unless another program needs it as a library. *)
InterpKept ==
    \A t \in Jobs : ctx[t].res \in {"ok", "missing"} =>
        LET interp == Elf(Opens(ctx[t].file).f).interp
        IN \/ interp = <<>> \/ Prefix \o interp \in ctx[t].ret
           \/ \E u \in Jobs : ctx[u].file # ctx[t].file /\ ctx[t].file \in ctx[u].ret

(* As long as the first file that was resolved is no 32-bit one, Find gives the
   first 64-bit library in the order of ld.so.conf and the default directories:
   which goroutine was first does not matter. *)
FindRight ==
    class # 32 => \A t \in Jobs : world.jobs[t].find =>
        LET ds == ldconf \o DefaultLibs
            at(i) == Prefix \o ds[i] \o world.jobs[t].file
            having == {i \in DOMAIN ds : Provides(at(i), 64)}
        IN /\ ctx[t].pc = "load" /\ Tame =>
                 having # {} /\ ctx[t].file = InRoot(at(Min(having))).path
           /\ ctx[t].res = "nolib" /\ Tame => having = {}

(* What Expand promises of the paths an i line may try, in a root file system
   with plain links: it comes to the file that the path names there, which has
   no link on the way to it.  None is a directory with the name of an ELF file. *)
ExpandsInRoot ==
    \A w \in Worlds : Plain(w.fs) =>
        \A t \in DOMAIN w.jobs : \A dir \in ConfDirs(w) \cup Range(DefaultLibs) :
            w.jobs[t].find =>
                LET p == Prefix \o dir \o w.jobs[t].file
                    e == Expand(w.fs, p)
                    there == Follow(w.fs, Prefix, Trimmed(p))
                IN /\ e.err = "ok" \/ there.err = "ok" =>
                          /\ e.err = "ok" /\ there.err = "ok" /\ e.s = there.path
                          /\ OsStat(w.fs, e.s) = there
                   /\ there.err = "ok" /\ there.path \in DOMAIN ElfFiles =>
                          w.fs[there.path].kind # "d"

(* README.md of L lines: src and all dependencies are read from the rootfs.  So
   a library that is reported as not found is in no directory that is searched
   for every program. *)
ReadFromRootfs ==
    \A t \in Jobs : ctx[t].res = "missing" =>
        \A lib \in ctx[t].err :
            ~\E dir \in Range(ldconf) \cup Range(DefaultLibs) :
                Provides(Prefix \o dir \o lib.p, ctx[t].class)

(* ReadConfig and all lines come to their end, with libraries that need each
   other, files that include each other and a panic among them. *)
Terminates == <>Ended
=============================================================================
