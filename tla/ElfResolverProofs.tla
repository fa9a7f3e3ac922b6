------------------------- MODULE ElfResolverProofs -------------------------
(***************************************************************************)
(* Theorems about ElfResolver: its types, that a program that is resolved  *)
(* has all it needs, that its interpreter is kept, and that Find gives the *)
(* first library there is.                                                 *)
(***************************************************************************)
EXTENDS ElfResolver, DataInduction
-----------------------------------------------------------------------------
(* What a goroutine is at.  A handle is of the file its name stands for. *)
Classes == {None, 32, 64}
Handles == [name : Paths, real : DOMAIN ElfFiles, interp : Paths, open : BOOLEAN]
PathEntries == [path : Paths, origin : BOOLEAN, class : Classes]
(* No path is in a set of directories twice. *)
Once(set) == \A i, j \in DOMAIN set : set[i].path = set[j].path => i = j
PathSets == {set \in Seq(PathEntries) : Once(set)}
Frames == [file : Paths, needed : Seq(Libs), old : Seq(PathEntries),
           run : Seq(PathEntries), rpath : PathSets]
-----------------------------------------------------------------------------
(* The folds of the models, each as the run of its steps. *)

CleanStep(r, name) ==
    IF name # ".." THEN Append(r, name) ELSE IF r = <<>> THEN r ELSE Front(r)

LEMMA FrontTyped ==
    ASSUME NEW T, NEW s \in Seq(T)
    PROVE  Front(s) \in Seq(T)
<1>1. \A i \in 1..(Len(s) - 1) : i \in 1..Len(s) /\ s[i] \in T
  OBVIOUS
<1>2. CASE s = <<>>
  <2>1. Front(s) = <<>>
    BY <1>2 DEF Front
  <2> QED
    BY <2>1
<1>3. CASE s # <<>>
  <2>1. Len(s) - 1 \in Nat
    BY <1>3
  <2> QED
    BY <1>1, <2>1 DEF Front
<1> QED
  BY <1>2, <1>3

LEMMA CleanStepTyped ==
    ASSUME NEW r \in Paths, NEW name \in STRING
    PROVE  CleanStep(r, name) \in Paths
<1>1. Append(r, name) \in Paths
  <2>1. ASSUME NEW T, NEW s \in Seq(T), NEW x \in T PROVE Append(s, x) \in Seq(T)
    OBVIOUS
  <2> QED
    BY <2>1, Zenon DEF Paths
<1>2. Front(r) \in Paths
  BY FrontTyped, Zenon DEF Paths
<1> QED
  BY <1>1, <1>2, Zenon DEF CleanStep

(* Clean makes a path of a path. *)
LEMMA CleanTyped ==
    ASSUME NEW p \in Paths
    PROVE  Clean(p) \in Paths
<1> DEFINE n == Len(p)
           IsIt(it) == it = [S \in SUBSET DOMAIN p |->
                               IF S = {} THEN <<>> ELSE CleanStep(it[S \ {Max(S)}], p[Max(S)])]
           it == CHOOSE f : IsIt(f)
<1>1. n \in Nat /\ p \in [1..n -> STRING] /\ DOMAIN p = 1..n /\ <<>> \in Paths
  BY DEF Paths
<1>2. PICK F : F = [x \in Paths \X STRING |-> CleanStep(x[1], x[2])]
  OBVIOUS
<1>3. F \in [Paths \X STRING -> Paths]
  BY <1>2, CleanStepTyped
<1>4. ASSUME NEW r \in Paths, NEW name \in STRING PROVE F[<<r, name>>] = CleanStep(r, name)
  BY <1>2
<1>5. \A S \in SUBSET (1..n) : S # {} => Max(S) \in 1..n /\ S \ {Max(S)} \in SUBSET (1..n)
  BY <1>1, MaxIs
<1> HIDE DEF n
<1>6. PICK f : IsFold(f, Paths, F, <<>>, n, p)
  BY <1>1, <1>3, FoldExists, Zenon
<1>7. IsIt(f)
  <2>1. ASSUME NEW S \in SUBSET (1..n)
        PROVE  f[S] = IF S = {} THEN <<>> ELSE CleanStep(f[S \ {Max(S)}], p[Max(S)])
    BY <1>1, <1>4, <1>5, <1>6 DEF IsFold
  <2>2. f = [S \in SUBSET (1..n) |-> f[S]]
    BY <1>6 DEF IsFold
  <2> QED
    BY <1>1, <2>1, <2>2
<1>8. IsIt(it)
  BY <1>7
<1>9. Clean(p) = it[DOMAIN p]
  BY DEF Clean, FoldLeft, MapThenFoldSet, CleanStep
<1> HIDE DEF it
<1>10. FoldsIn(it, Paths, F, <<>>, n, p)
  <2>1. \A S \in SUBSET (1..n) :
            it[S] = IF S = {} THEN <<>> ELSE CleanStep(it[S \ {Max(S)}], p[Max(S)])
    BY <1>1, <1>8
  <2> QED
    BY <1>1, <1>4, <1>5, <2>1 DEF FoldsIn
<1>11. FoldReaches(it[1..n], Paths, F, <<>>, n, p)
  <2>1. n \in Nat /\ <<>> \in Paths
    BY <1>1
  <2>2. p \in [1..n -> STRING]
    BY <1>1
  <2> QED
    BY <1>3, <1>10, <2>1, <2>2, FoldSteps, Zenon
<1>12. it[1..n] \in Paths
  BY <1>1, <1>11 DEF FoldReaches, IsRun
<1> QED
  BY <1>1, <1>9, <1>12

LEMMA PathDirTyped ==
    ASSUME NEW p \in Paths
    PROVE  PathDir(p) \in Paths
<1>1. Front(p) \in Paths
  BY FrontTyped, Zenon DEF Paths
<1> QED
  BY <1>1, CleanTyped DEF PathDir

(* The path of a directory, and an entry of a set of directories. *)
LEMMA PeTyped ==
    ASSUME NEW d \in Directories, NEW rd \in Paths
    PROVE  Pe(d, rd) \in PathEntries
<1> DEFINE origin == d.tok = "$"
<1>1. d.p \in Paths
  BY DEF Directories
<1>2. rd \o d.p \in Paths
  BY <1>1 DEF Paths
<1>4. Pe(d, rd) = [path |-> IF origin THEN rd \o d.p ELSE d.p,
                   origin |-> origin, class |-> None]
  BY DEF Pe
<1>5. origin \in BOOLEAN
  OBVIOUS
<1> HIDE DEF origin
<1>6. PICK path \in Paths : path = IF origin THEN rd \o d.p ELSE d.p
  BY <1>1, <1>2
<1> QED
  BY <1>4, <1>5, <1>6 DEF PathEntries, Classes

(* One step of pathset.add; no path is added twice. *)
PathStep(rd, r, d) ==
    IF d.tok = "" \/ \E i \in DOMAIN r : r[i].path = Pe(d, rd).path
    THEN r ELSE Append(r, Pe(d, rd))

LEMMA PathStepTyped ==
    ASSUME NEW rd \in Paths, NEW r \in PathSets, NEW d \in Directories
    PROVE  PathStep(rd, r, d) \in PathSets
<1>1. PICK e \in PathEntries : e = Pe(d, rd)
  BY PeTyped
<1>2. r \in Seq(PathEntries) /\ Once(r)
  BY DEF PathSets
<1>3. CASE \E i \in DOMAIN r : r[i].path = e.path
  BY <1>1, <1>3 DEF PathStep
<1>4. CASE ~\E i \in DOMAIN r : r[i].path = e.path
  <2>1. PICK s : s = Append(r, e)
    OBVIOUS
  <2>2. /\ s \in Seq(PathEntries) /\ Len(s) = Len(r) + 1 /\ s[Len(r) + 1] = e
        /\ \A i \in 1..Len(r) : s[i] = r[i]
    BY <1>2, <2>1
  <2>3. ASSUME NEW i \in DOMAIN s, NEW j \in DOMAIN s, s[i].path = s[j].path PROVE i = j
    <3>1. i \in 1..(Len(r) + 1) /\ j \in 1..(Len(r) + 1) /\ Len(r) \in Nat /\ DOMAIN r = 1..Len(r)
      BY <1>2, <2>2
    <3>2. CASE i \in 1..Len(r) /\ j \in 1..Len(r)
      BY <1>2, <2>2, <2>3, <3>1, <3>2 DEF Once
    <3>3. CASE i \in 1..Len(r) /\ j = Len(r) + 1
      BY <1>4, <2>2, <2>3, <3>1, <3>3
    <3>4. CASE i = Len(r) + 1 /\ j \in 1..Len(r)
      <4>1. r[j].path = e.path
        BY <2>2, <2>3, <3>4
      <4> QED
        BY <1>4, <3>1, <3>4, <4>1
    <3> QED
      BY <3>1, <3>2, <3>3, <3>4
  <2>4. s \in PathSets
    BY <2>2, <2>3 DEF PathSets, Once
  <2>5. PathStep(rd, r, d) \in {r, s}
    BY <1>1, <2>1, Zenon DEF PathStep
  <2> QED
    BY <2>4, <2>5
<1> QED
  BY <1>3, <1>4

(* pathset.add makes a set of a set. *)
LEMMA PathAddTyped ==
    ASSUME NEW set \in PathSets, NEW rd \in Paths, NEW ds \in Seq(Directories)
    PROVE  PathAdd(set, rd, ds) \in PathSets
<1> DEFINE n == Len(ds)
           IsIt(it) == it = [S \in SUBSET DOMAIN ds |->
                               IF S = {} THEN set ELSE PathStep(rd, it[S \ {Max(S)}], ds[Max(S)])]
           it == CHOOSE f : IsIt(f)
<1>1. n \in Nat /\ ds \in [1..n -> Directories] /\ DOMAIN ds = 1..n
  OBVIOUS
<1>2. PICK F : F = [x \in PathSets \X Directories |-> PathStep(rd, x[1], x[2])]
  OBVIOUS
<1>3. F \in [PathSets \X Directories -> PathSets]
  BY <1>2, PathStepTyped
<1>4. ASSUME NEW r \in PathSets, NEW d \in Directories PROVE F[<<r, d>>] = PathStep(rd, r, d)
  BY <1>2
<1>5. \A S \in SUBSET (1..n) : S # {} => Max(S) \in 1..n /\ S \ {Max(S)} \in SUBSET (1..n)
  BY <1>1, MaxIs
<1> HIDE DEF n
<1>6. PICK f : IsFold(f, PathSets, F, set, n, ds)
  BY <1>1, <1>3, FoldExists, Zenon
<1>7. IsIt(f)
  <2>1. ASSUME NEW S \in SUBSET (1..n)
        PROVE  f[S] = IF S = {} THEN set ELSE PathStep(rd, f[S \ {Max(S)}], ds[Max(S)])
    BY <1>1, <1>4, <1>5, <1>6 DEF IsFold
  <2>2. f = [S \in SUBSET (1..n) |-> f[S]]
    BY <1>6 DEF IsFold
  <2> QED
    BY <1>1, <2>1, <2>2
<1>8. IsIt(it)
  BY <1>7
<1>9. PathAdd(set, rd, ds) = it[DOMAIN ds]
  BY DEF PathAdd, FoldLeft, MapThenFoldSet, PathStep
<1> HIDE DEF it
<1>10. FoldsIn(it, PathSets, F, set, n, ds)
  <2>1. \A S \in SUBSET (1..n) :
            it[S] = IF S = {} THEN set ELSE PathStep(rd, it[S \ {Max(S)}], ds[Max(S)])
    BY <1>1, <1>8
  <2> QED
    BY <1>1, <1>4, <1>5, <2>1 DEF FoldsIn
<1>11. FoldReaches(it[1..n], PathSets, F, set, n, ds)
  <2>1. n \in Nat
    BY <1>1
  <2>2. ds \in [1..n -> Directories]
    BY <1>1
  <2> QED
    BY <1>3, <1>10, <2>1, <2>2, FoldSteps, Zenon
<1>12. it[1..n] \in PathSets
  BY <1>1, <1>11 DEF FoldReaches, IsRun
<1> QED
  BY <1>1, <1>9, <1>12
-----------------------------------------------------------------------------
(* The files the calls have open. *)
OpenOf(s) == FoldLeft(LAMBDA n, c : n + c.open, 0, s)

LEMMA OpenRun ==
    ASSUME NEW D, \A c \in D : c.open \in Nat, NEW s \in Seq(D)
    PROVE  FoldReaches(OpenOf(s), Nat, [x \in Nat \X D |-> x[1] + x[2].open], 0, Len(s), s)
<1> DEFINE n == Len(s)
           IsIt(it) == it = [S \in SUBSET DOMAIN s |->
                               IF S = {} THEN 0 ELSE it[S \ {Max(S)}] + s[Max(S)].open]
           it == CHOOSE f : IsIt(f)
<1>1. n \in Nat /\ s \in [1..n -> D] /\ DOMAIN s = 1..n
  OBVIOUS
<1>2. PICK F : F = [x \in Nat \X D |-> x[1] + x[2].open]
  OBVIOUS
<1>3. F \in [Nat \X D -> Nat]
  BY <1>2
<1>4. ASSUME NEW r \in Nat, NEW c \in D PROVE F[<<r, c>>] = r + c.open
  BY <1>2
<1>5. \A S \in SUBSET (1..n) : S # {} => Max(S) \in 1..n /\ S \ {Max(S)} \in SUBSET (1..n)
  BY <1>1, MaxIs
<1> HIDE DEF n
<1>6. PICK f : IsFold(f, Nat, F, 0, n, s)
  BY <1>1, <1>3, FoldExists, Zenon
<1>7. IsIt(f)
  <2>1. ASSUME NEW S \in SUBSET (1..n)
        PROVE  f[S] = IF S = {} THEN 0 ELSE f[S \ {Max(S)}] + s[Max(S)].open
    BY <1>1, <1>4, <1>5, <1>6 DEF IsFold
  <2>2. f = [S \in SUBSET (1..n) |-> f[S]]
    BY <1>6 DEF IsFold
  <2> QED
    BY <1>1, <2>1, <2>2
<1>8. IsIt(it)
  BY <1>7
<1>9. OpenOf(s) = it[DOMAIN s]
  BY DEF OpenOf, FoldLeft, MapThenFoldSet
<1> HIDE DEF it
<1>10. FoldsIn(it, Nat, F, 0, n, s)
  <2>1. \A S \in SUBSET (1..n) :
            it[S] = IF S = {} THEN 0 ELSE it[S \ {Max(S)}] + s[Max(S)].open
    BY <1>1, <1>8
  <2> QED
    BY <1>1, <1>4, <1>5, <2>1 DEF FoldsIn
<1>11. FoldReaches(it[1..n], Nat, F, 0, n, s)
  <2>1. n \in Nat
    BY <1>1
  <2>2. s \in [1..n -> D]
    BY <1>1
  <2> QED
    BY <1>3, <1>10, <2>1, <2>2, FoldSteps, Zenon
<1> QED
  BY <1>1, <1>2, <1>9, <1>11 DEF n

(* The first call's, and those of the calls after it. *)
LEMMA OpenCons ==
    ASSUME NEW D, \A x \in D : x.open \in Nat, NEW s \in Seq(D), NEW c \in D
    PROVE  OpenOf(s) \in Nat /\ OpenOf(<<c>> \o s) = c.open + OpenOf(s)
<1>1. PICK n \in Nat : n = Len(s)
  OBVIOUS
<1>2. PICK F : F = [x \in Nat \X D |-> x[1] + x[2].open]
  OBVIOUS
<1>3. PICK t : t = <<c>> \o s
  OBVIOUS
<1>13. t \in Seq(D)
  <2>1. <<c>> \in Seq(D)
    OBVIOUS
  <2> QED
    BY <1>3, <2>1
<1>14. PICK m \in Nat : m = n + 1
  OBVIOUS
<1>4. Len(t) = n + 1 /\ t[1] = c /\ \A k \in 1..n : t[k + 1] = s[k]
  BY <1>1, <1>3
<1>5. PICK g : IsRun(g, Nat, F, 0, n, s) /\ OpenOf(s) = g[n]
  BY <1>1, <1>2, OpenRun DEF FoldReaches
<1>6. PICK h : IsRun(h, Nat, F, 0, m, t) /\ OpenOf(t) = h[m]
  <2>1. FoldReaches(OpenOf(t), Nat, F, 0, Len(t), t)
    BY <1>2, <1>13, OpenRun
  <2> QED
    BY <1>4, <1>14, <2>1 DEF FoldReaches
<1>7. ASSUME NEW r \in Nat, NEW x \in D PROVE F[<<r, x>>] = r + x.open
  BY <1>2
<1>8. /\ g \in [0..n -> Nat] /\ g[0] = 0
      /\ \A k \in 0..n-1 : g[k + 1] = g[k] + s[k + 1].open
  <2>1. \A k \in 0..n-1 : k \in 0..n /\ k + 1 \in 1..n /\ s[k + 1] \in D
    BY <1>1
  <2> QED
    BY <1>5, <1>7, <2>1 DEF IsRun
<1>9. /\ h \in [0..(n + 1) -> Nat] /\ h[0] = 0
      /\ \A k \in 0..n : h[k + 1] = h[k] + t[k + 1].open
  <2>1. \A k \in 0..n : k \in 0..m /\ k + 1 \in 1..m /\ t[k + 1] \in D
    BY <1>4, <1>13, <1>14
  <2>2. m - 1 = n /\ m = n + 1
    BY <1>14
  <2> QED
    BY <1>6, <1>7, <2>1, <2>2 DEF IsRun
<1> DEFINE good == {k \in Nat : k <= n => h[k + 1] = c.open + g[k]}
<1>10. 0 \in good
  <2>1. h[1] = h[0] + t[1].open
    BY <1>9
  <2> QED
    BY <1>4, <1>8, <1>9, <2>1
<1>11. ASSUME NEW k \in Nat, k \in good PROVE k + 1 \in good
  <2>1. SUFFICES ASSUME k + 1 <= n PROVE h[(k + 1) + 1] = c.open + g[k + 1]
    OBVIOUS
  <2>2. h[k + 1] = c.open + g[k] /\ k \in 0..n-1 /\ k + 1 \in 0..n /\ k + 1 \in 1..n
    BY <1>11, <2>1
  <2>3. h[(k + 1) + 1] = h[k + 1] + t[(k + 1) + 1].open
    BY <1>9, <2>2
  <2>4. g[k + 1] = g[k] + s[k + 1].open
    BY <1>8, <2>2
  <2>5. t[(k + 1) + 1] = s[k + 1] /\ g[k] \in Nat
    BY <1>4, <1>8, <2>2
  <2>7. s[k + 1] \in D /\ c.open \in Nat
    BY <1>1, <2>2
  <2>6. s[k + 1].open \in Nat
    BY <2>7
  <2> QED
    BY <2>2, <2>3, <2>4, <2>5, <2>6, <2>7
<1>12. n \in good
  <2> HIDE DEF good
  <2> QED
    BY <1>10, <1>11, SetInduction
<1> QED
  BY <1>3, <1>5, <1>6, <1>8, <1>12, <1>14
-----------------------------------------------------------------------------
(* The state of ReadConfig: the calls of ldglob under way, each with lines of
   the configuration that are left and directories it has found. *)
CallOK(c) ==
    /\ c = [files |-> c.files, open |-> c.open, dir |-> c.dir, lines |-> c.lines,
            seen |-> c.seen, out |-> c.out]
    /\ c.open \in Nat
    /\ c.lines \in Seq(ConfLines(world)) /\ c.out \in Seq(ConfDirs(world))

CallsOK(s) ==
    /\ s \in Seq(Range(s)) /\ \A c \in Range(s) : CallOK(c)
    /\ OpenOf(s) <= MaxOpen

ConfInv ==
    /\ world \in Worlds
    /\ CallsOK(calls) /\ (conf = "read" => calls # <<>>)
    /\ ldconf \in Seq(ConfDirs(world)) /\ conf \in {"read", "ok", "failed"}

Before == {"idle", "find", "load", "class"}
Searching == {"search", "exists", "try"}
Pcs == Before \cup {"enter", "needed", "done"} \cup Searching

Contexts ==
    [pc : Pcs, file : Paths, at : Paths, f : Handles \cup {<<>>}, class : Classes,
     ldconf : PathSets, ret : SUBSET Paths, err : SUBSET Libs, stack : Seq(Frames),
     lib : Libs \cup {<<>>}, queue : Seq(PathEntries) \cup Seq(Paths),
     list : {"", "paths", "ldconf", "default"},
     res : {"", "ok", "missing", "error", "nolib"}]

Stands(name, real) == Opens(name).err = "ok" /\ Opens(name).f.real = real
HandleOf(name, f) ==
    /\ f \in Handles /\ f.name = name /\ Stands(name, f.real)
    /\ f.interp \in {<<>>, Elf(f).interp}

(* What is known of a goroutine by the place it is at. *)
PlaceOK(c) ==
    /\ c.pc \in Before => c.ret = {} /\ c.stack = <<>> /\ c.err = {}
    /\ c.res = "" <=> c.pc # "done"
    /\ c.pc = "find" => c.queue \in Seq(Paths)
    /\ c.pc \in {"class", "enter"} => HandleOf(c.at, c.f)
    /\ c.pc = "class" => c.at = c.file
    /\ c.pc \in Searching => c.queue \in Seq(PathEntries) /\ c.lib \in Libs
    /\ c.pc = "try" => c.queue # <<>> /\ c.at \notin c.ret /\ IsSuffix(c.lib.p, c.at)
    /\ c.pc = "exists" => c.at \in c.ret /\ IsSuffix(c.lib.p, c.at)
    /\ c.pc = "enter" => c.at = c.file \/ c.file \in c.ret
    /\ c.pc \in {"needed"} \cup Searching => c.file \in c.ret
    /\ c.res \in {"ok", "missing"} => c.stack = <<>>
    /\ c.res = "ok" => c.err = {}
    /\ \A i \in DOMAIN c.stack : c.stack[i].file \in c.ret

(* A library is in the set, or is about to be: it is missing, or it is looked
   for, or it has been found, or the call of resolv for the file has it left. *)
Found1(c, lib) == \E file \in c.ret : IsSuffix(lib.p, file)
LeftOf(needed, left) == {i \in DOMAIN needed : \E m \in 0..i-1 : left = SubSeq(needed, m + 1, Len(needed))}
Awaited(c, file, needed, i) ==
    \/ Found1(c, needed[i]) \/ needed[i] \in c.err
    \/ c.pc \in {"search", "try"} /\ c.lib = needed[i]
    \/ c.pc = "enter" /\ IsSuffix(needed[i].p, c.at)
    \/ \E k \in DOMAIN c.stack : c.stack[k].file = file /\ i \in LeftOf(needed, c.stack[k].needed)

IsInterp(file) == \E x \in Range(ElfFiles) : file = Prefix \o x.interp
Counts(needed, i) == \A j \in 1..i : needed[j] # Lib(LibcSo)

NeedsOK(c) ==
    c.res # "error" =>
        \A file \in c.ret : ~IsInterp(file) =>
            /\ Opens(file).err = "ok"
            /\ LET needed == Elf(Opens(file).f).needed
               IN \A i \in DOMAIN needed : Counts(needed, i) => Awaited(c, file, needed, i)

JobInv(c) == c \in Contexts /\ PlaceOK(c) /\ NeedsOK(c)

(* The interpreter of a file is kept, unless another program has the file as a
   library. *)
AsLib(name) == \E u \in Jobs : ctx[u].file # name /\ name \in ctx[u].ret
KnowsInterp(f) == f.interp = Elf(f).interp
HasInterp(c) == LET interp == Elf(Opens(c.file).f).interp
                IN interp = <<>> \/ Prefix \o interp \in c.ret
InterpOK(c) ==
    /\ c.pc = "class" => c.f.open \/ KnowsInterp(c.f) \/ AsLib(c.file)
    /\ c.pc = "enter" /\ c.at = c.file => KnowsInterp(c.f) \/ AsLib(c.file)
    /\ c.pc \in {"enter", "needed"} \cup Searching \/ c.res \in {"ok", "missing"} =>
          HasInterp(c) \/ AsLib(c.file)

CacheInv ==
    \A name \in DOMAIN loaded : HandleOf(name, loaded[name]) /\ ~loaded[name].open
JobsInv == ctx \in [Jobs -> Contexts] /\ \A t \in Jobs : JobInv(ctx[t])
InterpInv ==
    /\ \A name \in DOMAIN loaded : KnowsInterp(loaded[name]) \/ AsLib(name)
    /\ \A t \in Jobs : InterpOK(ctx[t])

(* What an i line has left to look at. *)
FindOK(t, c) ==
    c.pc \in {"idle", "find"} =>
        /\ c.file = world.jobs[t].file
        /\ c.pc = "find" => /\ world.jobs[t].find
                           /\ c.queue \in Seq(ConfDirs(world) \cup Range(DefaultLibs))
FindInv == \A t \in Jobs : FindOK(t, ctx[t])

Inv == /\ FindInv
       /\ ConfInv /\ CacheInv /\ JobsInv /\ InterpInv
       /\ class \in Classes /\ crashed \in BOOLEAN
-----------------------------------------------------------------------------
(* ReadConfig *)

LEMMA HeadAndTail ==
    ASSUME NEW D, NEW s \in Seq(D), s # <<>>
    PROVE  /\ Head(s) \in D /\ Tail(s) \in Seq(D) /\ Head(s) = s[1] /\ 1 \in DOMAIN s
           /\ s = <<Head(s)>> \o Tail(s)
           /\ \A x : [s EXCEPT ![1] = x] = <<x>> \o Tail(s)
<1>1. Head(s) \in D /\ Tail(s) \in Seq(D) /\ Head(s) = s[1] /\ 1 \in DOMAIN s
  OBVIOUS
<1>2. s = <<Head(s)>> \o Tail(s)
  OBVIOUS
<1>3. ASSUME NEW x PROVE [s EXCEPT ![1] = x] = <<x>> \o Tail(s)
  OBVIOUS
<1> QED
  BY <1>1, <1>2, <1>3

(* Calls in a set of good ones. *)
LEMMA CallsOf ==
    ASSUME NEW D, \A x \in D : CallOK(x), NEW s \in Seq(D), OpenOf(s) <= MaxOpen
    PROVE  CallsOK(s)
<1>1. s \in Seq(Range(s)) /\ Range(s) \subseteq D
  BY DEF Range
<1> QED
  BY <1>1 DEF CallsOK

LEMMA NoCalls ==
    ASSUME LdConfAssumption
    PROVE  OpenOf(<<>>) = 0 /\ CallsOK(<<>>)
<1>1. PICK g : IsRun(g, Nat, [x \in Nat \X {} |-> x[1] + x[2].open], 0, Len(<<>>), <<>>)
               /\ OpenOf(<<>>) = g[Len(<<>>)]
  <2>1. FoldReaches(OpenOf(<<>>), Nat, [x \in Nat \X {} |-> x[1] + x[2].open], 0, Len(<<>>), <<>>)
    <3>1. <<>> \in Seq({}) /\ \A c \in {} : c.open \in Nat
      OBVIOUS
    <3> QED
      BY <3>1, OpenRun, Zenon
  <2> QED
    BY <2>1 DEF FoldReaches
<1>2. OpenOf(<<>>) = 0
  BY <1>1 DEF IsRun
<1>3. CallsOK(<<>>)
  <2>1. <<>> \in Seq({}) /\ \A c \in {} : CallOK(c)
    OBVIOUS
  <2>2. OpenOf(<<>>) <= MaxOpen
    BY <1>2, LdConfAssumption DEF LdConfAssumption
  <2> QED
    BY <2>1, <2>2, CallsOf, Zenon
<1> QED
  BY <1>2, <1>3

(* The calls with another one first. *)
LEMMA CallsCons ==
    ASSUME NEW s, CallsOK(s), s # <<>>, NEW c, CallOK(c), MaxOpen \in Nat
    PROVE  /\ CallOK(Head(s)) /\ CallsOK(Tail(s))
           /\ OpenOf(s) = Head(s).open + OpenOf(Tail(s)) /\ OpenOf(Tail(s)) \in Nat
           /\ Head(s).open \in Nat
           /\ c.open + OpenOf(Tail(s)) <= MaxOpen => CallsOK([s EXCEPT ![1] = c])
           /\ c.open + OpenOf(s) <= MaxOpen => CallsOK(<<c>> \o s)
<1> DEFINE D == Range(s) \cup {c}
<1>1. /\ \A x \in D : CallOK(x) /\ x.open \in Nat
      /\ s \in Seq(D) /\ c \in D
  <2>1. s \in Seq(Range(s)) /\ \A x \in Range(s) : CallOK(x)
    BY DEF CallsOK
  <2>2. \A x \in D : CallOK(x)
    BY <2>1
  <2>3. \A x \in D : x.open \in Nat
    BY <2>2 DEF CallOK
  <2>4. s \in Seq(D)
    BY <2>1
  <2> QED
    BY <2>2, <2>3, <2>4
<1> HIDE DEF D
<1>2. PICK h, r : h = Head(s) /\ r = Tail(s)
  OBVIOUS
<1>3. h \in D /\ r \in Seq(D) /\ s = <<h>> \o r /\ [s EXCEPT ![1] = c] = <<c>> \o r
  BY <1>1, <1>2, HeadAndTail
<1>4. OpenOf(r) \in Nat /\ OpenOf(s) = h.open + OpenOf(r) /\ OpenOf(<<c>> \o r) = c.open + OpenOf(r)
  BY <1>1, <1>3, OpenCons
<1>5. OpenOf(<<c>> \o s) = c.open + OpenOf(s)
  BY <1>1, OpenCons
<1>6. OpenOf(s) <= MaxOpen /\ h.open \in Nat
  BY <1>1, <1>3 DEF CallsOK
<1>7. CallsOK(r)
  <2>1. OpenOf(r) <= MaxOpen
    BY <1>4, <1>6
  <2> QED
    BY <1>1, <1>3, <2>1, CallsOf
<1>8. c.open + OpenOf(r) <= MaxOpen => CallsOK(<<c>> \o r)
  <2>1. <<c>> \o r \in Seq(D)
    BY <1>1, <1>3
  <2> QED
    BY <1>1, <1>4, <2>1, CallsOf
<1>9. c.open + OpenOf(s) <= MaxOpen => CallsOK(<<c>> \o s)
  <2>1. <<c>> \o s \in Seq(D)
    BY <1>1
  <2> QED
    BY <1>1, <1>5, <2>1, CallsOf
<1> QED
  BY <1>1, <1>2, <1>3, <1>4, <1>6, <1>7, <1>8, <1>9

(* A call with no lines, and one with a line less. *)
LEMMA CallIs ==
    ASSUME NEW paths
    PROVE  CallOK(Call(paths)) /\ Call(paths).open = 0
<1>1. PICK fs : fs = SelectSeq(paths, LAMBDA p : OsLstat(world.fs, p).err = "ok")
  OBVIOUS
<1>2. PICK c : c = [files |-> fs, open |-> 0, dir |-> <<>>, lines |-> <<>>, seen |-> {}, out |-> <<>>]
  OBVIOUS
<1>3. Call(paths) = c
  BY <1>1, <1>2 DEF Call
<1>4. CallOK(c) /\ c.open = 0
  BY <1>2 DEF CallOK
<1> QED
  BY <1>3, <1>4

LEMMA ConfInit ==
    ASSUME Init, LdConfAssumption
    PROVE  ConfInv
<1>1. PICK c : c = Call(<<Prefix \o LdSoConf>>)
  OBVIOUS
<1>2. CallOK(c) /\ c.open = 0
  BY <1>1, CallIs
<1>3. OpenOf(<<c>>) = 0
  <2>1. /\ <<>> \in Seq({c}) /\ c \in {c} /\ \A x \in {c} : x.open \in Nat
        /\ <<c>> \o <<>> = <<c>>
    BY <1>2
  <2>2. OpenOf(<<c>> \o <<>>) = c.open + OpenOf(<<>>)
    BY <2>1, OpenCons
  <2>3. OpenOf(<<>>) = 0
    BY NoCalls
  <2> QED
    BY <1>2, <2>1, <2>2, <2>3
<1>4. CallsOK(<<c>>)
  <2>1. <<c>> \in Seq({c}) /\ \A x \in {c} : CallOK(x)
    BY <1>2
  <2>2. OpenOf(<<c>>) <= MaxOpen
    BY <1>3, LdConfAssumption DEF LdConfAssumption
  <2> QED
    BY <2>1, <2>2, CallsOf
<1>5. calls = <<c>> /\ ldconf = <<>> /\ conf = "read" /\ world \in Worlds
  BY <1>1 DEF Init, LdInit
<1> QED
  BY <1>4, <1>5 DEF ConfInv

(* What is known of calls and directories is of the world alone. *)
LEMMA SameCalls ==
    ASSUME world' = world, NEW s
    PROVE  CallsOK(s)' <=> CallsOK(s)
BY DEF CallsOK, CallOK

LEMMA ConfSame ==
    ASSUME ConfInv, UNCHANGED lvars
    PROVE  ConfInv'
<1>1. PICK s : s = calls
  OBVIOUS
<1>2. calls' = s /\ world' = world /\ ldconf' = ldconf /\ conf' = conf
  BY <1>1 DEF lvars
<1>3. CallsOK(s)'
  BY <1>1, <1>2, SameCalls DEF ConfInv
<1>4. CallsOK(calls)'
  BY <1>2, <1>3 DEF CallsOK, CallOK
<1> QED
  BY <1>1, <1>2, <1>4 DEF ConfInv, ConfDirs, ConfLines

(* The steps of ReadConfig: what they make of the calls is of this kind. *)
LEMMA ConfTo ==
    ASSUME ConfInv, NEW s, CallsOK(s), world' = world, calls' = s,
           conf' = "read" => s # <<>>, conf' \in {"read", "ok", "failed"},
           NEW ds \in Seq(ConfDirs(world)), ldconf' = ds
    PROVE  ConfInv'
<1>1. CallsOK(s)'
  BY SameCalls
<1>2. CallsOK(calls)'
  BY <1>1 DEF CallsOK, CallOK
<1> QED
  BY <1>2 DEF ConfInv, ConfDirs, ConfLines

LEMMA LinesOf ==
    ASSUME ConfInv, WorldsAssumption, NEW file
    PROVE  (IF file \in DOMAIN world.conf THEN world.conf[file] ELSE <<>>) \in Seq(ConfLines(world))
BY DEF ConfInv, WorldsAssumption

LEMMA ConfStep ==
    ASSUME ConfInv, LdNext, LdConfAssumption, WorldsAssumption
    PROVE  ConfInv'
<1>1. MaxOpen \in Nat
  BY LdConfAssumption DEF LdConfAssumption
<1>2. Reading => calls # <<>>
  BY DEF ConfInv, Reading
<1>3. PICK top : top = Head(calls)
  OBVIOUS
<1>4. Reading => CallOK(top) /\ top.open \in Nat /\ OpenOf(Tail(calls)) \in Nat
                 /\ OpenFiles = top.open + OpenOf(Tail(calls)) /\ OpenFiles <= MaxOpen
                 /\ CallsOK(Tail(calls)) /\ 1 \in DOMAIN calls /\ calls[1] = top
  <2>1. SUFFICES ASSUME Reading PROVE
                 CallOK(top) /\ top.open \in Nat /\ OpenOf(Tail(calls)) \in Nat
                 /\ OpenFiles = top.open + OpenOf(Tail(calls)) /\ OpenFiles <= MaxOpen
                 /\ CallsOK(Tail(calls)) /\ 1 \in DOMAIN calls /\ calls[1] = top
    OBVIOUS
  <2>2. CallOK(Call(<<>>))
    BY CallIs
  <2>3. CallsOK(calls) /\ calls # <<>> /\ calls \in Seq(Range(calls))
    BY <1>2, <2>1 DEF ConfInv, CallsOK
  <2>4. /\ CallOK(Head(calls)) /\ CallsOK(Tail(calls))
        /\ OpenOf(calls) = Head(calls).open + OpenOf(Tail(calls)) /\ OpenOf(Tail(calls)) \in Nat
        /\ Head(calls).open \in Nat
    BY <1>1, <2>2, <2>3, CallsCons
  <2>5. 1 \in DOMAIN calls /\ calls[1] = Head(calls)
    BY <2>3
  <2>6. OpenFiles = OpenOf(calls) /\ OpenOf(calls) <= MaxOpen
    BY <2>3 DEF OpenFiles, OpenOf, CallsOK
  <2> QED
    BY <1>3, <2>4, <2>5, <2>6
<1>5. ldconf \in Seq(ConfDirs(world)) /\ conf \in {"read", "ok", "failed"} /\ CallsOK(calls)
  BY DEF ConfInv
<1>6. CASE Fail
  <2>1. CallsOK(<<>>)
    BY NoCalls
  <2>2. world' = world /\ calls' = <<>> /\ conf' = "failed" /\ ldconf' = ldconf
    BY <1>6 DEF Fail
  <2> QED
    BY <1>5, <2>1, <2>2, ConfTo
<1>7. CASE OpenNext
  <2>1. PICK there : there = OsStat(world.fs, Head(Top.files))
    OBVIOUS
  <2>2. PICK new : new = [top EXCEPT !.files = Tail(@), !.open = @ + 1, !.dir = Front(Head(Top.files)),
                                     !.lines = IF there.path \in DOMAIN world.conf
                                               THEN world.conf[there.path] ELSE <<>>]
    OBVIOUS
  <2>3. CASE there.err = "ok" /\ OpenFiles # MaxOpen
    <3>1. /\ calls' = [calls EXCEPT ![1].files = Tail(@), ![1].open = @ + 1,
                                    ![1].dir = Front(Head(Top.files)),
                                    ![1].lines = IF there.path \in DOMAIN world.conf
                                                 THEN world.conf[there.path] ELSE <<>>]
          /\ UNCHANGED <<world, ldconf, conf>> /\ Reading
      BY <1>7, <2>1, <2>3, Zenon DEF OpenNext
    <3>2. CallOK(new) /\ new.open = top.open + 1
      <4>1. PICK ls \in Seq(ConfLines(world)) :
                ls = IF there.path \in DOMAIN world.conf THEN world.conf[there.path] ELSE <<>>
        BY LinesOf
      <4>2. new = [files |-> Tail(top.files), open |-> top.open + 1, dir |-> Front(Head(Top.files)),
                   lines |-> ls, seen |-> top.seen, out |-> top.out]
        BY <1>4, <2>2, <3>1, <4>1 DEF CallOK
      <4> QED
        BY <1>4, <3>1, <4>2 DEF CallOK
    <3>3. calls' = [calls EXCEPT ![1] = new]
      BY <1>4, <2>2, <3>1
    <3>4. new.open + OpenOf(Tail(calls)) <= MaxOpen
      BY <1>1, <1>4, <2>3, <3>1, <3>2
    <3>5. CallsOK([calls EXCEPT ![1] = new])
      BY <1>1, <1>2, <1>5, <3>1, <3>2, <3>4, CallsCons
    <3>6. [calls EXCEPT ![1] = new] # <<>>
      BY <1>4, <3>1
    <3> QED
      BY <1>5, <3>1, <3>3, <3>5, <3>6, ConfTo
  <2> QED
    BY <1>6, <1>7, <2>1, <2>3 DEF OpenNext
<1>8. CASE ScanDir
  <2>1. PICK dir : dir = Head(Top.lines).dir
    OBVIOUS
  <2>2. PICK new : new = Take(top, dir)
    OBVIOUS
  <2>3. calls' = [calls EXCEPT ![1] = new] /\ UNCHANGED <<world, ldconf, conf>> /\ Reading
    BY <1>3, <1>8, <2>1, <2>2 DEF ScanDir, Top
  <2>4. dir \in ConfDirs(world) /\ Tail(top.lines) \in Seq(ConfLines(world))
    <3>1. top.lines \in Seq(ConfLines(world)) /\ top.lines # <<>> /\ ~Head(top.lines).include
      BY <1>3, <1>4, <1>8, <2>3 DEF ScanDir, Top, CallOK
    <3>2. Head(top.lines) \in ConfLines(world) /\ Tail(top.lines) \in Seq(ConfLines(world))
      BY <3>1
    <3> QED
      BY <1>3, <2>1, <3>1, <3>2 DEF ConfDirs, Top
  <2>5. CallOK(new) /\ new.open = top.open
    <3>1. /\ top = [files |-> top.files, open |-> top.open, dir |-> top.dir, lines |-> top.lines,
                    seen |-> top.seen, out |-> top.out]
          /\ top.open \in Nat /\ top.out \in Seq(ConfDirs(world))
      BY <1>4, <2>3 DEF CallOK
    <3>2. new \in {[top EXCEPT !.lines = Tail(@)],
                   [top EXCEPT !.lines = Tail(@), !.seen = @ \cup {dir}, !.out = Append(@, dir)]}
      BY <2>2 DEF Take
    <3>3. Append(top.out, dir) \in Seq(ConfDirs(world))
      BY <2>4, <3>1
    <3> QED
      BY <2>4, <3>1, <3>2, <3>3 DEF CallOK
  <2>6. CallsOK([calls EXCEPT ![1] = new])
    <3>1. new.open + OpenOf(Tail(calls)) <= MaxOpen
      BY <1>4, <2>3, <2>5
    <3> QED
      BY <1>1, <1>2, <1>5, <2>3, <2>5, <3>1, CallsCons
  <2>7. [calls EXCEPT ![1] = new] # <<>>
    BY <1>4, <2>3
  <2> QED
    BY <1>5, <2>3, <2>6, <2>7, ConfTo
<1>9. CASE ScanInclude
  <2>1. PICK new : new = [top EXCEPT !.lines = Tail(@)]
    OBVIOUS
  <2>2. PICK call : call = Call(Pattern(Head(Top.lines), Top.dir))
    OBVIOUS
  <2>3. /\ calls' = <<call>> \o [calls EXCEPT ![1].lines = Tail(@)]
        /\ UNCHANGED <<world, ldconf, conf>> /\ Reading /\ top.lines # <<>>
    BY <1>3, <1>9, <2>2 DEF ScanInclude, Top
  <2>4. calls' = <<call>> \o [calls EXCEPT ![1] = new]
    BY <1>4, <2>1, <2>3
  <2>5. CallOK(new) /\ new.open = top.open
    <3>1. top.lines \in Seq(ConfLines(world)) /\ Tail(top.lines) \in Seq(ConfLines(world))
      BY <1>4, <2>3 DEF CallOK
    <3> QED
      BY <1>4, <2>1, <2>3, <3>1 DEF CallOK
  <2>6. CallOK(call) /\ call.open = 0
    BY <2>2, CallIs
  <2>7. PICK s : s = [calls EXCEPT ![1] = new]
    OBVIOUS
  <2>8. CallsOK(s) /\ s # <<>>
    <3>1. new.open + OpenOf(Tail(calls)) <= MaxOpen
      BY <1>4, <2>3, <2>5
    <3>2. CallsOK(s)
      BY <1>1, <1>2, <1>5, <2>3, <2>5, <2>7, <3>1, CallsCons
    <3> QED
      BY <1>4, <2>3, <2>7, <3>2
  <2>9. CallsOK(<<call>> \o s) /\ <<call>> \o s # <<>>
    <3>1. OpenOf(s) <= MaxOpen /\ OpenOf(s) \in Nat
      <4>1. OpenOf(s) = Head(s).open + OpenOf(Tail(s)) /\ OpenOf(Tail(s)) \in Nat /\ Head(s).open \in Nat
        BY <1>1, <2>6, <2>8, CallsCons
      <4> QED
        BY <2>8, <4>1 DEF CallsOK
    <3>2. call.open + OpenOf(s) <= MaxOpen
      BY <2>6, <3>1
    <3>3. CallsOK(<<call>> \o s)
      BY <1>1, <2>6, <2>8, <3>2, CallsCons
    <3>4. s \in Seq(Range(s))
      BY <2>8 DEF CallsOK
    <3> QED
      BY <3>3, <3>4
  <2> QED
    BY <1>5, <2>3, <2>4, <2>7, <2>9, ConfTo
<1>10. CASE Return
  <2>1. CASE Len(calls) = 1
    <3>1. ldconf' = top.out /\ conf' = "ok" /\ calls' = <<>> /\ world' = world /\ Reading
      BY <1>3, <1>10, <2>1 DEF Return, Top
    <3>2. top.out \in Seq(ConfDirs(world))
      BY <1>4, <3>1 DEF CallOK
    <3>3. CallsOK(<<>>)
      BY NoCalls
    <3> QED
      BY <3>1, <3>2, <3>3, ConfTo
  <2>2. CASE Len(calls) # 1
    <3>1. /\ calls' = [Tail(calls) EXCEPT ![1].out = @ \o top.out]
          /\ UNCHANGED <<world, ldconf, conf>> /\ Reading
      BY <1>3, <1>10, <2>2 DEF Return, Top
    <3>2. PICK r : r = Tail(calls)
      OBVIOUS
    <3>3. CallsOK(r) /\ r # <<>>
      <4>1. calls \in Seq(Range(calls)) /\ calls # <<>>
        BY <1>2, <1>5, <3>1 DEF CallsOK
      <4>2. r # <<>>
        <5>1. Len(calls) \in Nat /\ Len(calls) # 0 /\ Len(Tail(calls)) = Len(calls) - 1
          BY <4>1
        <5>2. Len(r) # 0
          BY <2>2, <3>2, <5>1
        <5>3. Len(<<>>) = 0
          OBVIOUS
        <5> QED
          BY <5>2, <5>3, Zenon
      <4> QED
        BY <1>4, <3>1, <3>2, <4>2
    <3>4. PICK c : c = Head(r)
      OBVIOUS
    <3>5. PICK new : new = [c EXCEPT !.out = @ \o top.out]
      OBVIOUS
    <3>6. CallOK(c) /\ OpenOf(r) = c.open + OpenOf(Tail(r)) /\ OpenOf(r) <= MaxOpen
      <4>1. CallOK(top)
        BY <1>4, <3>1
      <4> QED
        BY <1>1, <3>3, <3>4, <4>1, CallsCons DEF CallsOK
    <3>7. CallOK(new) /\ new.open = c.open
      <4>1. c.out \in Seq(ConfDirs(world)) /\ top.out \in Seq(ConfDirs(world))
        BY <1>4, <3>1, <3>6 DEF CallOK
      <4>2. c.out \o top.out \in Seq(ConfDirs(world))
        BY <4>1
      <4> QED
        BY <3>5, <3>6, <4>2 DEF CallOK
    <3>8. CallsOK([r EXCEPT ![1] = new])
      <4>1. new.open + OpenOf(Tail(r)) <= MaxOpen
        BY <3>6, <3>7
      <4> QED
        BY <1>1, <3>3, <3>7, <4>1, CallsCons
    <3>9. r \in Seq(Range(r)) /\ 1 \in DOMAIN r /\ r[1] = c
      <4>1. r \in Seq(Range(r))
        BY <3>3 DEF CallsOK
      <4> QED
        BY <3>3, <3>4, <4>1
    <3>10. calls' = [r EXCEPT ![1] = new]
      BY <3>1, <3>2, <3>5, <3>9
    <3>11. [r EXCEPT ![1] = new] # <<>>
      BY <3>9
    <3> QED
      BY <1>5, <3>1, <3>8, <3>10, <3>11, ConfTo
  <2> QED
    BY <2>1, <2>2
<1> QED
  BY <1>7, <1>8, <1>9, <1>10 DEF LdNext
-----------------------------------------------------------------------------
(* The loader *)

(* What it opens is a handle of the file that the name stands for. *)
LEMMA OpensIs ==
    ASSUME ElfAssumption, NEW name \in Paths, Opens(name).err = "ok"
    PROVE  HandleOf(name, Opens(name).f) /\ Opens(name).f.open
<1>1. PICK e : e = IF Prefix = <<>> THEN [s |-> name, err |-> "ok"] ELSE Expand(world.fs, name)
  OBVIOUS
<1>2. PICK there : there = IF e.err = "ok" THEN OsStat(world.fs, e.s) ELSE NotFound(e.err)
  OBVIOUS
<1>3. PICK o : o = Opens(name)
  OBVIOUS
<1>4. o = Opened(name, there)
  BY <1>1, <1>2, <1>3 DEF Opens, OpenAt
<1>5. PICK f : f = [name |-> name, real |-> there.path, interp |-> <<>>, open |-> TRUE]
  OBVIOUS
<1>6. \/ \E err \in {"none", "other", "format"} : o = [err |-> err]
      \/ there.path \in DOMAIN ElfFiles /\ o = [err |-> "ok", f |-> f]
  BY <1>4, <1>5 DEF Opened, Fails
<1>7. there.path \in DOMAIN ElfFiles /\ o.f = f
  BY <1>3, <1>6
<1>8. <<>> \in Paths
  BY DEF Paths
<1>9. f \in Handles /\ f.name = name /\ f.real = there.path /\ f.interp = <<>> /\ f.open
  BY <1>5, <1>7, <1>8 DEF Handles
<1> QED
  BY <1>3, <1>7, <1>9 DEF HandleOf, Stands

LEMMA LoaderIs ==
    ASSUME ElfAssumption, CacheInv, InterpInv, NEW name \in Paths,
           NEW l, l = Loader(name), l.err = "ok"
    PROVE  /\ HandleOf(name, l.f) /\ (l.f.open \/ KnowsInterp(l.f) \/ AsLib(name))
           /\ Opens(name).err = "ok" /\ Elf(Opens(name).f) = Elf(l.f)
           /\ Elf(l.f).class \in {32, 64}
<1>1. CASE name \in DOMAIN loaded
  <2>1. l.f = loaded[name]
    BY <1>1 DEF Loader
  <2>2. HandleOf(name, l.f) /\ (KnowsInterp(l.f) \/ AsLib(name))
    BY <1>1, <2>1 DEF CacheInv, InterpInv
  <2>3. l.f.real \in DOMAIN ElfFiles
    BY <2>2 DEF HandleOf, Handles
  <2> QED
    BY <2>2, <2>3, ElfAssumption DEF HandleOf, Stands, Elf, ElfAssumption
<1>2. CASE name \notin DOMAIN loaded
  <2>1. l = Opens(name)
    BY <1>2 DEF Loader
  <2>2. HandleOf(name, l.f) /\ l.f.open
    BY <2>1, OpensIs
  <2>3. l.f.real \in DOMAIN ElfFiles
    BY <2>2 DEF HandleOf, Handles
  <2> QED
    BY <2>1, <2>2, <2>3, ElfAssumption DEF Elf, ElfAssumption
<1> QED
  BY <1>1, <1>2

(* What the ELF file of a handle says. *)
LEMMA ElfTyped ==
    ASSUME ElfAssumption, NEW f \in Handles
    PROVE  /\ Elf(f).class \in {32, 64} /\ Elf(f).interp \in Paths /\ Elf(f).needed \in Seq(Libs)
           /\ Elf(f).rpath \in Seq(Directories) /\ Elf(f).runpath \in Seq(Directories)
<1>1. f.real \in DOMAIN ElfFiles
  BY DEF Handles
<1> QED
  BY <1>1, ElfAssumption DEF ElfAssumption, Elf

-----------------------------------------------------------------------------
(* Directories and paths *)

LEMMA MkpeTyped ==
    ASSUME NEW ds \in Seq(Directories), NEW rd \in Paths
    PROVE  Mkpe(ds, rd) \in Seq(PathEntries)
<1>1. \A i \in DOMAIN ds : Pe(ds[i], rd) \in PathEntries
  <2>1. \A i \in DOMAIN ds : ds[i] \in Directories
    OBVIOUS
  <2> QED
    BY <2>1, PeTyped
<1>2. DOMAIN ds = 1..Len(ds) /\ Len(ds) \in Nat
  OBVIOUS
<1> QED
  BY <1>1, <1>2 DEF Mkpe

LEMMA AbsoluteTyped ==
    ASSUME NEW paths \in Seq(Paths)
    PROVE  Absolute(paths) \in Seq(Directories)
<1>1. ASSUME NEW p \in Paths PROVE Directory("/", p) \in Directories
  BY DEF Directory, Directories
<1>2. \A i \in 1..Len(paths) : paths[i] \in Paths
  OBVIOUS
<1>3. DOMAIN paths = 1..Len(paths) /\ Len(paths) \in Nat
  OBVIOUS
<1>4. \A i \in 1..Len(paths) : Directory("/", paths[i]) \in Directories
  BY <1>1, <1>2
<1> QED
  BY <1>3, <1>4 DEF Absolute

(* pathset.set changes classes alone. *)
LEMMA PathSetTyped ==
    ASSUME NEW set \in PathSets, NEW path, NEW c \in Classes
    PROVE  PathSet(set, path, c) \in PathSets
<1>1. PICK r : r = PathSet(set, path, c)
  OBVIOUS
<1>2. set \in Seq(PathEntries) /\ Once(set)
  BY DEF PathSets
<1>3. DOMAIN set = 1..Len(set) /\ Len(set) \in Nat
  BY <1>2
<1>4. ASSUME NEW i \in 1..Len(set) PROVE r[i] \in PathEntries /\ r[i].path = set[i].path
  <2>1. set[i] \in PathEntries
    BY <1>2
  <2>2. [set[i] EXCEPT !.class = c] \in PathEntries /\ [set[i] EXCEPT !.class = c].path = set[i].path
    BY <2>1 DEF PathEntries
  <2>3. r[i] = IF set[i].path = path THEN [set[i] EXCEPT !.class = c] ELSE set[i]
    BY <1>1, <1>3 DEF PathSet
  <2> QED
    BY <2>1, <2>2, <2>3
<1>5. r \in Seq(PathEntries)
  <2>1. r = [i \in 1..Len(set) |-> r[i]]
    BY <1>1, <1>3 DEF PathSet
  <2> QED
    BY <1>3, <1>4, <2>1
<1>6. Once(r)
  <2>1. DOMAIN r = DOMAIN set
    BY <1>1 DEF PathSet
  <2> QED
    BY <1>2, <1>3, <1>4, <2>1 DEF Once
<1> QED
  BY <1>1, <1>5, <1>6 DEF PathSets

LEMMA SuffixOf ==
    ASSUME NEW T, NEW a \in Seq(T), NEW b \in Seq(T)
    PROVE  IsSuffix(b, a \o b)
<1>1. PICK s : s = a \o b /\ s \in Seq(T)
  <2>1. a \o b \in Seq(T)
    OBVIOUS
  <2> QED
    BY <2>1
<1>2. Len(a) \in Nat /\ Len(b) \in Nat /\ Len(s) = Len(a) + Len(b)
  BY <1>1
<1>3. \A i \in 1..Len(b) : s[(Len(s) - i) + 1] = b[(Len(b) - i) + 1]
  BY <1>1, <1>2
<1>4. PICK rb, rs : rb = Reverse(b) /\ rs = Reverse(s)
  OBVIOUS
<1>5. /\ rb \in Seq(T) /\ rs \in Seq(T) /\ Len(rb) = Len(b) /\ Len(rs) = Len(s)
      /\ \A i \in 1..Len(b) : rb[i] = rs[i]
  <2>1. \A i \in 1..Len(b) : (Len(b) - i) + 1 \in 1..Len(b) /\ i \in 1..Len(s)
    BY <1>2
  <2>2. \A i \in 1..Len(s) : (Len(s) - i) + 1 \in 1..Len(s)
    BY <1>2
  <2>3. rb \in Seq(T) /\ Len(rb) = Len(b)
    BY <1>2, <1>4, <2>1 DEF Reverse
  <2>4. rs \in Seq(T) /\ Len(rs) = Len(s)
    BY <1>1, <1>2, <1>4, <2>2 DEF Reverse
  <2>5. \A i \in 1..Len(b) : rb[i] = rs[i]
    BY <1>3, <1>4, <2>1 DEF Reverse
  <2> QED
    BY <2>3, <2>4, <2>5
<1>6. SubSeq(rb, 1, Len(rb)) = SubSeq(rs, 1, Len(rb))
  BY <1>2, <1>5
<1> QED
  BY <1>1, <1>2, <1>4, <1>5, <1>6 DEF IsSuffix, IsPrefix

LEMMA JoinTyped ==
    ASSUME NEW a \in Paths, NEW b \in Paths
    PROVE  a \o b \in Paths
<1>1. ASSUME NEW T, NEW s \in Seq(T), NEW t \in Seq(T) PROVE s \o t \in Seq(T)
  OBVIOUS
<1> QED
  BY <1>1, Zenon DEF Paths

LEMMA SuffixSame ==
    ASSUME NEW T, NEW b \in Seq(T)
    PROVE  IsSuffix(b, b)
<1>1. <<>> \in Seq(T) /\ <<>> \o b = b
  OBVIOUS
<1> QED
  BY <1>1, SuffixOf

(* Whatever the directory, what search1 tries there ends with the library. *)
LEMMA TryIs ==
    ASSUME ElfAssumption, NEW v \in PathEntries, NEW lib \in Libs
    PROVE  Try(v, lib) \in Paths /\ IsSuffix(lib.p, Try(v, lib))
<1>1. lib.p \in Paths /\ v.path \in Paths /\ Prefix \in Paths
  BY ElfAssumption DEF ElfAssumption, PathEntries, Libs
<1>2. PICK root \in Paths : root = Clean(Rootprefix(v))
  <2>1. Clean(Prefix \o v.path) \in Paths
    BY <1>1, JoinTyped, CleanTyped
  <2>2. Rootprefix(v) \in {v.path, Clean(Prefix \o v.path)}
    BY DEF Rootprefix
  <2>3. Clean(Rootprefix(v)) \in Paths
    BY <1>1, <2>1, <2>2, CleanTyped
  <2> QED
    BY <2>3
<1>3. root \o lib.p \in Paths
  BY <1>1, JoinTyped
<1>4. IsSuffix(lib.p, root \o lib.p) /\ IsSuffix(lib.p, lib.p)
  BY <1>1, SuffixOf, SuffixSame, ZenonT(60) DEF Paths
<1> QED
  BY <1>1, <1>2, <1>3, <1>4 DEF Try
-----------------------------------------------------------------------------
(* What is known of a goroutine depends on the world, which stays the same. *)

LEMMA SameOpens ==
    ASSUME world' = world, NEW name
    PROVE  Opens(name)' = Opens(name)
BY DEF Opens, OpenAt, Opened

LEMMA SameHandle ==
    ASSUME world' = world, NEW name, NEW f, HandleOf(name, f)
    PROVE  HandleOf(name, f)'
<1>1. Opens(name)' = Opens(name)
  BY SameOpens
<1> QED
  BY <1>1 DEF HandleOf, Stands

LEMMA SameNeeds ==
    ASSUME world' = world, NEW c, NeedsOK(c)
    PROVE  NeedsOK(c)'
<1>1. ASSUME NEW file PROVE Opens(file)' = Opens(file)
  BY SameOpens
<1> QED
  BY <1>1 DEF NeedsOK

LEMMA SameJob ==
    ASSUME world' = world, NEW c, JobInv(c)
    PROVE  JobInv(c)'
<1>1. NeedsOK(c)'
  BY SameNeeds DEF JobInv
<1>2. PlaceOK(c)'
  <2>1. HandleOf(c.at, c.f) => HandleOf(c.at, c.f)'
    BY SameHandle
  <2> QED
    BY <2>1 DEF JobInv, PlaceOK
<1> QED
  BY <1>1, <1>2 DEF JobInv

(* A goroutine keeps what it has in its set, and its file from there on. *)
Grows(c, d) == c.ret \subseteq d.ret /\ (c.ret # {} => d.file = c.file)

LEMMA AsLibStays ==
    ASSUME world' = world, NEW t \in Jobs, NEW d, ctx \in [Jobs -> Contexts],
           ctx' = [ctx EXCEPT ![t] = d], Grows(ctx[t], d), NEW name,
           AsLib(name) \/ (d.file # name /\ name \in d.ret)
    PROVE  AsLib(name)'
<1>1. Jobs' = Jobs
  BY DEF Jobs
<1>2. ctx'[t] = d
  OBVIOUS
<1>3. CASE AsLib(name)
  <2>1. PICK u \in Jobs : ctx[u].file # name /\ name \in ctx[u].ret
    BY <1>3 DEF AsLib
  <2>2. ctx'[u].file # name /\ name \in ctx'[u].ret
    <3>1. CASE u = t
      BY <1>2, <2>1, <3>1 DEF Grows
    <3>2. CASE u # t
      BY <2>1, <3>2
    <3> QED
      BY <3>1, <3>2
  <2> QED
    BY <1>1, <2>1, <2>2 DEF AsLib
<1>4. CASE d.file # name /\ name \in d.ret
  BY <1>1, <1>2, <1>4 DEF AsLib
<1> QED
  BY <1>3, <1>4

LEMMA InterpStays ==
    ASSUME world' = world, NEW c, InterpOK(c), AsLib(c.file) => AsLib(c.file)'
    PROVE  InterpOK(c)'
<1>1. Opens(c.file)' = Opens(c.file)
  BY SameOpens
<1>2. HasInterp(c)' <=> HasInterp(c)
  BY <1>1 DEF HasInterp
<1> QED
  BY <1>2 DEF InterpOK

(* A step of one goroutine keeps the invariant when it is good for what it is
   at and for what it puts in the cache. *)
LEMMA JobStep ==
    ASSUME Inv, NEW t \in Jobs, NEW d, UNCHANGED lvars, ctx' = [ctx EXCEPT ![t] = d],
           JobInv(d), InterpOK(d), FindOK(t, d), Grows(ctx[t], d),
           NEW cache, loaded' = cache,
           \A name \in DOMAIN cache :
               /\ HandleOf(name, cache[name]) /\ ~cache[name].open
               /\ KnowsInterp(cache[name]) \/ AsLib(name) \/ (d.file # name /\ name \in d.ret),
           class' \in Classes, crashed' \in BOOLEAN
    PROVE  Inv'
<1>1. world' = world /\ Jobs' = Jobs
  BY DEF lvars, Jobs
<1>2. ConfInv'
  BY ConfSame DEF Inv
<1>3. ctx \in [Jobs -> Contexts] /\ d \in Contexts
  BY DEF Inv, JobsInv, JobInv
<1>4. ctx'[t] = d /\ \A u \in Jobs \ {t} : ctx'[u] = ctx[u]
  BY <1>3
<1>5. ASSUME NEW name, AsLib(name) \/ (d.file # name /\ name \in d.ret) PROVE AsLib(name)'
  BY <1>1, <1>3, <1>5, AsLibStays
<1>6. ASSUME NEW u \in Jobs PROVE (JobInv(ctx[u]) /\ InterpOK(ctx[u]) /\ FindOK(u, ctx[u]))'
  <2>1. PICK c : c = ctx'[u]
    OBVIOUS
  <2>2. JobInv(c) /\ InterpOK(c) /\ FindOK(u, c)
    <3>1. CASE u = t
      BY <1>4, <2>1, <3>1
    <3>2. CASE u # t
      BY <1>4, <2>1, <3>2 DEF Inv, JobsInv, InterpInv, FindInv
    <3> QED
      BY <3>1, <3>2
  <2>3. JobInv(c)' /\ InterpOK(c)'
    BY <1>1, <1>5, <2>2, SameJob, InterpStays
  <2>4. FindOK(u, c)'
    BY <1>1, <2>2 DEF FindOK
  <2> QED
    BY <2>1, <2>3, <2>4
<1>7. JobsInv' /\ FindInv'
  <2>1. ctx' \in [Jobs -> Contexts]
    BY <1>3
  <2> QED
    BY <1>1, <1>6, <2>1 DEF JobsInv, FindInv
<1>8. ASSUME NEW name \in DOMAIN cache
      PROVE  HandleOf(name, cache[name])' /\ ~cache[name].open
             /\ (KnowsInterp(cache[name]) \/ AsLib(name)')
  <2>1. HandleOf(name, cache[name])'
    BY <1>1, SameHandle
  <2> QED
    BY <1>5, <2>1
<1>9. CacheInv' /\ InterpInv'
  BY <1>1, <1>6, <1>8 DEF CacheInv, InterpInv, KnowsInterp, Elf, HandleOf, Stands
<1> QED
  BY <1>2, <1>7, <1>9 DEF Inv
-----------------------------------------------------------------------------
(* What each step makes of what a goroutine is at. *)

JobOK(t, c) == JobInv(c) /\ InterpOK(c) /\ FindOK(t, c)

LEMMA EmptyDomain == DOMAIN <<>> = {}
OBVIOUS

(* Before the class is set a goroutine has found nothing. *)
LEMMA NothingYet ==
    ASSUME NEW t, NEW d \in Contexts, d.ret = {}, d.stack = <<>>, d.err = {},
           d.pc \in Before \cup {"done"}, d.res \notin {"ok", "missing"}, d.res = "" <=> d.pc # "done",
           d.pc = "find" => d.queue \in Seq(Paths), FindOK(t, d),
           d.pc = "class" => /\ HandleOf(d.at, d.f) /\ d.at = d.file
                             /\ d.f.open \/ KnowsInterp(d.f) \/ AsLib(d.file)
    PROVE  JobOK(t, d)
<1>1. PlaceOK(d)
  <2>1. d.pc \in {"idle", "find", "load", "class", "done"}
    BY DEF Before
  <2>2. d.pc \notin Searching /\ d.pc # "try" /\ d.pc # "exists" /\ d.pc # "enter" /\ d.pc # "needed"
    BY <2>1 DEF Searching
  <2>3. DOMAIN d.stack = {}
    BY EmptyDomain, Zenon
  <2>4. d.pc \in {"class", "enter"} => d.pc = "class"
    BY <2>2
  <2> QED
    BY <2>2, <2>3, <2>4, Zenon DEF PlaceOK
<1>2. NeedsOK(d)
  BY DEF NeedsOK
<1>3. InterpOK(d)
  BY DEF InterpOK, Before, Searching
<1> QED
  BY <1>1, <1>2, <1>3 DEF JobOK, JobInv

LEMMA BeforeIs ==
    ASSUME NEW c, JobInv(c), c.pc \in Before
    PROVE  c \in Contexts /\ c.ret = {} /\ c.stack = <<>> /\ c.err = {} /\ c.res = ""
BY DEF JobInv, PlaceOK, Before, Contexts

LEMMA StartLineOK ==
    ASSUME NEW t, NEW c, JobOK(t, c), c.pc = "idle", WorldsAssumption, ElfAssumption,
           world \in Worlds, t \in Jobs, ldconf \in Seq(ConfDirs(world)),
           NEW d, d = IF world.jobs[t].find
                      THEN [c EXCEPT !.pc = "find", !.queue = ldconf \o DefaultLibs]
                      ELSE [c EXCEPT !.pc = "load"]
    PROVE  JobOK(t, d) /\ Grows(c, d)
<1>1. c \in Contexts /\ c.ret = {} /\ c.stack = <<>> /\ c.err = {} /\ c.res = ""
  BY BeforeIs DEF JobOK, Before
<1>2. PICK q : q = ldconf \o DefaultLibs
  OBVIOUS
<1>3. q \in Seq(ConfDirs(world) \cup Range(DefaultLibs)) /\ q \in Seq(Paths)
  <2>1. ConfDirs(world) \subseteq Paths
    BY WorldsAssumption DEF WorldsAssumption
  <2>2. DefaultLibs \in Seq(Paths) /\ Range(DefaultLibs) \subseteq Paths /\ DefaultLibs \in Seq(Range(DefaultLibs))
    BY ElfAssumption DEF ElfAssumption, Range
  <2>3. PICK S : S = ConfDirs(world) \cup Range(DefaultLibs)
    OBVIOUS
  <2>4. ldconf \in Seq(S) /\ DefaultLibs \in Seq(S) /\ S \subseteq Paths
    BY <2>1, <2>2, <2>3
  <2>5. q \in Seq(S)
    BY <1>2, <2>4
  <2>6. q \in Seq(Paths)
    BY <2>4, <2>5
  <2> QED
    BY <2>3, <2>5, <2>6
<1>4. c.file = world.jobs[t].file
  BY DEF JobOK, FindOK
<1>5. CASE world.jobs[t].find
  <2>1. d = [c EXCEPT !.pc = "find", !.queue = q]
    BY <1>2, <1>5
  <2>2. d \in Contexts
    BY <1>1, <1>3, <2>1, SMTT(10), ZenonT(60) DEF Contexts, Pcs, Before
  <2>3. /\ d.pc = "find" /\ d.queue = q /\ d.file = c.file
        /\ d.ret = {} /\ d.stack = <<>> /\ d.err = {} /\ d.res = ""
    BY <1>1, <2>1 DEF Contexts
  <2>4. FindOK(t, d)
    BY <1>3, <1>4, <1>5, <2>3 DEF FindOK
  <2> QED
    BY <1>1, <1>3, <2>2, <2>3, <2>4, NothingYet DEF Grows, Before
<1>6. CASE ~world.jobs[t].find
  <2>1. d = [c EXCEPT !.pc = "load"]
    BY <1>6
  <2>2. d \in Contexts
    BY <1>1, <2>1 DEF Contexts, Pcs, Before
  <2>3. d.pc = "load" /\ d.ret = {} /\ d.stack = <<>> /\ d.err = {} /\ d.res = ""
    BY <1>1, <2>1 DEF Contexts
  <2>4. FindOK(t, d)
    BY <2>3 DEF FindOK
  <2> QED
    BY <1>1, <2>2, <2>3, <2>4, NothingYet DEF Grows, Before
<1> QED
  BY <1>5, <1>6

(* A goroutine that ends before has nothing. *)
LEMMA DoneEarly ==
    ASSUME NEW t, NEW c, JobOK(t, c), c.pc \in Before, NEW res \in {"error", "nolib"}
    PROVE  JobOK(t, Done(c, res)) /\ Grows(c, Done(c, res))
<1>1. c \in Contexts /\ c.ret = {} /\ c.stack = <<>> /\ c.err = {} /\ c.res = ""
  BY BeforeIs DEF JobOK
<1>2. PICK d : d = Done(c, res)
  OBVIOUS
<1>3. d = [c EXCEPT !.pc = "done", !.res = res]
  BY <1>2 DEF Done
<1>4. d \in Contexts
  BY <1>1, <1>3 DEF Contexts, Pcs
<1>5. d.pc = "done" /\ d.res = res /\ d.ret = {} /\ d.stack = <<>> /\ d.err = {}
  BY <1>1, <1>3 DEF Contexts
<1>6. FindOK(t, d)
  BY <1>5 DEF FindOK
<1> QED
  BY <1>1, <1>2, <1>4, <1>5, <1>6, NothingYet DEF Grows

(* Find: what Expand has returned is a path. *)
LEMMA FindsOK ==
    ASSUME NEW t, NEW c, JobOK(t, c), c.pc = "find", c.queue # <<>>, ExpandAssumption,
           world \in Worlds, t \in Jobs,
           NEW l, NEW e, e = Expand(world.fs, Prefix \o Head(c.queue) \o c.file)
    PROVE  JobOK(t, Finds(c, l, e)) /\ Grows(c, Finds(c, l, e))
<1>1. c \in Contexts /\ c.ret = {} /\ c.stack = <<>> /\ c.err = {} /\ c.res = ""
  BY BeforeIs DEF JobOK, Before
<1>2. /\ c.file = world.jobs[t].file /\ world.jobs[t].find
      /\ c.queue \in Seq(ConfDirs(world) \cup Range(DefaultLibs)) /\ c.queue \in Seq(Paths)
  BY DEF JobOK, FindOK, JobInv, PlaceOK
<1>3. PICK q : q = Tail(c.queue)
  OBVIOUS
<1>4. PICK d : d = Finds(c, l, e)
  OBVIOUS
<1>5. CASE d = [c EXCEPT !.queue = Tail(@)]
  <2>1. q \in Seq(ConfDirs(world) \cup Range(DefaultLibs)) /\ q \in Seq(Paths)
    BY <1>2, <1>3
  <2>2. d = [c EXCEPT !.queue = q]
    BY <1>3, <1>5
  <2>3. d \in Contexts
    BY <1>1, <2>1, <2>2 DEF Contexts
  <2>4. /\ d.pc = "find" /\ d.queue = q /\ d.file = c.file
        /\ d.ret = {} /\ d.stack = <<>> /\ d.err = {} /\ d.res = ""
    BY <1>1, <2>2 DEF Contexts
  <2>5. FindOK(t, d)
    BY <1>2, <2>1, <2>4 DEF FindOK
  <2> QED
    BY <1>1, <1>4, <2>1, <2>3, <2>4, <2>5, NothingYet DEF Grows, Before
<1>6. CASE e.err = "ok" /\ d = [c EXCEPT !.pc = "load", !.file = e.s, !.queue = <<>>]
  <2>1. e.s \in Paths
    <3>1. PICK dir : dir = Head(c.queue)
      OBVIOUS
    <3>2. dir \in ConfDirs(world) \cup Range(DefaultLibs)
      BY <1>2, <3>1
    <3>3. \A dr \in ConfDirs(world) \cup Range(DefaultLibs) :
              Expand(world.fs, Prefix \o dr \o world.jobs[t].file).err = "ok" =>
                  Expand(world.fs, Prefix \o dr \o world.jobs[t].file).s \in Paths
      BY <1>2, ExpandAssumption DEF ExpandAssumption, Jobs
    <3> QED
      BY <1>2, <1>6, <3>1, <3>2, <3>3
  <2>2. <<>> \in Seq(Paths)
    OBVIOUS
  <2>3. d \in Contexts
    BY <1>1, <1>6, <2>1, <2>2 DEF Contexts, Pcs, Before
  <2>4. d.pc = "load" /\ d.ret = {} /\ d.stack = <<>> /\ d.err = {} /\ d.res = ""
    BY <1>1, <1>6 DEF Contexts
  <2>5. FindOK(t, d)
    BY <2>4 DEF FindOK
  <2> QED
    BY <1>1, <1>4, <2>3, <2>4, <2>5, NothingYet DEF Grows, Before
<1>7. CASE d = Done(c, "error")
  BY <1>4, <1>7, DoneEarly DEF Before
<1>8. \/ d = [c EXCEPT !.queue = Tail(@)]
      \/ e.err = "ok" /\ d = [c EXCEPT !.pc = "load", !.file = e.s, !.queue = <<>>]
      \/ d = Done(c, "error")
  BY <1>4, Zenon DEF Finds
<1> QED
  BY <1>5, <1>6, <1>7, <1>8

(* The root of the search. *)
LEMMA LoadsOK ==
    ASSUME NEW t, NEW c, JobOK(t, c), c.pc = "load", ElfAssumption, CacheInv, InterpInv,
           NEW ds \in Seq(Directories), NEW l, l = Loader(c.file)
    PROVE  JobOK(t, Loads(c, l, ds)) /\ Grows(c, Loads(c, l, ds))
<1>1. c \in Contexts /\ c.ret = {} /\ c.stack = <<>> /\ c.err = {} /\ c.res = "" /\ c.file \in Paths
  <2>1. c \in Contexts /\ c.ret = {} /\ c.stack = <<>> /\ c.err = {} /\ c.res = ""
    BY BeforeIs DEF JobOK, Before
  <2> QED
    BY <2>1 DEF Contexts
<1>2. PICK d : d = Loads(c, l, ds)
  OBVIOUS
<1>3. CASE l.err # "ok"
  <2>1. d = Done(c, "error")
    BY <1>2, <1>3 DEF Loads
  <2> QED
    BY <1>2, <2>1, DoneEarly DEF Before
<1>4. CASE l.err = "ok"
  <2>1. /\ HandleOf(c.file, l.f) /\ (l.f.open \/ KnowsInterp(l.f) \/ AsLib(c.file))
        /\ Elf(l.f).class \in {32, 64}
    BY <1>1, <1>4, LoaderIs
  <2>2. PICK set \in PathSets : set = PathAdd(<<>>, PathDir(c.file), ds)
    <3>1. <<>> \in PathSets
      BY DEF PathSets, Once
    <3>2. PathDir(c.file) \in Paths
      BY <1>1, PathDirTyped
    <3> QED
      BY <3>1, <3>2, PathAddTyped
  <2>3. d = [c EXCEPT !.pc = "class", !.at = c.file, !.f = l.f, !.class = Elf(l.f).class, !.ldconf = set]
    BY <1>2, <1>4, <2>2 DEF Loads
  <2>4. d \in Contexts
    <3>1. l.f \in Handles /\ Elf(l.f).class \in Classes
      BY <2>1 DEF HandleOf, Classes
    <3> QED
      BY <1>1, <2>3, <3>1 DEF Contexts, Pcs, Before
  <2>5. /\ d.pc = "class" /\ d.at = c.file /\ d.f = l.f /\ d.file = c.file
        /\ d.ret = {} /\ d.stack = <<>> /\ d.err = {} /\ d.res = ""
    BY <1>1, <2>3 DEF Contexts
  <2>6. FindOK(t, d)
    BY <2>5 DEF FindOK
  <2> QED
    BY <1>1, <1>2, <2>1, <2>4, <2>5, <2>6, NothingYet DEF Grows, Before
<1> QED
  BY <1>3, <1>4

(* The files that are needed keep being awaited. *)
LEMMA NeedsKept ==
    ASSUME ElfAssumption, NEW c, JobInv(c), c.res # "error", NEW d, d.ret = c.ret,
           \A file \in c.ret : \A needed \in Seq(Libs) : \A i \in DOMAIN needed :
               Counts(needed, i) /\ Awaited(c, file, needed, i) => Awaited(d, file, needed, i)
    PROVE  NeedsOK(d)
<1>1. NeedsOK(c) /\ c.ret \subseteq Paths
  BY DEF JobInv, Contexts
<1>2. ASSUME NEW file \in c.ret, ~IsInterp(file), NEW needed, needed = Elf(Opens(file).f).needed
      PROVE  /\ Opens(file).err = "ok"
             /\ \A i \in DOMAIN needed : Counts(needed, i) => Awaited(d, file, needed, i)
  <2>1. /\ Opens(file).err = "ok"
        /\ \A i \in DOMAIN needed : Counts(needed, i) => Awaited(c, file, needed, i)
    BY <1>1, <1>2 DEF NeedsOK
  <2>2. needed \in Seq(Libs)
    <3>1. Opens(file).f \in Handles
      BY <1>1, <2>1, OpensIs DEF HandleOf
    <3> QED
      BY <1>2, <3>1, ElfTyped
  <2> QED
    BY <2>1, <2>2
<1> QED
  BY <1>2 DEF NeedsOK

(* The interpreter of the root is put in the set. *)
LEMMA SetClassOK ==
    ASSUME ElfAssumption, NEW t, NEW c, JobOK(t, c), c.pc = "class",
           NEW d, d = [c EXCEPT !.pc = "enter", !.f = Keeps(c.f),
                                !.ret = IF Interpreter(c.f) = <<>> THEN {}
                                        ELSE {Prefix \o Interpreter(c.f)}]
    PROVE  JobOK(t, d) /\ Grows(c, d)
<1>1. c \in Contexts /\ c.ret = {} /\ c.stack = <<>> /\ c.err = {} /\ c.res = ""
  BY BeforeIs DEF JobOK, Before
<1>2. PICK f : f = c.f
  OBVIOUS
<1>3. PICK i : i = Interpreter(f)
  OBVIOUS
<1>4. /\ HandleOf(c.file, f) /\ c.at = c.file
      /\ f.open \/ KnowsInterp(f) \/ AsLib(c.file)
  BY <1>2 DEF JobOK, JobInv, PlaceOK, InterpOK
<1>5. f \in Handles /\ Elf(f).interp \in Paths /\ <<>> \in Paths /\ f.real \in DOMAIN ElfFiles
  <2>1. f \in Handles
    BY <1>4 DEF HandleOf
  <2> QED
    BY <2>1, ElfTyped DEF Handles, Paths
<1>6. i \in {<<>>, Elf(f).interp} /\ i \in Paths
  BY <1>3, <1>4, <1>5 DEF HandleOf, Interpreter
<1>7. PICK g : g = [f EXCEPT !.interp = i]
  OBVIOUS
<1>8. g \in Handles /\ g.name = f.name /\ g.real = f.real /\ g.interp = i /\ g.open = f.open
  BY <1>5, <1>6, <1>7 DEF Handles
<1>9. HandleOf(c.file, g)
  BY <1>4, <1>6, <1>8 DEF HandleOf, Elf
<1>10. KnowsInterp(g) \/ AsLib(c.file)
  BY <1>3, <1>4, <1>8 DEF KnowsInterp, Interpreter, Elf
<1>11. PICK ret : ret = IF i = <<>> THEN {} ELSE {Prefix \o i}
  OBVIOUS
<1>12. ret \subseteq Paths
  <2>1. Prefix \in Paths
    BY ElfAssumption DEF ElfAssumption
  <2>2. Prefix \o i \in Paths
    BY <1>6, <2>1, JoinTyped, Zenon
  <2> QED
    BY <1>11, <2>2
<1>13. d = [c EXCEPT !.pc = "enter", !.f = g, !.ret = ret]
  BY <1>2, <1>3, <1>7, <1>11 DEF Keeps
<1>14. d \in Contexts
  BY <1>1, <1>8, <1>12, <1>13, SMTT(10), ZenonT(60) DEF Contexts, Pcs
<1>15. /\ d.pc = "enter" /\ d.f = g /\ d.ret = ret /\ d.at = c.file /\ d.file = c.file
       /\ d.stack = <<>> /\ d.err = {} /\ d.res = ""
  BY <1>1, <1>4, <1>13 DEF Contexts
<1>16. PlaceOK(d)
  BY <1>9, <1>15, EmptyDomain DEF PlaceOK, Before, Searching
<1>17. NeedsOK(d)
  <2>1. ASSUME NEW file \in ret PROVE IsInterp(file)
    <3>1. file = Prefix \o Elf(f).interp
      BY <1>6, <1>11
    <3>2. Elf(f) \in Range(ElfFiles)
      BY <1>5 DEF Elf, Range
    <3> QED
      BY <3>1, <3>2 DEF IsInterp
  <2> QED
    BY <1>15, <2>1 DEF NeedsOK
<1>18. HasInterp(d) \/ AsLib(c.file)
  <2>1. Elf(Opens(c.file).f).interp = Elf(f).interp
    BY <1>4 DEF HandleOf, Stands, Elf
  <2>2. KnowsInterp(g) => i = Elf(f).interp
    BY <1>8 DEF KnowsInterp, Elf
  <2> QED
    BY <1>10, <1>11, <1>15, <2>1, <2>2 DEF HasInterp
<1>19. InterpOK(d)
  BY <1>10, <1>15, <1>18 DEF InterpOK
<1>20. FindOK(t, d)
  BY <1>15 DEF FindOK
<1> QED
  BY <1>1, <1>14, <1>16, <1>17, <1>19, <1>20 DEF JobOK, JobInv, Grows

(* The file is in the set: resolv returns at once. *)
LEMMA EnterAgainOK ==
    ASSUME ElfAssumption, NEW t, NEW c, JobOK(t, c), c.pc = "enter", c.at \in c.ret,
           NEW d, d = [c EXCEPT !.pc = "needed"]
    PROVE  JobOK(t, d) /\ Grows(c, d)
<1>1. c \in Contexts /\ PlaceOK(c) /\ InterpOK(c)
  BY DEF JobOK, JobInv
<1>2. d \in Contexts
  BY <1>1 DEF Contexts, Pcs
<1>3. /\ d.pc = "needed" /\ d.file = c.file /\ d.ret = c.ret /\ d.stack = c.stack
      /\ d.err = c.err /\ d.res = c.res
  BY <1>1 DEF Contexts
<1>4. c.res = "" /\ c.file \in c.ret /\ \A i \in DOMAIN c.stack : c.stack[i].file \in c.ret
  BY <1>1 DEF PlaceOK
<1>5. PlaceOK(d)
  BY <1>3, <1>4 DEF PlaceOK, Before, Searching
<1>6. NeedsOK(d)
  <2>1. \A file \in c.ret : \A needed \in Seq(Libs) : \A i \in DOMAIN needed :
            Awaited(c, file, needed, i) => Awaited(d, file, needed, i)
    BY <1>3 DEF Awaited, Found1
  <2> QED
    BY <1>3, <1>4, <2>1, NeedsKept DEF JobOK
<1>7. InterpOK(d)
  BY <1>1, <1>3 DEF InterpOK, HasInterp
<1>8. FindOK(t, d)
  BY <1>3 DEF FindOK
<1> QED
  BY <1>2, <1>3, <1>5, <1>6, <1>7, <1>8 DEF JobOK, JobInv, Grows

(* A call of resolv within others. *)
LEMMA StackCons ==
    ASSUME NEW T, NEW s \in Seq(T), NEW x \in T
    PROVE  /\ <<x>> \o s \in Seq(T) /\ DOMAIN (<<x>> \o s) = 1..(Len(s) + 1)
           /\ (<<x>> \o s)[1] = x /\ DOMAIN s = 1..Len(s) /\ Len(s) \in Nat
           /\ \A k \in DOMAIN s : k + 1 \in DOMAIN (<<x>> \o s) /\ (<<x>> \o s)[k + 1] = s[k]
<1>1. <<x>> \o s \in Seq(T) /\ Len(<<x>> \o s) = Len(s) + 1
  OBVIOUS
<1>2. (<<x>> \o s)[1] = x /\ DOMAIN s = 1..Len(s) /\ Len(s) \in Nat
  OBVIOUS
<1>3. \A k \in 1..Len(s) : (<<x>> \o s)[k + 1] = s[k]
  OBVIOUS
<1>4. DOMAIN (<<x>> \o s) = 1..(Len(s) + 1)
  BY <1>1
<1>5. \A k \in 1..Len(s) : k + 1 \in 1..(Len(s) + 1)
  BY <1>2
<1> QED
  BY <1>1, <1>2, <1>3, <1>4, <1>5

(* The top of a stack, and what is below it. *)
TopOf(T, s, top, rest) ==
    /\ top \in T /\ s[1] = top /\ 1 \in DOMAIN s /\ rest \in Seq(T)
    /\ \A k \in DOMAIN rest : k + 1 \in DOMAIN s /\ rest[k] = s[k + 1]
    /\ \A k \in DOMAIN s : k # 1 => k - 1 \in DOMAIN rest /\ rest[k - 1] = s[k]

LEMMA StackTail ==
    ASSUME NEW T, NEW s \in Seq(T), s # <<>>
    PROVE  TopOf(T, s, Head(s), Tail(s))
<1>1. DOMAIN s = 1..Len(s) /\ Len(s) \in Nat /\ Len(s) # 0
  OBVIOUS
<1>2. /\ Tail(s) \in Seq(T) /\ Len(Tail(s)) = Len(s) - 1 /\ DOMAIN Tail(s) = 1..Len(Tail(s))
      /\ s[1] \in T /\ Head(s) = s[1]
  OBVIOUS
<1>3. \A k \in 1..Len(Tail(s)) : Tail(s)[k] = s[k + 1]
  BY <1>1, <1>2
<1>4. ASSUME NEW k \in DOMAIN s, k # 1
      PROVE  k - 1 \in DOMAIN Tail(s) /\ Tail(s)[k - 1] = s[k]
  <2>1. k - 1 \in 1..Len(Tail(s)) /\ (k - 1) + 1 = k
    BY <1>1, <1>2, <1>4
  <2> QED
    BY <1>2, <1>3, <2>1
<1> QED
  BY <1>1, <1>2, <1>3, <1>4 DEF TopOf

(* Another one at the top. *)
TopIs(T, s, x, r) ==
    /\ r \in Seq(T) /\ DOMAIN r = DOMAIN s /\ r[1] = x
    /\ \A k \in DOMAIN s : k # 1 => r[k] = s[k]

LEMMA StackHead ==
    ASSUME NEW T, NEW s \in Seq(T), s # <<>>, NEW x \in T
    PROVE  TopIs(T, s, x, [s EXCEPT ![1] = x])
<1>1. 1 \in DOMAIN s
  OBVIOUS
<1> QED
  BY <1>1 DEF TopIs

(* All that a file needs is left when resolv is called with it. *)
LEMMA AllLeft ==
    ASSUME NEW needed \in Seq(Libs), NEW i \in DOMAIN needed
    PROVE  i \in LeftOf(needed, needed)
<1>1. i \in Nat /\ i >= 1 /\ 0 \in 0..i-1
  OBVIOUS
<1>2. needed = SubSeq(needed, 0 + 1, Len(needed))
  OBVIOUS
<1> QED
  BY <1>1, <1>2 DEF LeftOf

LEMMA EnterOK ==
    ASSUME ElfAssumption, NEW t, NEW c, JobOK(t, c), c.pc = "enter",
           NEW frame \in Frames, frame.file = c.at, frame.needed = Elf(c.f).needed,
           NEW d, d = [c EXCEPT !.pc = "needed", !.ret = @ \cup {c.at}, !.stack = <<frame>> \o @]
    PROVE  JobOK(t, d) /\ Grows(c, d)
<1>1. c \in Contexts /\ PlaceOK(c) /\ NeedsOK(c) /\ InterpOK(c)
  BY DEF JobOK, JobInv
<1>2. PICK stack : stack = <<frame>> \o c.stack
  OBVIOUS
<1>3. /\ stack \in Seq(Frames) /\ DOMAIN stack = 1..(Len(c.stack) + 1) /\ stack[1] = frame
      /\ Len(c.stack) \in Nat /\ DOMAIN c.stack = 1..Len(c.stack)
      /\ \A k \in DOMAIN c.stack : k + 1 \in DOMAIN stack /\ stack[k + 1] = c.stack[k]
  <2>1. c.stack \in Seq(Frames)
    BY <1>1 DEF Contexts
  <2> QED
    BY <1>2, <2>1, StackCons
<1>4. PICK ret : ret = c.ret \cup {c.at}
  OBVIOUS
<1>5. ret \subseteq Paths /\ c.ret \subseteq ret /\ c.at \in ret /\ c.at \in Paths
  BY <1>1, <1>4 DEF Contexts
<1>6. d = [c EXCEPT !.pc = "needed", !.ret = ret, !.stack = stack]
  BY <1>2, <1>4
<1>7. d \in Contexts
  BY <1>1, <1>3, <1>5, <1>6, SMTT(10), ZenonT(60) DEF Contexts, Pcs
<1>8. /\ d.pc = "needed" /\ d.file = c.file /\ d.ret = ret /\ d.stack = stack
      /\ d.err = c.err /\ d.res = c.res
  BY <1>1, <1>6 DEF Contexts
<1>9. /\ c.res = "" /\ (c.at = c.file \/ c.file \in c.ret) /\ HandleOf(c.at, c.f)
      /\ \A i \in DOMAIN c.stack : c.stack[i].file \in c.ret
  BY <1>1 DEF PlaceOK
<1>10. \A i \in DOMAIN stack : stack[i].file \in ret
  <2>1. ASSUME NEW i \in DOMAIN stack PROVE stack[i].file \in ret
    <3>1. CASE i = 1
      BY <1>3, <1>5, <3>1
    <3>2. CASE i # 1
      <4>1. i - 1 \in DOMAIN c.stack /\ (i - 1) + 1 = i
        BY <1>3, <3>2
      <4>2. stack[i] = c.stack[i - 1]
        BY <1>3, <4>1
      <4> QED
        BY <1>5, <1>9, <4>1, <4>2
    <3> QED
      BY <3>1, <3>2
  <2> QED
    BY <2>1
<1>11. PlaceOK(d)
  <2>1. c.file \in ret
    BY <1>5, <1>9
  <2> QED
    BY <1>8, <1>9, <1>10, <2>1 DEF PlaceOK, Before, Searching
<1>12. ASSUME NEW file \in ret, ~IsInterp(file), NEW needed, needed = Elf(Opens(file).f).needed
       PROVE  /\ Opens(file).err = "ok"
              /\ \A i \in DOMAIN needed : Counts(needed, i) => Awaited(d, file, needed, i)
  <2>1. CASE file \in c.ret
    <3>1. /\ Opens(file).err = "ok"
          /\ \A i \in DOMAIN needed : Counts(needed, i) => Awaited(c, file, needed, i)
      BY <1>1, <1>9, <1>12, <2>1 DEF NeedsOK
    <3>2. ASSUME NEW i \in DOMAIN needed, Awaited(c, file, needed, i)
          PROVE  Awaited(d, file, needed, i)
      <4>1. CASE Found1(c, needed[i])
        BY <1>5, <1>8, <4>1 DEF Awaited, Found1
      <4>2. CASE needed[i] \in c.err
        BY <1>8, <4>2 DEF Awaited
      <4>3. CASE IsSuffix(needed[i].p, c.at)
        BY <1>5, <1>8, <4>3 DEF Awaited, Found1
      <4>4. CASE \E k \in DOMAIN c.stack : c.stack[k].file = file /\ i \in LeftOf(needed, c.stack[k].needed)
        <5>1. PICK k \in DOMAIN c.stack : c.stack[k].file = file /\ i \in LeftOf(needed, c.stack[k].needed)
          BY <4>4
        <5>2. k + 1 \in DOMAIN stack /\ stack[k + 1] = c.stack[k]
          BY <1>3
        <5> QED
          BY <1>8, <5>1, <5>2 DEF Awaited
      <4> QED
        BY <3>2, <4>1, <4>2, <4>3, <4>4 DEF Awaited
    <3> QED
      BY <3>1, <3>2
  <2>2. CASE file \notin c.ret
    <3>1. file = c.at
      BY <1>4, <2>2
    <3>2. Opens(file).err = "ok" /\ needed = Elf(c.f).needed /\ c.f \in Handles
      BY <1>9, <1>12, <3>1 DEF HandleOf, Stands, Elf
    <3>3. needed \in Seq(Libs)
      BY <3>2, ElfTyped
    <3>4. ASSUME NEW i \in DOMAIN needed PROVE Awaited(d, file, needed, i)
      <4>1. i \in LeftOf(needed, needed)
        BY <3>3, AllLeft
      <4>2. 1 \in DOMAIN stack /\ stack[1].file = file /\ stack[1].needed = needed
        BY <1>3, <3>1, <3>2
      <4> QED
        BY <1>8, <4>1, <4>2 DEF Awaited
    <3> QED
      BY <3>2, <3>4
  <2> QED
    BY <2>1, <2>2
<1>13. NeedsOK(d)
  BY <1>8, <1>12 DEF NeedsOK
<1>14. InterpOK(d)
  BY <1>1, <1>5, <1>8 DEF InterpOK, HasInterp
<1>15. FindOK(t, d)
  BY <1>8 DEF FindOK
<1> QED
  BY <1>5, <1>7, <1>8, <1>11, <1>13, <1>14, <1>15 DEF JobOK, JobInv, Grows

(* Steps that leave the set and the file of the goroutine as they are. *)
LEMMA SameSet ==
    ASSUME NEW t, NEW c, JobOK(t, c), c.pc \in {"enter", "needed"} \cup Searching,
           NEW d \in Contexts, PlaceOK(d), NeedsOK(d), d.ret = c.ret, d.file = c.file,
           d.pc \notin Before, d.pc = "enter" => d.at # d.file
    PROVE  JobOK(t, d) /\ Grows(c, d)
<1>1. HasInterp(c) \/ AsLib(c.file)
  BY DEF JobOK, InterpOK
<1>2. InterpOK(d)
  BY <1>1 DEF InterpOK, HasInterp, Before
<1>3. FindOK(t, d)
  BY DEF FindOK, Before
<1> QED
  BY <1>2, <1>3 DEF JobOK, JobInv, Grows

LEMMA AtWork ==
    ASSUME NEW t, NEW c, JobOK(t, c), c.pc \in {"needed"} \cup Searching
    PROVE  /\ c \in Contexts /\ PlaceOK(c) /\ JobInv(c) /\ c.res = "" /\ c.file \in c.ret
           /\ c.stack \in Seq(Frames) /\ \A i \in DOMAIN c.stack : c.stack[i].file \in c.ret
<1>1. c \in Contexts /\ PlaceOK(c) /\ JobInv(c)
  BY DEF JobOK, JobInv
<1>2. c.pc # "done"
  BY DEF Searching
<1> QED
  BY <1>1, <1>2 DEF PlaceOK, Contexts

(* The next library of the file: the others are left. *)
LEMMA NextLeft ==
    ASSUME NEW needed \in Seq(Libs), NEW left \in Seq(Libs), left # <<>>,
           NEW i \in DOMAIN needed, i \in LeftOf(needed, left)
    PROVE  \/ needed[i] = Head(left)
           \/ i \in LeftOf(needed, Tail(left))
<1>1. PICK m \in 0..i-1 : left = SubSeq(needed, m + 1, Len(needed))
  BY DEF LeftOf
<1>2. i \in 1..Len(needed) /\ m \in Nat /\ m + 1 \in 1..Len(needed) /\ m + 1 <= i /\ Len(needed) \in Nat
  BY <1>1
<1>3. Head(left) = needed[m + 1]
  BY <1>1, <1>2
<1>4. CASE m + 1 = i
  BY <1>3, <1>4
<1>5. CASE m + 1 # i
  <2>1. m + 1 \in 0..i-1
    BY <1>2, <1>5
  <2>2. Tail(left) = SubSeq(needed, (m + 1) + 1, Len(needed))
    BY <1>1, <1>2
  <2> QED
    BY <2>1, <2>2 DEF LeftOf
<1> QED
  BY <1>4, <1>5

LEMMA SearchOK ==
    ASSUME ElfAssumption, NEW t, NEW c, JobOK(t, c), c.pc = "needed", c.stack # <<>>,
           NEW frame, frame = Head(c.stack), More(frame),
           NEW d, d = [c EXCEPT !.pc = "search", !.lib = Head(frame.needed), !.list = "paths",
                                !.stack[1].needed = Tail(@),
                                !.queue = frame.old \o frame.run \o frame.rpath]
    PROVE  JobOK(t, d) /\ Grows(c, d)
<1>1. /\ c \in Contexts /\ JobInv(c) /\ c.res = "" /\ c.file \in c.ret /\ PlaceOK(c)
      /\ c.stack \in Seq(Frames) /\ \A i \in DOMAIN c.stack : c.stack[i].file \in c.ret
  BY AtWork
<1>2. frame \in Frames /\ 1 \in DOMAIN c.stack /\ c.stack[1] = frame
  <2>1. TopOf(Frames, c.stack, frame, Tail(c.stack))
    BY <1>1, StackTail, Zenon
  <2> QED
    BY <2>1, Zenon DEF TopOf
<1>3. PICK left : left = frame.needed
  OBVIOUS
<1>4. left \in Seq(Libs) /\ left # <<>>
  BY <1>2, <1>3 DEF Frames, More
<1>5. Head(left) \in Libs /\ Tail(left) \in Seq(Libs)
  BY <1>4
<1>6. PICK q : q = frame.old \o frame.run \o frame.rpath
  OBVIOUS
<1>7. q \in Seq(PathEntries)
  <2>1. frame.old \in Seq(PathEntries) /\ frame.run \in Seq(PathEntries) /\ frame.rpath \in Seq(PathEntries)
    BY <1>2 DEF Frames, PathSets
  <2> QED
    BY <1>6, <2>1, SMTT(10), ZenonT(60)
<1>8. PICK top : top = [frame EXCEPT !.needed = Tail(left)]
  OBVIOUS
<1>9. top \in Frames /\ top.file = frame.file /\ top.needed = Tail(left)
  BY <1>2, <1>5, <1>8 DEF Frames
<1>10. PICK stack : stack = [c.stack EXCEPT ![1] = top]
  OBVIOUS
<1>11. /\ stack \in Seq(Frames) /\ DOMAIN stack = DOMAIN c.stack /\ stack[1] = top
       /\ \A k \in DOMAIN c.stack : k # 1 => stack[k] = c.stack[k]
  <2>1. TopIs(Frames, c.stack, top, stack)
    BY <1>1, <1>9, <1>10, StackHead, Zenon
  <2> QED
    BY <2>1, Zenon DEF TopIs
<1>12. d = [c EXCEPT !.pc = "search", !.lib = Head(left), !.list = "paths", !.stack = stack, !.queue = q]
  <2>1. [c.stack EXCEPT ![1].needed = Tail(@)] = stack
    BY <1>2, <1>3, <1>8, <1>10
  <2> QED
    BY <1>1, <1>3, <1>6, <2>1 DEF Contexts
<1>13. d \in Contexts
  BY <1>1, <1>5, <1>7, <1>11, <1>12, SMTT(10), ZenonT(60) DEF Contexts, Pcs, Searching
<1>14. /\ d.pc = "search" /\ d.file = c.file /\ d.ret = c.ret /\ d.stack = stack /\ d.lib = Head(left)
       /\ d.err = c.err /\ d.res = c.res /\ d.queue = q
  BY <1>1, <1>12 DEF Contexts
<1>15. \A k \in DOMAIN stack : stack[k].file \in c.ret
  BY <1>1, <1>2, <1>9, <1>11
<1>16. PlaceOK(d)
  BY <1>1, <1>5, <1>7, <1>14, <1>15 DEF PlaceOK, Before, Searching
<1>17. NeedsOK(d)
  <2>1. ASSUME NEW file \in c.ret, NEW needed \in Seq(Libs), NEW i \in DOMAIN needed,
               Awaited(c, file, needed, i)
        PROVE  Awaited(d, file, needed, i)
    <3>1. CASE Found1(c, needed[i])
      BY <1>14, <3>1 DEF Awaited, Found1
    <3>2. CASE needed[i] \in c.err
      BY <1>14, <3>2 DEF Awaited
    <3>3. CASE \E k \in DOMAIN c.stack : c.stack[k].file = file /\ i \in LeftOf(needed, c.stack[k].needed)
      <4>1. PICK k \in DOMAIN c.stack : c.stack[k].file = file /\ i \in LeftOf(needed, c.stack[k].needed)
        BY <3>3
      <4>2. CASE k # 1
        BY <1>11, <1>14, <4>1, <4>2 DEF Awaited
      <4>3. CASE k = 1
        <5>1. i \in LeftOf(needed, left)
          BY <1>2, <1>3, <4>1, <4>3
        <5>2. needed[i] = Head(left) \/ i \in LeftOf(needed, Tail(left))
          BY <1>4, <5>1, NextLeft
        <5>3. stack[1].file = file /\ stack[1].needed = Tail(left) /\ 1 \in DOMAIN stack
          BY <1>2, <1>9, <1>11, <4>1, <4>3
        <5> QED
          BY <1>14, <5>2, <5>3 DEF Awaited
      <4> QED
        BY <4>2, <4>3
    <3> QED
      BY <2>1, <3>1, <3>2, <3>3 DEF Awaited
  <2> QED
    BY <1>1, <1>14, <2>1, NeedsKept
<1> QED
  BY <1>13, <1>14, <1>16, <1>17, SameSet DEF Before

(* What is left when a needed libc.so has ended the loop is not counted. *)
LEMMA LeaveOK ==
    ASSUME ElfAssumption, NEW t, NEW c, JobOK(t, c), c.pc = "needed", c.stack # <<>>,
           ~More(Head(c.stack)), NEW d, d = [c EXCEPT !.stack = Tail(@)]
    PROVE  JobOK(t, d) /\ Grows(c, d)
<1>1. /\ c \in Contexts /\ JobInv(c) /\ c.res = "" /\ c.file \in c.ret /\ PlaceOK(c)
      /\ c.stack \in Seq(Frames) /\ \A i \in DOMAIN c.stack : c.stack[i].file \in c.ret
  BY AtWork
<1>2. PICK stack : stack = Tail(c.stack)
  OBVIOUS
<1>3. /\ stack \in Seq(Frames) /\ c.stack[1] \in Frames /\ Head(c.stack) = c.stack[1]
      /\ \A k \in DOMAIN stack : k + 1 \in DOMAIN c.stack /\ stack[k] = c.stack[k + 1]
      /\ \A k \in DOMAIN c.stack : k # 1 => k - 1 \in DOMAIN stack /\ stack[k - 1] = c.stack[k]
  <2>1. TopOf(Frames, c.stack, Head(c.stack), stack)
    BY <1>1, <1>2, StackTail, Zenon
  <2> QED
    BY <2>1, Zenon DEF TopOf
<1>4. d \in Contexts
  BY <1>1, <1>2, <1>3 DEF Contexts
<1>5. /\ d.pc = "needed" /\ d.file = c.file /\ d.ret = c.ret /\ d.stack = stack
      /\ d.err = c.err /\ d.res = c.res
  BY <1>1, <1>2 DEF Contexts
<1>6. PlaceOK(d)
  <2>1. \A k \in DOMAIN stack : stack[k].file \in c.ret
    BY <1>1, <1>3
  <2> QED
    BY <1>1, <1>5, <2>1 DEF PlaceOK, Before, Searching
<1>7. NeedsOK(d)
  <2>1. ASSUME NEW file \in c.ret, NEW needed \in Seq(Libs), NEW i \in DOMAIN needed,
               Counts(needed, i), Awaited(c, file, needed, i)
        PROVE  Awaited(d, file, needed, i)
    <3>1. CASE Found1(c, needed[i]) \/ needed[i] \in c.err
      BY <1>5, <3>1 DEF Awaited, Found1
    <3>2. CASE \E k \in DOMAIN c.stack : c.stack[k].file = file /\ i \in LeftOf(needed, c.stack[k].needed)
      <4>1. PICK k \in DOMAIN c.stack : c.stack[k].file = file /\ i \in LeftOf(needed, c.stack[k].needed)
        BY <3>2
      <4>2. k # 1
        <5>1. SUFFICES ASSUME k = 1 PROVE FALSE
          OBVIOUS
        <5>2. PICK left : left = c.stack[1].needed
          OBVIOUS
        <5>3. PICK m \in 0..i-1 : left = SubSeq(needed, m + 1, Len(needed))
          BY <4>1, <5>1, <5>2 DEF LeftOf
        <5>4. i \in 1..Len(needed) /\ m + 1 \in 1..Len(needed) /\ m + 1 \in 1..i /\ Len(needed) \in Nat
          BY <5>3
        <5>5. Len(left) # 0 /\ Head(left) = needed[m + 1]
          BY <5>3, <5>4
        <5>6. left # <<>> /\ Head(left) # Lib(LibcSo)
          <6>1. needed[m + 1] # Lib(LibcSo)
            BY <2>1, <5>4 DEF Counts
          <6>2. Len(<<>>) = 0
            OBVIOUS
          <6> QED
            BY <5>5, <6>1, <6>2, Zenon
        <5> QED
          BY <1>3, <5>2, <5>6 DEF More
      <4> QED
        BY <1>3, <1>5, <4>1, <4>2 DEF Awaited
    <3> QED
      BY <2>1, <3>1, <3>2 DEF Awaited
  <2> QED
    BY <1>1, <1>5, <2>1, NeedsKept
<1> QED
  BY <1>4, <1>5, <1>6, <1>7, SameSet DEF Before

(* A goroutine that has come to its end awaits nothing more. *)
LEMMA ResolvedOK ==
    ASSUME ElfAssumption, NEW t, NEW c, JobOK(t, c), c.pc = "needed", c.stack = <<>>,
           NEW d, d = Done(c, IF c.err = {} THEN "ok" ELSE "missing")
    PROVE  JobOK(t, d) /\ Grows(c, d)
<1>1. /\ c \in Contexts /\ JobInv(c) /\ c.res = "" /\ PlaceOK(c)
  BY AtWork
<1>2. PICK res \in {"ok", "missing"} : res = (IF c.err = {} THEN "ok" ELSE "missing")
  OBVIOUS
<1>3. d = [c EXCEPT !.pc = "done", !.res = res]
  BY <1>2 DEF Done
<1>4. d \in Contexts
  BY <1>1, <1>3 DEF Contexts, Pcs
<1>5. /\ d.pc = "done" /\ d.file = c.file /\ d.ret = c.ret /\ d.stack = <<>>
      /\ d.err = c.err /\ d.res = res
  BY <1>1, <1>3 DEF Contexts
<1>6. PlaceOK(d)
  BY <1>2, <1>5, EmptyDomain DEF PlaceOK, Before, Searching
<1>7. NeedsOK(d)
  <2>1. ASSUME NEW file \in c.ret, NEW needed \in Seq(Libs), NEW i \in DOMAIN needed,
               Awaited(c, file, needed, i)
        PROVE  Awaited(d, file, needed, i)
    <3>1. Found1(c, needed[i]) \/ needed[i] \in c.err
      BY <2>1, EmptyDomain DEF Awaited
    <3> QED
      BY <1>5, <3>1 DEF Awaited, Found1
  <2> QED
    BY <1>1, <1>5, <2>1, NeedsKept
<1> QED
  BY <1>4, <1>5, <1>6, <1>7, SameSet DEF Before

(* While a library is looked for, or has been, nothing else is awaited less. *)
LEMMA AwaitedStays ==
    ASSUME NEW c, NEW d, d.ret = c.ret, d.stack = c.stack, c.pc # "enter",
           c.pc \in {"search", "try"} =>
               \/ d.pc \in {"search", "try"} /\ d.lib = c.lib
               \/ d.pc = "enter" /\ IsSuffix(c.lib.p, d.at)
               \/ c.lib \in d.err \/ Found1(c, c.lib),
           \A lib \in c.err : lib \in d.err \/ (d.pc = "enter" /\ IsSuffix(lib.p, d.at)),
           NEW file, NEW needed, NEW i, Awaited(c, file, needed, i)
    PROVE  Awaited(d, file, needed, i)
<1>1. CASE Found1(c, needed[i])
  BY <1>1 DEF Awaited, Found1
<1>2. CASE needed[i] \in c.err
  BY <1>2 DEF Awaited
<1>3. CASE c.pc \in {"search", "try"} /\ c.lib = needed[i]
  BY <1>3 DEF Awaited, Found1
<1>4. CASE \E k \in DOMAIN c.stack : c.stack[k].file = file /\ i \in LeftOf(needed, c.stack[k].needed)
  BY <1>4 DEF Awaited
<1> QED
  BY <1>1, <1>2, <1>3, <1>4 DEF Awaited

(* Such a step. *)
LEMMA LookStep ==
    ASSUME ElfAssumption, NEW t, NEW c, JobOK(t, c), c.pc \in {"needed"} \cup Searching,
           NEW d \in Contexts, d.ret = c.ret, d.stack = c.stack, d.file = c.file, d.res = "",
           d.pc \in {"enter", "needed"} \cup Searching,
           d.pc = "enter" => HandleOf(d.at, d.f) /\ d.at # d.file,
           d.pc \in Searching => d.queue \in Seq(PathEntries) /\ d.lib \in Libs,
           d.pc = "try" => d.queue # <<>> /\ d.at \notin c.ret /\ IsSuffix(d.lib.p, d.at),
           d.pc = "exists" => d.at \in c.ret /\ IsSuffix(d.lib.p, d.at),
           c.pc \in {"search", "try"} =>
               \/ d.pc \in {"search", "try"} /\ d.lib = c.lib
               \/ d.pc = "enter" /\ IsSuffix(c.lib.p, d.at)
               \/ c.lib \in d.err \/ Found1(c, c.lib),
           \A lib \in c.err : lib \in d.err \/ (d.pc = "enter" /\ IsSuffix(lib.p, d.at))
    PROVE  JobOK(t, d) /\ Grows(c, d)
<1>1. /\ c \in Contexts /\ JobInv(c) /\ c.res = "" /\ c.file \in c.ret /\ PlaceOK(c)
      /\ \A i \in DOMAIN c.stack : c.stack[i].file \in c.ret
  BY AtWork
<1>2. d.pc \notin Before /\ d.pc # "done" /\ c.pc # "enter"
  BY DEF Before, Searching
<1>3. PlaceOK(d)
  <2>1. d.pc # "class" /\ d.pc # "find"
    BY <1>2 DEF Before
  <2> QED
    BY <1>1, <1>2, <2>1 DEF PlaceOK
<1>4. NeedsOK(d)
  <2>1. \A file, needed, i : Awaited(c, file, needed, i) => Awaited(d, file, needed, i)
    BY <1>2, AwaitedStays
  <2> QED
    BY <1>1, <2>1, NeedsKept
<1> QED
  BY <1>2, <1>3, <1>4, SameSet

LEMMA HeadTyped ==
    ASSUME NEW T, NEW s \in Seq(T), s # <<>>
    PROVE  Head(s) \in T
OBVIOUS

(* The path is in the set already. *)
LEMMA ExistsOK ==
    ASSUME ElfAssumption, NEW t, NEW c, JobOK(t, c), c.pc = "search", c.queue # <<>>,
           Try(Head(c.queue), c.lib) \in c.ret,
           NEW d, d = [c EXCEPT !.pc = "exists", !.at = Try(Head(c.queue), c.lib)]
    PROVE  JobOK(t, d) /\ Grows(c, d)
<1>1. c \in Contexts /\ c.res = "" /\ c.queue \in Seq(PathEntries) /\ c.lib \in Libs
  BY AtWork DEF PlaceOK, Searching
<1>2. PICK r : r = Try(Head(c.queue), c.lib)
  OBVIOUS
<1>3. r \in c.ret /\ r \in Paths /\ IsSuffix(c.lib.p, r)
  <2>1. Head(c.queue) \in PathEntries
    BY <1>1, HeadTyped, Zenon
  <2> QED
    BY <1>1, <1>2, <2>1, TryIs
<1>4. d = [c EXCEPT !.pc = "exists", !.at = r]
  BY <1>2
<1>5. d \in Contexts
  BY <1>1, <1>3, <1>4, SMTT(10), ZenonT(60) DEF Contexts, Pcs, Searching
<1>6. /\ d.pc = "exists" /\ d.at = r /\ d.file = c.file /\ d.ret = c.ret /\ d.stack = c.stack
      /\ d.err = c.err /\ d.res = "" /\ d.lib = c.lib /\ d.queue = c.queue
  BY <1>1, <1>4 DEF Contexts
<1>7. Found1(c, c.lib)
  BY <1>3 DEF Found1
<1> QED
  BY <1>1, <1>3, <1>5, <1>6, <1>7, LookStep DEF Searching

LEMMA SkipOK ==
    ASSUME ElfAssumption, NEW t, NEW c, JobOK(t, c), c.pc = "exists",
           NEW d, d = [c EXCEPT !.pc = "needed"]
    PROVE  JobOK(t, d) /\ Grows(c, d)
<1>1. c \in Contexts /\ c.res = ""
  BY AtWork DEF Searching
<1>2. d \in Contexts
  BY <1>1 DEF Contexts, Pcs
<1>3. /\ d.pc = "needed" /\ d.file = c.file /\ d.ret = c.ret /\ d.stack = c.stack
      /\ d.err = c.err /\ d.res = ""
  BY <1>1 DEF Contexts
<1> QED
  BY <1>2, <1>3, LookStep DEF Searching

(* Trying the next directory, or the library in this one. *)
LEMMA TryOK ==
    ASSUME ElfAssumption, NEW t, NEW c, JobOK(t, c), c.pc = "search", c.queue # <<>>,
           Try(Head(c.queue), c.lib) \notin c.ret,
           NEW d, d = [c EXCEPT !.pc = "try", !.at = Try(Head(c.queue), c.lib)]
    PROVE  JobOK(t, d) /\ Grows(c, d)
<1>1. c \in Contexts /\ c.res = "" /\ c.queue \in Seq(PathEntries) /\ c.lib \in Libs
  BY AtWork DEF PlaceOK, Searching
<1>2. PICK r : r = Try(Head(c.queue), c.lib)
  OBVIOUS
<1>3. r \notin c.ret /\ r \in Paths /\ IsSuffix(c.lib.p, r)
  <2>1. Head(c.queue) \in PathEntries
    BY <1>1, HeadTyped, Zenon
  <2> QED
    BY <1>1, <1>2, <2>1, TryIs
<1>4. d = [c EXCEPT !.pc = "try", !.at = r]
  BY <1>2
<1>5. d \in Contexts
  BY <1>1, <1>3, <1>4, SMTT(10), ZenonT(60) DEF Contexts, Pcs, Searching
<1>6. /\ d.pc = "try" /\ d.at = r /\ d.file = c.file /\ d.ret = c.ret /\ d.stack = c.stack
      /\ d.err = c.err /\ d.res = "" /\ d.lib = c.lib /\ d.queue = c.queue
  BY <1>1, <1>4 DEF Contexts
<1> QED
  BY <1>1, <1>3, <1>5, <1>6, LookStep DEF Searching

(* The queue, the marks and the list alone have changed. *)
Queued(c, q, set, list) ==
    [c EXCEPT !.pc = "search", !.queue = q, !.ldconf = set, !.list = list]

Lists == {"", "paths", "ldconf", "default"}

LEMMA QueueOK ==
    ASSUME ElfAssumption, NEW t, NEW c, JobOK(t, c), c.pc \in {"search", "try"},
           NEW q \in Seq(PathEntries), NEW set \in PathSets,
           NEW list \in Lists
    PROVE  JobOK(t, Queued(c, q, set, list)) /\ Grows(c, Queued(c, q, set, list))
<1> DEFINE e == Queued(c, q, set, list)
<1>0. PICK d : d = e
  OBVIOUS
<1>1. c \in Contexts /\ c.res = "" /\ c.lib \in Libs
  BY AtWork DEF PlaceOK, Searching
<1> HIDE DEF e
<1>4. d = Queued(c, q, set, list)
  BY <1>0 DEF e
<1>2. d \in Contexts
  BY <1>1, <1>4 DEF Contexts, Pcs, Searching, Queued, Lists
<1>3. /\ d.pc = "search" /\ d.file = c.file /\ d.ret = c.ret /\ d.stack = c.stack
      /\ d.err = c.err /\ d.res = "" /\ d.lib = c.lib /\ d.queue = q
  BY <1>1, <1>4 DEF Contexts, Queued
<1>5. JobOK(t, d) /\ Grows(c, d)
  BY <1>1, <1>2, <1>3, LookStep DEF Searching
<1> QED
  BY <1>4, <1>5, Zenon

LEMMA NextDirOK ==
    ASSUME ElfAssumption, NEW t, NEW c, JobOK(t, c), c.pc \in {"search", "try"}, c.queue # <<>>,
           NEW set \in PathSets
    PROVE  /\ JobOK(t, NextDir(c)) /\ Grows(c, NextDir(c))
           /\ JobOK(t, [NextDir(c) EXCEPT !.ldconf = set]) /\ Grows(c, [NextDir(c) EXCEPT !.ldconf = set])
<1>1. c \in Contexts /\ c.queue \in Seq(PathEntries)
  BY AtWork DEF PlaceOK, Searching
<1>2. PICK q : q = Tail(c.queue)
  OBVIOUS
<1>3. q \in Seq(PathEntries)
  BY <1>1, <1>2
<1>4. c.ldconf \in PathSets /\ c.list \in Lists
  BY <1>1 DEF Contexts, Lists
<1>5. NextDir(c) = Queued(c, q, c.ldconf, c.list)
  BY <1>1, <1>2 DEF NextDir, Contexts, Queued
<1>6. [NextDir(c) EXCEPT !.ldconf = set] = Queued(c, q, set, c.list)
  BY <1>1, <1>2 DEF NextDir, Contexts, Queued
<1>7. /\ JobOK(t, Queued(c, q, c.ldconf, c.list))
      /\ Grows(c, Queued(c, q, c.ldconf, c.list))
  BY <1>3, <1>4, QueueOK, ZenonT(60)
<1>8. JobOK(t, Queued(c, q, set, c.list)) /\ Grows(c, Queued(c, q, set, c.list))
  BY <1>3, <1>4, QueueOK, ZenonT(60)
<1> QED
  BY <1>5, <1>6, <1>7, <1>8, Zenon

LEMMA NextListOK ==
    ASSUME ElfAssumption, NEW t, NEW c, JobOK(t, c), c.pc = "search",
           NEW d, d = IF c.list = "paths" THEN [c EXCEPT !.list = "ldconf", !.queue = c.ldconf]
                      ELSE [c EXCEPT !.list = "default",
                                     !.queue = Mkpe(Absolute(DefaultLibs), <<>>)]
    PROVE  JobOK(t, d) /\ Grows(c, d)
<1>1. c \in Contexts /\ c.ldconf \in PathSets /\ c.ldconf \in Seq(PathEntries)
  <2>1. c \in Contexts
    BY AtWork DEF Searching
  <2>2. c.ldconf \in PathSets
    BY <2>1 DEF Contexts
  <2> QED
    BY <2>1, <2>2 DEF PathSets
<1>2. PICK q : q = Mkpe(Absolute(DefaultLibs), <<>>)
  OBVIOUS
<1>3. q \in Seq(PathEntries)
  <2>1. DefaultLibs \in Seq(Paths) /\ <<>> \in Paths
    BY ElfAssumption DEF ElfAssumption, Paths
  <2> QED
    BY <1>2, <2>1, AbsoluteTyped, MkpeTyped
<1>5. c.pc \in {"search", "try"} /\ "ldconf" \in Lists /\ "default" \in Lists
  BY DEF Lists
<1>4. d = Queued(c, c.ldconf, c.ldconf, "ldconf") \/ d = Queued(c, q, c.ldconf, "default")
  <2>1. c.list = "paths" => d = Queued(c, c.ldconf, c.ldconf, "ldconf")
    BY <1>1 DEF Contexts, Queued
  <2>2. c.list # "paths" => d = Queued(c, q, c.ldconf, "default")
    BY <1>1, <1>2 DEF Contexts, Queued
  <2> QED
    BY <2>1, <2>2
<1>6. /\ JobOK(t, Queued(c, c.ldconf, c.ldconf, "ldconf"))
      /\ Grows(c, Queued(c, c.ldconf, c.ldconf, "ldconf"))
  BY <1>1, <1>5, QueueOK, ZenonT(60)
<1>7. /\ JobOK(t, Queued(c, q, c.ldconf, "default"))
      /\ Grows(c, Queued(c, q, c.ldconf, "default"))
  BY <1>1, <1>3, <1>5, QueueOK, ZenonT(60)
<1> QED
  BY <1>4, <1>6, <1>7, Zenon

(* The library is in no directory. *)
LEMMA NotFoundOK ==
    ASSUME ElfAssumption, NEW t, NEW c, JobOK(t, c), c.pc = "search",
           NEW d, d = [c EXCEPT !.pc = "needed", !.err = @ \cup {c.lib}]
    PROVE  JobOK(t, d) /\ Grows(c, d)
<1>1. c \in Contexts /\ c.res = "" /\ c.lib \in Libs
  BY AtWork DEF PlaceOK, Searching
<1>2. PICK err : err = c.err \cup {c.lib}
  OBVIOUS
<1>3. err \in SUBSET Libs /\ c.lib \in err /\ c.err \subseteq err
  BY <1>1, <1>2 DEF Contexts
<1>4. d = [c EXCEPT !.pc = "needed", !.err = err]
  BY <1>2
<1>5. d \in Contexts
  BY <1>1, <1>3, <1>4, SMTT(10), ZenonT(60) DEF Contexts, Pcs
<1>6. /\ d.pc = "needed" /\ d.file = c.file /\ d.ret = c.ret /\ d.stack = c.stack
      /\ d.err = err /\ d.res = ""
  BY <1>1, <1>4 DEF Contexts
<1> QED
  BY <1>1, <1>3, <1>5, <1>6, LookStep DEF Searching

(* The loader is called with the path. *)
LEMMA TriesOK ==
    ASSUME ElfAssumption, CacheInv, InterpInv, NEW t, NEW c, JobOK(t, c), c.pc = "try",
           NEW l, l = Loader(c.at)
    PROVE  JobOK(t, Tries(c, l)) /\ Grows(c, Tries(c, l))
<1>1. /\ c \in Contexts /\ JobInv(c) /\ c.res = "" /\ c.file \in c.ret /\ c.at \notin c.ret /\ PlaceOK(c)
      /\ c.queue # <<>> /\ c.lib \in Libs /\ IsSuffix(c.lib.p, c.at) /\ c.queue \in Seq(PathEntries)
      /\ c.ldconf \in PathSets /\ c.at \in Paths /\ \A i \in DOMAIN c.stack : c.stack[i].file \in c.ret
  <2>1. /\ c \in Contexts /\ JobInv(c) /\ c.res = "" /\ c.file \in c.ret /\ PlaceOK(c)
        /\ \A i \in DOMAIN c.stack : c.stack[i].file \in c.ret
    BY AtWork DEF Searching
  <2>2. /\ c.queue # <<>> /\ c.lib \in Libs /\ IsSuffix(c.lib.p, c.at) /\ c.queue \in Seq(PathEntries)
        /\ c.at \notin c.ret
    BY <2>1 DEF PlaceOK, Searching
  <2>3. c.ldconf \in PathSets /\ c.at \in Paths
    BY <2>1 DEF Contexts
  <2> QED
    BY <2>1, <2>2, <2>3
<1>2. PICK d : d = Tries(c, l)
  OBVIOUS
<1>3. CASE d = Done(c, "error")
  <2>1. d = [c EXCEPT !.pc = "done", !.res = "error"]
    BY <1>3 DEF Done
  <2>2. d \in Contexts
    BY <1>1, <2>1 DEF Contexts, Pcs
  <2>3. d.pc = "done" /\ d.res = "error" /\ d.file = c.file /\ d.ret = c.ret /\ d.stack = c.stack
    BY <1>1, <2>1 DEF Contexts
  <2>4. PlaceOK(d) /\ NeedsOK(d)
    BY <1>1, <2>3 DEF PlaceOK, NeedsOK, Before, Searching
  <2> QED
    BY <1>2, <2>2, <2>3, <2>4, SameSet DEF Before, Searching
<1>4. CASE d = NextDir(c)
  <2>1. c.pc \in {"search", "try"} /\ c.queue # <<>> /\ c.ldconf \in PathSets
    BY <1>1
  <2>2. JobOK(t, NextDir(c)) /\ Grows(c, NextDir(c))
    BY <2>1, NextDirOK, Zenon
  <2> QED
    BY <1>2, <1>4, <2>2, Zenon
<1>5. CASE l.err = "ok" /\ d = TakeLib(c, l.f)
  <2>1. HandleOf(c.at, l.f) /\ l.f \in Handles
    BY <1>1, <1>5, LoaderIs DEF HandleOf
  <2>2. PICK err : err = c.err \ {c.lib}
    OBVIOUS
  <2>3. err \in SUBSET Libs /\ \A lib \in c.err : lib \in err \/ lib = c.lib
    BY <1>1, <2>2 DEF Contexts
  <2>4. d = [c EXCEPT !.pc = "enter", !.f = l.f, !.err = err]
    BY <1>5, <2>2 DEF TakeLib
  <2>5. d \in Contexts
    BY <1>1, <2>1, <2>3, <2>4 DEF Contexts, Pcs
  <2>6. /\ d.pc = "enter" /\ d.at = c.at /\ d.f = l.f /\ d.file = c.file /\ d.ret = c.ret
        /\ d.stack = c.stack /\ d.err = err /\ d.res = ""
    BY <1>1, <2>4 DEF Contexts
  <2>7. d.at # d.file
    BY <1>1, <2>6
  <2> QED
    BY <1>1, <1>2, <2>1, <2>3, <2>5, <2>6, <2>7, LookStep DEF Searching
<1>6. CASE l.err = "ok" /\ d = [NextDir(c) EXCEPT !.ldconf = PathSet(@, Head(c.queue).path, Elf(l.f).class)]
  <2>0. Elf(l.f).class \in {32, 64}
    BY <1>1, <1>6, LoaderIs
  <2>1. Elf(l.f).class \in Classes
    BY <2>0 DEF Classes
  <2>2. PICK set \in PathSets : set = PathSet(c.ldconf, Head(c.queue).path, Elf(l.f).class)
    BY <1>1, <2>1, PathSetTyped
  <2>3. d = [NextDir(c) EXCEPT !.ldconf = set]
    BY <1>1, <1>6, <2>2 DEF NextDir, Contexts
  <2>4. c.pc \in {"search", "try"} /\ c.queue # <<>>
    BY <1>1
  <2>5. /\ JobOK(t, [NextDir(c) EXCEPT !.ldconf = set])
        /\ Grows(c, [NextDir(c) EXCEPT !.ldconf = set])
    BY <2>2, <2>4, NextDirOK, Zenon
  <2> QED
    BY <1>2, <2>3, <2>5, Zenon
<1>7. \/ d = Done(c, "error") \/ d = NextDir(c) \/ (l.err = "ok" /\ d = TakeLib(c, l.f))
      \/ (l.err = "ok" /\ d = [NextDir(c) EXCEPT !.ldconf = PathSet(@, Head(c.queue).path, Elf(l.f).class)])
  BY <1>2, Zenon DEF Tries
<1> QED
  BY <1>3, <1>4, <1>5, <1>6, <1>7
-----------------------------------------------------------------------------
(* Every step keeps the invariant. *)

LEMMA JobOf ==
    ASSUME Inv, NEW t \in Jobs
    PROVE  JobOK(t, ctx[t]) /\ ctx \in [Jobs -> Contexts] /\ CacheInv /\ InterpInv
BY DEF Inv, JobsInv, InterpInv, FindInv, JobOK

(* A step that leaves the cache of files alone. *)
LEMMA PlainStep ==
    ASSUME Inv, NEW t \in Jobs, NEW d, UNCHANGED lvars, ctx' = [ctx EXCEPT ![t] = d],
           JobOK(t, d), Grows(ctx[t], d), loaded' = loaded, class' \in Classes, crashed' \in BOOLEAN
    PROVE  Inv'
<1>1. PICK cache : cache = loaded
  OBVIOUS
<1>2. \A name \in DOMAIN cache :
          /\ HandleOf(name, cache[name]) /\ ~cache[name].open
          /\ KnowsInterp(cache[name]) \/ AsLib(name)
  BY <1>1, JobOf DEF CacheInv, InterpInv
<1>3. loaded' = cache
  BY <1>1
<1> QED
  BY <1>2, <1>3, JobStep DEF JobOK

LEMMA StartLineStep ==
    ASSUME Inv, NEW t \in Jobs, StartLine(t)
    PROVE  Inv'
<1>1. PICK c : c = ctx[t]
  OBVIOUS
<1>2. PICK d : d = IF world.jobs[t].find
                   THEN [c EXCEPT !.pc = "find", !.queue = ldconf \o DefaultLibs]
                   ELSE [c EXCEPT !.pc = "load"]
  OBVIOUS
<1>3. ctx' = [ctx EXCEPT ![t] = d]
  BY <1>1, <1>2 DEF StartLine
<1>4. JobOK(t, d) /\ Grows(c, d)
  <2>1. JobOK(t, c) /\ c.pc = "idle" /\ world \in Worlds /\ ldconf \in Seq(ConfDirs(world))
    BY <1>1, JobOf DEF StartLine, Going, Inv, ConfInv
  <2> QED
    BY <1>2, <2>1, StartLineOK, WorldsAssumption, ElfAssumption, SMTT(10), ZenonT(60)
<1> QED
  BY <1>1, <1>3, <1>4, PlainStep DEF StartLine, Inv

LEMMA FindInStep ==
    ASSUME Inv, NEW t \in Jobs, FindIn(t)
    PROVE  Inv'
<1>1. PICK c : c = ctx[t]
  OBVIOUS
<1>2. PICK l : l = Loader(Prefix \o Head(c.queue) \o c.file)
  OBVIOUS
<1>3. PICK e : e = Expand(world.fs, Prefix \o Head(c.queue) \o c.file)
  OBVIOUS
<1>4. PICK d : d = Finds(c, l, e)
  OBVIOUS
<1>5. ctx' = [ctx EXCEPT ![t] = d]
  <2>1. ctx' = [ctx EXCEPT ![t] = Finds(c, l, e)]
    BY <1>1, <1>2, <1>3 DEF FindIn
  <2> QED
    BY <1>4, <2>1
<1>6. JobOK(t, d) /\ Grows(c, d)
  <2>1. JobOK(t, c) /\ c.pc = "find" /\ world \in Worlds /\ c.queue # <<>>
    BY <1>1, JobOf DEF FindIn, Going, Inv, ConfInv
  <2> QED
    BY <1>3, <1>4, <2>1, FindsOK, ExpandAssumption
<1> QED
  BY <1>1, <1>5, <1>6, PlainStep DEF FindIn, Inv

LEMMA FindNothingStep ==
    ASSUME Inv, NEW t \in Jobs, FindNothing(t)
    PROVE  Inv'
<1>1. PICK c : c = ctx[t]
  OBVIOUS
<1>2. PICK d : d = Done(c, "nolib")
  OBVIOUS
<1>3. ctx' = [ctx EXCEPT ![t] = d]
  BY <1>1, <1>2 DEF FindNothing
<1>4. JobOK(t, d) /\ Grows(c, d)
  BY <1>1, <1>2, JobOf, DoneEarly DEF FindNothing, Going, Before
<1> QED
  BY <1>1, <1>3, <1>4, PlainStep DEF FindNothing, Inv

LEMMA LoadRootStep ==
    ASSUME Inv, NEW t \in Jobs, LoadRoot(t)
    PROVE  Inv'
<1>1. PICK c : c = ctx[t]
  OBVIOUS
<1>2. PICK ds : ds = world.jobs[t].ld \o Absolute(ldconf)
  OBVIOUS
<1>3. PICK l : l = Loader(c.file)
  OBVIOUS
<1>4. PICK d : d = Loads(c, l, ds)
  OBVIOUS
<1>5. ctx' = [ctx EXCEPT ![t] = d]
  <2>1. ctx' = [ctx EXCEPT ![t] = Loads(c, l, ds)]
    BY <1>1, <1>2, <1>3 DEF LoadRoot
  <2> QED
    BY <1>4, <2>1
<1>6. ds \in Seq(Directories)
  <2>1. world \in Worlds /\ ldconf \in Seq(ConfDirs(world)) /\ t \in DOMAIN world.jobs
    BY DEF Inv, ConfInv, Jobs
  <2>2. world.jobs[t].ld \in Seq(Directories) /\ ConfDirs(world) \subseteq Paths
    BY <2>1, WorldsAssumption DEF WorldsAssumption
  <2>3. ldconf \in Seq(Paths)
    BY <2>1, <2>2
  <2>4. Absolute(ldconf) \in Seq(Directories)
    BY <2>3, AbsoluteTyped
  <2> QED
    BY <1>2, <2>2, <2>4
<1>7. JobOK(t, d) /\ Grows(c, d)
  <2>1. JobOK(t, c) /\ c.pc = "load" /\ CacheInv /\ InterpInv
    BY <1>1, JobOf DEF LoadRoot, Going
  <2> QED
    BY <1>3, <1>4, <1>6, <2>1, LoadsOK, ElfAssumption
<1> QED
  BY <1>1, <1>5, <1>7, PlainStep DEF LoadRoot, Inv

LEMMA SetClassStep ==
    ASSUME Inv, NEW t \in Jobs, SetClass(t)
    PROVE  Inv'
<1>1. PICK c : c = ctx[t]
  OBVIOUS
<1>2. JobOK(t, c) /\ c.pc = "class" /\ ctx \in [Jobs -> Contexts] /\ c \in Contexts
  BY <1>1, JobOf DEF SetClass, Going
<1>3. PICK f : f = Keeps(c.f)
  OBVIOUS
<1>4. PICK ret : ret = IF Interpreter(c.f) = <<>> THEN {} ELSE {Prefix \o Interpreter(c.f)}
  OBVIOUS
<1>5. PICK d : d = [c EXCEPT !.pc = "enter", !.f = f, !.ret = ret]
  OBVIOUS
<1>6. ctx' = [ctx EXCEPT ![t] = d]
  <2>1. ctx' = [ctx EXCEPT ![t].pc = "enter", ![t].f = f, ![t].ret = ret]
    BY <1>1, <1>3, <1>4 DEF SetClass
  <2> QED
    BY <1>1, <1>2, <1>5, <2>1
<1>7. JobOK(t, d) /\ Grows(c, d)
  BY <1>2, <1>3, <1>4, <1>5, SetClassOK, ElfAssumption
<1>8. class' \in Classes
  <2>1. c.class \in Classes /\ class \in Classes
    BY <1>2 DEF Contexts, Inv
  <2> QED
    BY <1>1, <2>1 DEF SetClass
<1> QED
  BY <1>1, <1>6, <1>7, <1>8, PlainStep DEF SetClass, Inv
LEMMA ParentTyped ==
    ASSUME NEW c, JobInv(c)
    PROVE  Parent(c).run \in Seq(PathEntries) /\ Parent(c).rpath \in PathSets
<1>1. c.stack \in Seq(Frames)
  BY DEF JobInv, Contexts
<1>2. CASE c.stack = <<>>
  <2>1. <<>> \in PathSets /\ <<>> \in Seq(PathEntries)
    BY DEF PathSets, Once
  <2> QED
    BY <1>2, <2>1 DEF Parent
<1>3. CASE c.stack # <<>>
  <2>1. Head(c.stack) \in Frames
    BY <1>1, <1>3, HeadTyped, Zenon
  <2> QED
    BY <1>3, <2>1 DEF Parent, Frames
<1> QED
  BY <1>2, <1>3

(* What resolv keeps of a call. *)
LEMMA FrameTyped ==
    ASSUME ElfAssumption, NEW c, JobInv(c), c.pc = "enter", NEW frame,
           frame = [file |-> c.at, needed |-> Elf(c.f).needed, old |-> Parent(c).run,
                    run |-> Mkpe(Elf(c.f).runpath, PathDir(c.at)),
                    rpath |-> PathAdd(Parent(c).rpath, PathDir(c.at), Elf(c.f).rpath)]
    PROVE  frame \in Frames /\ frame.file = c.at /\ frame.needed = Elf(c.f).needed
<1>1. c.at \in Paths /\ c.f \in Handles
  BY DEF JobInv, Contexts, PlaceOK, HandleOf
<1>2. /\ Elf(c.f).needed \in Seq(Libs) /\ Elf(c.f).rpath \in Seq(Directories)
      /\ Elf(c.f).runpath \in Seq(Directories)
  BY <1>1, ElfTyped
<1>3. PICK rd \in Paths : rd = PathDir(c.at)
  BY <1>1, PathDirTyped
<1>4. Parent(c).run \in Seq(PathEntries) /\ Parent(c).rpath \in PathSets
  BY ParentTyped
<1>5. PICK run \in Seq(PathEntries) : run = Mkpe(Elf(c.f).runpath, rd)
  BY <1>2, MkpeTyped
<1>6. PICK rpath \in PathSets : rpath = PathAdd(Parent(c).rpath, rd, Elf(c.f).rpath)
  BY <1>2, <1>4, PathAddTyped
<1>7. PICK needed \in Seq(Libs) : needed = Elf(c.f).needed
  BY <1>2
<1>8. PICK old \in Seq(PathEntries) : old = Parent(c).run
  BY <1>4
<1>9. frame = [file |-> c.at, needed |-> needed, old |-> old, run |-> run, rpath |-> rpath]
  BY <1>3, <1>5, <1>6, <1>7, <1>8
<1> QED
  BY <1>1, <1>7, <1>9 DEF Frames

(* The file is closed and in the cache, with the interpreter that was read
   unless it is the library of a program. *)
LEMMA CacheStep ==
    ASSUME Inv, NEW t, NEW c, JobOK(t, c), c.pc = "enter", NEW cache,
           cache = IF c.f.open THEN Cached([c.f EXCEPT !.open = FALSE]) ELSE loaded,
           NEW name \in DOMAIN cache
    PROVE  /\ HandleOf(name, cache[name]) /\ ~cache[name].open
           /\ KnowsInterp(cache[name]) \/ AsLib(name) \/ (c.file # name /\ name = c.at)
<1>1. HandleOf(c.at, c.f) /\ (c.at = c.file => KnowsInterp(c.f) \/ AsLib(c.at))
  BY DEF JobOK, JobInv, PlaceOK, InterpOK
<1>2. ASSUME NEW n \in DOMAIN loaded
      PROVE  /\ HandleOf(n, loaded[n]) /\ ~loaded[n].open
             /\ KnowsInterp(loaded[n]) \/ AsLib(n)
  BY DEF Inv, CacheInv, InterpInv
<1>3. PICK f : f = [c.f EXCEPT !.open = FALSE]
  OBVIOUS
<1>4. HandleOf(c.at, f) /\ ~f.open /\ (KnowsInterp(c.f) => KnowsInterp(f))
  <2>1. c.f \in Handles
    BY <1>1 DEF HandleOf
  <2>2. /\ f \in Handles /\ f.name = c.f.name /\ f.real = c.f.real /\ f.interp = c.f.interp
        /\ f.open = FALSE
    BY <1>3, <2>1 DEF Handles
  <2> QED
    BY <1>1, <2>2 DEF HandleOf, KnowsInterp, Elf
<1>5. CASE ~c.f.open
  BY <1>2, <1>5
<1>6. CASE c.f.open
  <2>1. cache = [n \in DOMAIN loaded \cup {c.at} |-> IF n = c.at THEN f ELSE loaded[n]]
    BY <1>3, <1>4, <1>6 DEF Cached, HandleOf
  <2>2. CASE name = c.at
    <3>1. cache[name] = f
      BY <2>1, <2>2
    <3> QED
      BY <1>1, <1>4, <2>2, <3>1
  <2>3. CASE name # c.at
    <3>1. cache[name] = loaded[name] /\ name \in DOMAIN loaded
      BY <2>1, <2>3
    <3> QED
      BY <1>2, <3>1
  <2> QED
    BY <2>2, <2>3
<1> QED
  BY <1>5, <1>6

LEMMA EnterStep ==
    ASSUME Inv, NEW t \in Jobs, Enter(t)
    PROVE  Inv'
<1>1. PICK c : c = ctx[t]
  OBVIOUS
<1>2. JobOK(t, c) /\ c.pc = "enter" /\ ctx \in [Jobs -> Contexts] /\ c \in Contexts
  BY <1>1, JobOf DEF Enter, Going
<1>3. CASE c.at \in c.ret
  <2>1. PICK d : d = [c EXCEPT !.pc = "needed"]
    OBVIOUS
  <2>2. ctx' = [ctx EXCEPT ![t].pc = "needed"] /\ loaded' = loaded
    BY <1>1, <1>3 DEF Enter
  <2>3. ctx' = [ctx EXCEPT ![t] = d]
    BY <1>1, <1>2, <2>1, <2>2
  <2>4. JobOK(t, d) /\ Grows(c, d)
    BY <1>2, <1>3, <2>1, EnterAgainOK, ElfAssumption
  <2> QED
    BY <1>1, <2>2, <2>3, <2>4, PlainStep DEF Enter, Inv
<1>4. CASE c.at \notin c.ret
  <2>1. PICK frame :
           frame = [file |-> c.at, needed |-> Elf(c.f).needed, old |-> Parent(c).run,
                    run |-> Mkpe(Elf(c.f).runpath, PathDir(c.at)),
                    rpath |-> PathAdd(Parent(c).rpath, PathDir(c.at), Elf(c.f).rpath)]
    OBVIOUS
  <2>2. PICK d : d = [c EXCEPT !.pc = "needed", !.ret = @ \cup {c.at}, !.stack = <<frame>> \o @]
    OBVIOUS
  <2>3. PICK cache : cache = IF c.f.open THEN Cached([c.f EXCEPT !.open = FALSE]) ELSE loaded
    OBVIOUS
  <2>4. /\ ctx' = [ctx EXCEPT ![t].pc = "needed", ![t].ret = @ \cup {c.at},
                              ![t].stack = <<frame>> \o @]
        /\ loaded' = cache
    BY <1>1, <1>4, <2>1, <2>3 DEF Enter, Dynamic
  <2>5. ctx' = [ctx EXCEPT ![t] = d]
    BY <1>1, <1>2, <2>2, <2>4
  <2>6. frame \in Frames /\ frame.file = c.at /\ frame.needed = Elf(c.f).needed
    BY <1>2, <2>1, FrameTyped, ElfAssumption DEF JobOK
  <2>7. JobOK(t, d) /\ Grows(c, d)
    BY <1>2, <2>2, <2>6, EnterOK, ElfAssumption
  <2>8. d.file = c.file /\ c.at \in d.ret
    BY <1>2, <2>2 DEF Contexts
  <2>9. \A name \in DOMAIN cache :
            /\ HandleOf(name, cache[name]) /\ ~cache[name].open
            /\ KnowsInterp(cache[name]) \/ AsLib(name) \/ (d.file # name /\ name \in d.ret)
    BY <1>2, <2>3, <2>8, CacheStep
  <2> QED
    BY <1>1, <2>4, <2>5, <2>7, <2>9, JobStep DEF JobOK, Enter, Inv
<1> QED
  BY <1>3, <1>4

LEMMA SearchStep ==
    ASSUME Inv, NEW t \in Jobs, Search(t)
    PROVE  Inv'
<1>1. PICK c : c = ctx[t]
  OBVIOUS
<1>2. JobOK(t, c) /\ c.pc = "needed" /\ c.stack # <<>> /\ ctx \in [Jobs -> Contexts] /\ c \in Contexts
  BY <1>1, JobOf DEF Search, Going
<1>3. PICK frame : frame = Head(c.stack)
  OBVIOUS
<1>4. PICK d : d = NeedsNext(c)
  OBVIOUS
<1>5. More(frame) /\ ctx' = [ctx EXCEPT ![t] = d]
  BY <1>1, <1>3, <1>4 DEF Search
<1>6. d = [c EXCEPT !.pc = "search", !.lib = Head(frame.needed), !.list = "paths",
                    !.stack[1].needed = Tail(@),
                    !.queue = frame.old \o frame.run \o frame.rpath]
  BY <1>3, <1>4 DEF NeedsNext
<1>7. JobOK(t, d) /\ Grows(c, d)
  BY <1>2, <1>3, <1>5, <1>6, SearchOK, ElfAssumption, SMTT(10), ZenonT(60)
<1> QED
  BY <1>1, <1>5, <1>7, PlainStep DEF Search, Inv

LEMMA LeaveStep ==
    ASSUME Inv, NEW t \in Jobs, Leave(t)
    PROVE  Inv'
<1>1. PICK c : c = ctx[t]
  OBVIOUS
<1>2. /\ JobOK(t, c) /\ c.pc = "needed" /\ c.stack # <<>> /\ ~More(Head(c.stack))
      /\ ctx \in [Jobs -> Contexts] /\ c \in Contexts
  BY <1>1, JobOf DEF Leave, Going
<1>3. PICK d : d = [c EXCEPT !.stack = Tail(@)]
  OBVIOUS
<1>4. ctx' = [ctx EXCEPT ![t] = d]
  BY <1>1, <1>2, <1>3 DEF Leave
<1>5. JobOK(t, d) /\ Grows(c, d)
  BY <1>2, <1>3, LeaveOK, ElfAssumption
<1> QED
  BY <1>1, <1>4, <1>5, PlainStep DEF Leave, Inv

LEMMA ResolvedStep ==
    ASSUME Inv, NEW t \in Jobs, Resolved(t)
    PROVE  Inv'
<1>1. PICK c : c = ctx[t]
  OBVIOUS
<1>2. JobOK(t, c) /\ c.pc = "needed" /\ c.stack = <<>>
  BY <1>1, JobOf DEF Resolved, Going
<1>3. PICK d : d = Done(c, IF c.err = {} THEN "ok" ELSE "missing")
  OBVIOUS
<1>4. ctx' = [ctx EXCEPT ![t] = d]
  BY <1>1, <1>3 DEF Resolved
<1>5. JobOK(t, d) /\ Grows(c, d)
  BY <1>2, <1>3, ResolvedOK, ElfAssumption
<1> QED
  BY <1>1, <1>4, <1>5, PlainStep DEF Resolved, Inv

LEMMA ExistsStep ==
    ASSUME Inv, NEW t \in Jobs, Exists(t)
    PROVE  Inv'
<1>1. PICK c : c = ctx[t]
  OBVIOUS
<1>2. JobOK(t, c) /\ c.pc = "search" /\ c.queue # <<>> /\ ctx \in [Jobs -> Contexts] /\ c \in Contexts
  BY <1>1, JobOf DEF Exists, Going
<1>3. PICK d : d = [c EXCEPT !.pc = "exists", !.at = Try(Head(c.queue), c.lib)]
  OBVIOUS
<1>4. /\ Try(Head(c.queue), c.lib) \in c.ret
      /\ ctx' = [ctx EXCEPT ![t].pc = "exists", ![t].at = Try(Head(c.queue), c.lib)]
  BY <1>1 DEF Exists
<1>5. ctx' = [ctx EXCEPT ![t] = d]
  BY <1>1, <1>2, <1>3, <1>4
<1>6. JobOK(t, d) /\ Grows(c, d)
  BY <1>2, <1>3, <1>4, ExistsOK, ElfAssumption
<1> QED
  BY <1>1, <1>5, <1>6, PlainStep DEF Exists, Inv

LEMMA LookStepOf ==
    ASSUME Inv, NEW t \in Jobs, Look(t)
    PROVE  Inv'
<1>1. PICK c : c = ctx[t]
  OBVIOUS
<1>2. JobOK(t, c) /\ c.pc = "search" /\ c.queue # <<>> /\ ctx \in [Jobs -> Contexts] /\ c \in Contexts
  BY <1>1, JobOf DEF Look, Going
<1>3. UNCHANGED lvars /\ loaded' = loaded /\ class' \in Classes
  BY DEF Look, Inv
<1>4. crashed' \in BOOLEAN
  BY DEF Look, Inv
<1>5. CASE ctx' = [ctx EXCEPT ![t] = NextDir(c)]
  <2>1. PICK d : d = NextDir(c)
    OBVIOUS
  <2>2. c.pc \in {"search", "try"} /\ c.ldconf \in PathSets
    BY <1>2 DEF Contexts
  <2>3. JobOK(t, NextDir(c)) /\ Grows(c, NextDir(c))
    BY <1>2, <2>2, NextDirOK, ElfAssumption, Zenon
  <2>4. JobOK(t, d) /\ Grows(ctx[t], d) /\ ctx' = [ctx EXCEPT ![t] = d]
    BY <1>1, <1>5, <2>1, <2>3
  <2> QED
    BY <1>3, <1>4, <2>4, PlainStep
<1>6. CASE /\ Try(Head(c.queue), c.lib) \notin c.ret
           /\ ctx' = [ctx EXCEPT ![t].pc = "try", ![t].at = Try(Head(c.queue), c.lib)]
  <2>1. PICK d : d = [c EXCEPT !.pc = "try", !.at = Try(Head(c.queue), c.lib)]
    OBVIOUS
  <2>2. ctx' = [ctx EXCEPT ![t] = d]
    BY <1>1, <1>2, <1>6, <2>1
  <2>3. JobOK(t, d) /\ Grows(c, d)
    BY <1>2, <1>6, <2>1, TryOK, ElfAssumption
  <2> QED
    BY <1>1, <1>3, <1>4, <2>2, <2>3, PlainStep
<1>7. CASE ctx' = ctx
  <2>1. ctx' = [ctx EXCEPT ![t] = c]
    BY <1>1, <1>2, <1>7
  <2>2. Grows(c, c)
    BY DEF Grows
  <2> QED
    BY <1>1, <1>2, <1>3, <1>4, <2>1, <2>2, PlainStep
<1>8. \/ ctx' = [ctx EXCEPT ![t] = NextDir(c)]
      \/ /\ Try(Head(c.queue), c.lib) \notin c.ret
         /\ ctx' = [ctx EXCEPT ![t].pc = "try", ![t].at = Try(Head(c.queue), c.lib)]
      \/ ctx' = ctx
  BY <1>1, Zenon DEF Look
<1> QED
  BY <1>5, <1>6, <1>7, <1>8

LEMMA LoadStep ==
    ASSUME Inv, NEW t \in Jobs, Load(t)
    PROVE  Inv'
<1>1. PICK c : c = ctx[t]
  OBVIOUS
<1>2. JobOK(t, c) /\ c.pc = "try" /\ CacheInv /\ InterpInv
  BY <1>1, JobOf DEF Load, Going
<1>3. PICK l : l = Loader(c.at)
  OBVIOUS
<1>4. PICK d : d = Tries(c, l)
  OBVIOUS
<1>5. ctx' = [ctx EXCEPT ![t] = d]
  <2>1. ctx' = [ctx EXCEPT ![t] = Tries(c, l)]
    BY <1>1, <1>3 DEF Load
  <2> QED
    BY <1>4, <2>1
<1>6. JobOK(t, d) /\ Grows(c, d)
  BY <1>2, <1>3, <1>4, TriesOK, ElfAssumption
<1> QED
  BY <1>1, <1>5, <1>6, PlainStep DEF Load, Inv

LEMMA NextListStep ==
    ASSUME Inv, NEW t \in Jobs, NextList(t)
    PROVE  Inv'
<1>1. PICK c : c = ctx[t]
  OBVIOUS
<1>2. JobOK(t, c) /\ c.pc = "search"
  BY <1>1, JobOf DEF NextList, Going
<1>3. PICK d : d = IF c.list = "paths" THEN [c EXCEPT !.list = "ldconf", !.queue = c.ldconf]
                   ELSE [c EXCEPT !.list = "default",
                                  !.queue = Mkpe(Absolute(DefaultLibs), <<>>)]
  OBVIOUS
<1>4. ctx' = [ctx EXCEPT ![t] = d]
  BY <1>1, <1>3 DEF NextList
<1>5. JobOK(t, d) /\ Grows(c, d)
  BY <1>2, <1>3, NextListOK, ElfAssumption, SMTT(10), ZenonT(60)
<1> QED
  BY <1>1, <1>4, <1>5, PlainStep DEF NextList, Inv

LEMMA NotFoundAtStep ==
    ASSUME Inv, NEW t \in Jobs, NotFoundAt(t)
    PROVE  Inv'
<1>1. PICK c : c = ctx[t]
  OBVIOUS
<1>2. JobOK(t, c) /\ c.pc = "search" /\ ctx \in [Jobs -> Contexts] /\ c \in Contexts
  BY <1>1, JobOf DEF NotFoundAt, Going
<1>3. PICK d : d = [c EXCEPT !.pc = "needed", !.err = @ \cup {c.lib}]
  OBVIOUS
<1>4. ctx' = [ctx EXCEPT ![t] = d]
  BY <1>1, <1>2, <1>3 DEF NotFoundAt
<1>5. JobOK(t, d) /\ Grows(c, d)
  BY <1>2, <1>3, NotFoundOK, ElfAssumption
<1> QED
  BY <1>1, <1>4, <1>5, PlainStep DEF NotFoundAt, Inv

LEMMA SkipStep ==
    ASSUME Inv, NEW t \in Jobs, Skip(t)
    PROVE  Inv'
<1>1. PICK c : c = ctx[t]
  OBVIOUS
<1>2. JobOK(t, c) /\ c.pc = "exists" /\ ctx \in [Jobs -> Contexts] /\ c \in Contexts
  BY <1>1, JobOf DEF Skip, Going
<1>3. PICK d : d = [c EXCEPT !.pc = "needed"]
  OBVIOUS
<1>4. ctx' = [ctx EXCEPT ![t] = d]
  BY <1>1, <1>2, <1>3 DEF Skip
<1>5. JobOK(t, d) /\ Grows(c, d)
  BY <1>2, <1>3, SkipOK, ElfAssumption
<1> QED
  BY <1>1, <1>4, <1>5, PlainStep DEF Skip, Inv

(* A step of ReadConfig: no goroutine takes one. *)
LEMMA ReadingKeepsWorld ==
    ASSUME LdNext
    PROVE  world' = world
BY DEF LdNext, OpenNext, ScanDir, ScanInclude, Return, Fail

LEMMA OthersSame ==
    ASSUME Inv, world' = world, UNCHANGED rvars, ConfInv'
    PROVE  Inv'
<1>1. Jobs' = Jobs /\ ctx' = ctx /\ loaded' = loaded /\ class' = class /\ crashed' = crashed
  BY DEF Jobs, rvars
<1>2. ASSUME NEW name PROVE AsLib(name)' <=> AsLib(name)
  BY <1>1 DEF AsLib
<1>3. ASSUME NEW t \in Jobs PROVE (JobInv(ctx[t]) /\ InterpOK(ctx[t]) /\ FindOK(t, ctx[t]))'
  <2>1. PICK c : c = ctx[t]
    OBVIOUS
  <2>2. JobInv(c) /\ InterpOK(c) /\ FindOK(t, c)
    BY <2>1, JobOf DEF JobOK
  <2>3. JobInv(c)' /\ InterpOK(c)'
    BY <1>2, <2>2, SameJob, InterpStays
  <2>4. FindOK(t, c)'
    BY <2>2 DEF FindOK
  <2>5. ctx'[t] = c
    BY <1>1, <2>1
  <2> QED
    BY <2>3, <2>4, <2>5
<1>4. JobsInv' /\ FindInv'
  BY <1>1, <1>3 DEF JobsInv, FindInv, Inv
<1>5. ASSUME NEW name \in DOMAIN loaded
      PROVE  /\ HandleOf(name, loaded[name])' /\ ~loaded[name].open
             /\ KnowsInterp(loaded[name]) \/ AsLib(name)'
  <2>1. PICK f : f = loaded[name]
    OBVIOUS
  <2>2. HandleOf(name, f) /\ ~f.open /\ (KnowsInterp(f) \/ AsLib(name))
    BY <2>1 DEF Inv, CacheInv, InterpInv
  <2>3. HandleOf(name, f)'
    BY <2>2, SameHandle
  <2>4. HandleOf(name, loaded[name])'
    BY <1>1, <2>1, <2>3 DEF HandleOf, Stands, Elf
  <2> QED
    BY <1>2, <2>1, <2>2, <2>4
<1>6. CacheInv' /\ InterpInv'
  BY <1>1, <1>3, <1>5 DEF CacheInv, InterpInv, KnowsInterp, Elf, HandleOf, Stands
<1> QED
  BY <1>1, <1>4, <1>6 DEF Inv

LEMMA FreshOK ==
    ASSUME Init, WorldsAssumption, NEW t \in Jobs
    PROVE  JobOK(t, ctx[t])
<1>1. PICK file \in Paths : file = world.jobs[t].file
  BY WorldsAssumption DEF Init, WorldsAssumption, Jobs
<1>2. PICK c : c = ctx[t]
  OBVIOUS
<1>3. c = [pc |-> "idle", file |-> file, at |-> <<>>, f |-> <<>>, class |-> None, ldconf |-> <<>>,
           ret |-> {}, err |-> {}, stack |-> <<>>, lib |-> <<>>, queue |-> <<>>, list |-> "",
           res |-> ""]
  BY <1>1, <1>2 DEF Init, Fresh
<1>4. c \in Contexts
  <2>1. <<>> \in Paths /\ <<>> \in PathSets /\ <<>> \in Seq(Frames) /\ <<>> \in Seq(Paths)
        /\ None \in Classes
    BY DEF Paths, PathSets, Once, Classes
  <2> QED
    BY <1>3, <2>1 DEF Contexts, Pcs, Before
<1>5. FindOK(t, c)
  BY <1>1, <1>3 DEF FindOK
<1> QED
  BY <1>2, <1>3, <1>4, <1>5, NothingYet DEF Before

LEMMA InitInv == Init => Inv
<1> SUFFICES ASSUME Init PROVE Inv
  OBVIOUS
<1>1. ConfInv
  BY ConfInit, LdConfAssumption
<1>2. \A t \in Jobs : JobOK(t, ctx[t])
  BY FreshOK, WorldsAssumption
<1>3. ctx \in [Jobs -> Contexts]
  <2>1. \A t \in Jobs : ctx[t] \in Contexts
    BY <1>2 DEF JobOK, JobInv
  <2>2. ctx = [t \in Jobs |-> Fresh(world.jobs[t])]
    BY DEF Init
  <2> QED
    BY <2>1, <2>2
<1>4. DOMAIN loaded = {}
  BY EmptyDomain DEF Init
<1>5. JobsInv /\ FindInv
  BY <1>2, <1>3 DEF JobsInv, FindInv, JobOK
<1>6. CacheInv /\ InterpInv
  BY <1>2, <1>4 DEF CacheInv, InterpInv, JobOK
<1> QED
  BY <1>1, <1>5, <1>6 DEF Inv, Init, Classes

LEMMA StepInv == Inv /\ [Next]_vars => Inv'
<1> SUFFICES ASSUME Inv, [Next]_vars PROVE Inv'
  OBVIOUS
<1>1. CASE Config
  <2>1. world' = world /\ UNCHANGED rvars
    BY <1>1, ReadingKeepsWorld DEF Config
  <2>2. ConfInv'
    BY <1>1, ConfStep, LdConfAssumption, WorldsAssumption DEF Config, Inv
  <2> QED
    BY <2>1, <2>2, OthersSame
<1>2. ASSUME NEW t \in Jobs, Work(t) PROVE Inv'
  BY <1>2, StartLineStep, FindInStep, FindNothingStep, LoadRootStep, SetClassStep, EnterStep,
     SearchStep, LeaveStep, ResolvedStep, ExistsStep, LookStepOf, LoadStep, NextListStep,
     NotFoundAtStep, SkipStep DEF Work
<1>3. CASE UNCHANGED vars
  <2>1. UNCHANGED lvars /\ UNCHANGED rvars /\ world' = world
    BY <1>3 DEF vars, lvars
  <2>2. ConfInv'
    BY <2>1, ConfSame DEF Inv
  <2> QED
    BY <2>1, <2>2, OthersSame
<1> QED
  BY <1>1, <1>2, <1>3 DEF Next, Terminated

(* The invariant holds in every state: of each goroutine, that it awaits what
   the files of its set need, and of each file, that its interpreter is known
   or that it is another program's library. *)
THEOREM ResolverInvariant == Spec => []Inv
BY InitInv, StepInv, PTL DEF Spec

(* The types: of ReadConfig never more than MaxOpen files are open, every file
   in the cache is closed and under its own name, no directory is in a set
   twice, and a call of resolv is under way only for files of the set. *)
THEOREM ResolverTyped == Spec => []TypeOK
<1>1. Inv => TypeOK
  <2> SUFFICES ASSUME Inv PROVE TypeOK
    OBVIOUS
  <2>1. conf \in {"read", "ok", "failed"} /\ OpenFiles <= MaxOpen
    BY DEF Inv, ConfInv, CallsOK, OpenFiles, OpenOf
  <2>2. class \in {None, 32, 64} /\ crashed \in BOOLEAN
    BY DEF Inv, Classes
  <2>3. \A name \in DOMAIN loaded : loaded[name].name = name /\ ~loaded[name].open
    BY DEF Inv, CacheInv, HandleOf
  <2>4. ASSUME NEW t \in Jobs
        PROVE  /\ ctx[t].pc \in {"idle", "find", "load", "class", "enter", "needed", "search",
                                 "exists", "try", "done"}
               /\ \A i, j \in DOMAIN ctx[t].ldconf :
                     ctx[t].ldconf[i].path = ctx[t].ldconf[j].path => i = j
               /\ {ctx[t].stack[i].file : i \in DOMAIN ctx[t].stack} \subseteq ctx[t].ret
    <3>1. PICK c : c = ctx[t]
      OBVIOUS
    <3>2. c \in Contexts /\ PlaceOK(c)
      BY <3>1, JobOf DEF JobOK, JobInv
    <3>3. c.pc \in Pcs /\ c.ldconf \in PathSets
      BY <3>2 DEF Contexts
    <3>4. \A i \in DOMAIN c.stack : c.stack[i].file \in c.ret
      BY <3>2 DEF PlaceOK
    <3>5. Once(c.ldconf)
      BY <3>3 DEF PathSets
    <3> QED
      BY <3>1, <3>3, <3>4, <3>5 DEF Once, Pcs, Before, Searching
  <2> QED
    BY <2>1, <2>2, <2>3, <2>4 DEF TypeOK
<1> QED
  BY <1>1, ResolverInvariant, PTL

(* A program that Resolve has resolved without an error has in its set, of
   each file in it, the libraries the file needs before a libc.so. *)
THEOREM ResolvedClosed == Spec => []Closed
<1>1. Inv => Closed
  <2> SUFFICES ASSUME Inv, NEW t \in Jobs, ctx[t].res = "ok", NEW file \in ctx[t].ret,
                      ~IsInterp(file), NEW i \in DOMAIN Elf(Opens(file).f).needed,
                      Counts(Elf(Opens(file).f).needed, i)
               PROVE  \E lib \in ctx[t].ret : IsSuffix(Elf(Opens(file).f).needed[i].p, lib)
    BY DEF Closed, IsInterp, Counts
  <2>1. PICK c : c = ctx[t]
    OBVIOUS
  <2>2. PICK needed : needed = Elf(Opens(file).f).needed
    OBVIOUS
  <2>3. PlaceOK(c) /\ NeedsOK(c) /\ c.res = "ok"
    BY <2>1, JobOf DEF JobOK, JobInv
  <2>4. c.pc = "done" /\ c.err = {} /\ c.stack = <<>>
    BY <2>3 DEF PlaceOK
  <2>5. Awaited(c, file, needed, i)
    BY <2>1, <2>2, <2>3 DEF NeedsOK
  <2>6. DOMAIN c.stack = {}
    BY <2>4, EmptyDomain
  <2>7. Found1(c, needed[i])
    BY <2>4, <2>5, <2>6 DEF Awaited
  <2> QED
    BY <2>1, <2>2, <2>7 DEF Found1
<1> QED
  BY <1>1, ResolverInvariant, PTL

(* A program that has been resolved, with or without libraries that are
   missing, has its interpreter in its set, whichever goroutine has loaded or
   closed its file first, unless it is a library of another program. *)
THEOREM InterpreterKept == Spec => []InterpKept
<1>1. Inv => InterpKept
  <2> SUFFICES ASSUME Inv PROVE InterpKept
    OBVIOUS
  <2>1. ASSUME NEW t \in Jobs, ctx[t].res \in {"ok", "missing"}
        PROVE  HasInterp(ctx[t]) \/ AsLib(ctx[t].file)
    BY <2>1, JobOf DEF JobOK, InterpOK
  <2> QED
    BY <2>1, Zenon DEF InterpKept, HasInterp, AsLib
<1> QED
  BY <1>1, ResolverInvariant, PTL
-----------------------------------------------------------------------------
(* Find *)

(* What Find has looked at, of the directories ds: at first nothing it could
   have taken, then the first that has a 64-bit library of the name. *)
FileAt(ds, job, i) == Prefix \o ds[i] \o job.file
Has64(w, ds, job, i) ==
    LET there == Follow(w.fs, Prefix, Trimmed(FileAt(ds, job, i)))
    IN there.err = "ok" /\ there.path \in DOMAIN ElfFiles /\ ElfFiles[there.path].class = 64
NoneTo(w, ds, job, k) == \A i \in 1..k : ~Has64(w, ds, job, i)
FirstIn(w, ds, job, c) ==
    \E i \in DOMAIN ds :
        /\ Has64(w, ds, job, i) /\ NoneTo(w, ds, job, i - 1)
        /\ c.file = Follow(w.fs, Prefix, Trimmed(FileAt(ds, job, i))).path
Looked(w, ds, job, c) ==
    job.find =>
        /\ c.pc = "find" => \E k \in 0..Len(ds) :
                              c.queue = SubSeq(ds, k + 1, Len(ds)) /\ NoneTo(w, ds, job, k)
        /\ c.pc = "load" => FirstIn(w, ds, job, c)
        /\ c.res = "nolib" => NoneTo(w, ds, job, Len(ds))

LooksInv ==
    /\ conf # "ok" => \A t \in Jobs : ctx[t].pc = "idle"
    /\ class # 32 /\ Plain(world.fs) =>
          \A t \in Jobs : Looked(world, ldconf \o DefaultLibs, world.jobs[t], ctx[t])

(* In the root file system the loader has what is there. *)
LEMMA AllOf ==
    ASSUME NEW p \in Paths, Prefix = <<>>
    PROVE  Trimmed(p) = p
<1>1. Len(Prefix) = 0
  OBVIOUS
<1>2. SubSeq(p, 1, Len(p)) = p
  BY DEF Paths
<1> QED
  BY <1>1, <1>2 DEF Trimmed

LEMMA OpensInRoot ==
    ASSUME ExpandsInRoot, world \in Worlds, Plain(world.fs), NEW t \in Jobs, world.jobs[t].find,
           NEW dir \in ConfDirs(world) \cup Range(DefaultLibs),
           NEW p \in Paths, p = Prefix \o dir \o world.jobs[t].file,
           NEW there, there = Follow(world.fs, Prefix, Trimmed(p))
    PROVE  /\ Opens(p).err = "ok" <=> there.err = "ok" /\ there.path \in DOMAIN ElfFiles
           /\ Opens(p).err = "ok" => Opens(p).f.real = there.path
           /\ there.err = "ok" => Expand(world.fs, p).err = "ok" /\ Expand(world.fs, p).s = there.path
<1>1. PICK e : e = Expand(world.fs, p)
  OBVIOUS
<1>2. /\ e.err = "ok" \/ there.err = "ok" =>
             /\ e.err = "ok" /\ there.err = "ok" /\ e.s = there.path
             /\ OsStat(world.fs, e.s) = there
      /\ there.err = "ok" /\ there.path \in DOMAIN ElfFiles => world.fs[there.path].kind # "d"
  <2>1. t \in DOMAIN world.jobs
    BY DEF Jobs
  <2> QED
    BY <1>1, <2>1, Zenon DEF ExpandsInRoot
<1>3. PICK at : at = IF Prefix = <<>> THEN OsStat(world.fs, p)
                     ELSE IF e.err = "ok" THEN OsStat(world.fs, e.s) ELSE NotFound(e.err)
  OBVIOUS
<1>4. Opens(p) = Opened(p, at)
  <2>1. CASE Prefix = <<>>
    <3>1. Opens(p) = OpenAt(p, [s |-> p, err |-> "ok"])
      BY <2>1 DEF Opens
    <3> QED
      BY <1>3, <2>1, <3>1 DEF OpenAt
  <2>2. CASE Prefix # <<>>
    BY <1>1, <1>3, <2>2 DEF Opens, OpenAt
  <2> QED
    BY <2>1, <2>2
<1>5. (at.err = "ok" <=> there.err = "ok") /\ (there.err = "ok" => at = there)
  <2>1. CASE Prefix = <<>>
    <3>1. OsStat(world.fs, p) = there
      BY <2>1, AllOf DEF OsStat
    <3> QED
      BY <1>3, <2>1, <3>1
  <2>2. CASE Prefix # <<>>
    <3>1. e.err # "ok" => NotFound(e.err).err # "ok"
      BY DEF NotFound
    <3> QED
      BY <1>2, <1>3, <2>2, <3>1
  <2> QED
    BY <2>1, <2>2
<1>6. PICK o : o = Opens(p)
  OBVIOUS
<1>7. PICK h : h = [name |-> p, real |-> at.path, interp |-> <<>>, open |-> TRUE]
  OBVIOUS
<1> DEFINE elf == at.err = "ok" /\ world.fs[at.path].kind # "d" /\ at.path \in DOMAIN ElfFiles
<1>10. at.path \in DOMAIN ElfFiles => at.path \notin Truncated
  BY ElfAssumption DEF ElfAssumption
<1>8. \/ ~elf /\ \E err \in {"none", "other", "format"} : o = [err |-> err]
      \/ elf /\ o = [err |-> "ok", f |-> h]
  BY <1>4, <1>6, <1>7, <1>10 DEF Opened, Fails
<1>9. (o.err = "ok" <=> elf) /\ (o.err = "ok" => o.f.real = at.path)
  <2>1. h.real = at.path
    BY <1>7
  <2> HIDE DEF elf
  <2> QED
    BY <1>8, <2>1
<1> QED
  BY <1>1, <1>2, <1>5, <1>6, <1>9

(* Find takes what it looks at if that is a 64-bit library. *)
LEMMA FindTakes ==
    ASSUME Inv, ExpandsInRoot, Plain(world.fs), class # 32, NEW t \in Jobs, world.jobs[t].find,
           NEW ds \in Seq(ConfDirs(world) \cup Range(DefaultLibs)), NEW i \in DOMAIN ds,
           NEW p, p = FileAt(ds, world.jobs[t], i), NEW l, l = Loader(p),
           NEW e, e = Expand(world.fs, p)
    PROVE  /\ Has64(world, ds, world.jobs[t], i) <=> l.err = "ok" /\ Match(Elf(l.f).class)
           /\ Has64(world, ds, world.jobs[t], i) =>
                 e.err = "ok" /\ e.s = Follow(world.fs, Prefix, Trimmed(p)).path
<1>1. PICK there : there = Follow(world.fs, Prefix, Trimmed(p))
  OBVIOUS
<1>2. ds[i] \in ConfDirs(world) \cup Range(DefaultLibs) /\ world \in Worlds
  BY DEF Inv, ConfInv
<1>3. p \in Paths
  <2>1. ds[i] \in Paths
    <3>1. ConfDirs(world) \subseteq Paths /\ Range(DefaultLibs) \subseteq Paths
      BY <1>2, WorldsAssumption, ElfAssumption DEF WorldsAssumption, ElfAssumption, Range
    <3> QED
      BY <1>2, <3>1
  <2>2. Prefix \in Paths /\ world.jobs[t].file \in Paths
    BY <1>2, WorldsAssumption, ElfAssumption DEF WorldsAssumption, ElfAssumption, Jobs
  <2>3. Prefix \o ds[i] \o world.jobs[t].file \in Paths
    BY <2>1, <2>2 DEF Paths
  <2> QED
    BY <2>3 DEF FileAt
<1>4. /\ Opens(p).err = "ok" <=> there.err = "ok" /\ there.path \in DOMAIN ElfFiles
      /\ Opens(p).err = "ok" => Opens(p).f.real = there.path
      /\ there.err = "ok" => e.err = "ok" /\ e.s = there.path
  <2>1. p = Prefix \o ds[i] \o world.jobs[t].file
    BY DEF FileAt
  <2>2. PICK dir \in ConfDirs(world) \cup Range(DefaultLibs) : dir = ds[i]
    BY <1>2
  <2> QED
    BY <1>1, <1>2, <1>3, <2>1, <2>2, OpensInRoot
<1>5. l.err = "ok" => Opens(p).err = "ok" /\ Elf(Opens(p).f) = Elf(l.f) /\ Elf(l.f).class \in {32, 64}
  BY <1>3, LoaderIs, JobOf, ElfAssumption
<1>6. Opens(p).err = "ok" => l.err = "ok"
  <2>1. CASE p \in DOMAIN loaded
    <3>1. l = [err |-> "ok", f |-> loaded[p]]
      BY <2>1 DEF Loader
    <3> QED
      BY <3>1
  <2>2. CASE p \notin DOMAIN loaded
    BY <2>2 DEF Loader
  <2> QED
    BY <2>1, <2>2
<1>7. ASSUME NEW c PROVE Match(c) <=> c = 64
  <2>1. class = None \/ class = 64
    BY DEF Inv, Classes
  <2> QED
    BY <2>1 DEF Match, None
<1>8. Has64(world, ds, world.jobs[t], i) <=>
          there.err = "ok" /\ there.path \in DOMAIN ElfFiles /\ ElfFiles[there.path].class = 64
  BY <1>1 DEF Has64
<1>9. Opens(p).err = "ok" => Elf(Opens(p).f) = ElfFiles[there.path]
  BY <1>4 DEF Elf
<1> QED
  BY <1>1, <1>4, <1>5, <1>6, <1>7, <1>8, <1>9

(* A step that leaves Find alone. *)
Apart(d) == d.pc \notin {"idle", "find", "load"} /\ d.res # "nolib"

LEMMA LooksStep ==
    ASSUME Inv, LooksInv, conf = "ok", UNCHANGED lvars, class' # 32 => class # 32, NEW t \in Jobs,
           NEW d, ctx' = [ctx EXCEPT ![t] = d],
           class # 32 /\ Plain(world.fs) =>
               Looked(world, ldconf \o DefaultLibs, world.jobs[t], d)
    PROVE  LooksInv'
<1>1. world' = world /\ Jobs' = Jobs /\ ldconf' = ldconf /\ conf' = "ok"
  BY DEF lvars, Jobs
<1>2. ctx'[t] = d /\ \A u \in Jobs \ {t} : ctx'[u] = ctx[u]
  BY DEF Inv, JobsInv
<1>3. ASSUME class' # 32, Plain(world.fs), NEW u \in Jobs
      PROVE  Looked(world, ldconf \o DefaultLibs, world.jobs[u], ctx'[u])
  BY <1>2, <1>3 DEF LooksInv
<1>4. ASSUME class' # 32, Plain(world.fs)', NEW u \in Jobs
      PROVE  Looked(world, ldconf \o DefaultLibs, world.jobs[u], ctx[u])'
  <2>1. Plain(world.fs)
    BY <1>1, <1>4
  <2>2. Looked(world, ldconf \o DefaultLibs, world.jobs[u], ctx'[u])
    BY <1>3, <1>4, <2>1
  <2> QED
    BY <1>1, <2>2
<1> QED
  BY <1>1, <1>4 DEF LooksInv

LEMMA ApartLooked ==
    ASSUME NEW w, NEW ds, NEW job, NEW d, Apart(d)
    PROVE  Looked(w, ds, job, d)
BY DEF Apart, Looked

(* What is left of a sequence after k of it. *)
LEMMA RestOf ==
    ASSUME NEW S, NEW s \in Seq(S), NEW k \in 0..Len(s), NEW q, q = SubSeq(s, k + 1, Len(s))
    PROVE  /\ q = <<>> => k = Len(s)
           /\ q # <<>> => /\ k + 1 \in DOMAIN s /\ k + 1 \in 0..Len(s) /\ (k + 1) - 1 = k
                         /\ Head(q) = s[k + 1] /\ Tail(q) = SubSeq(s, (k + 1) + 1, Len(s))
<1>1. PICK n \in Nat : n = Len(s)
  OBVIOUS
<1>2. k \in Nat /\ k <= n /\ DOMAIN s = 1..n /\ q = SubSeq(s, k + 1, n)
  BY <1>1
<1>3. CASE k = n
  <2>1. k + 1 \in Int /\ n \in Int /\ n < k + 1
    BY <1>2, <1>3
  <2>2. SubSeq(s, k + 1, n) = <<>>
    BY <2>1, SubSeqEmpty, Zenon
  <2> QED
    BY <1>1, <1>2, <1>3, <2>2
<1>4. CASE k # n
  <2>1. PICK i \in Nat : i = k + 1
    BY <1>2
  <2>2. i \in 1..n /\ i \in 0..n /\ i - 1 = k /\ n \in i..n /\ i <= n /\ n - i + 1 # 0
    BY <1>2, <1>4, <2>1
  <2>3. q = SubSeq(s, i, n)
    BY <1>2, <2>1
  <2>4. Head(q) = s[i] /\ Tail(q) = SubSeq(s, i + 1, n)
    <3>1. i \in 1..Len(s) /\ n \in i..Len(s)
      BY <1>1, <2>2
    <3>2. Head(SubSeq(s, i, n)) = s[i] /\ Tail(SubSeq(s, i, n)) = SubSeq(s, i + 1, n)
      BY <3>1, HeadTailOfSubSeq, Zenon
    <3> QED
      BY <2>3, <3>2
  <2>5. Len(q) # 0
    <3>1. ASSUME NEW j \in i..n PROVE s[j] \in S
      <4>1. j \in 1..n
        BY <2>2
      <4> QED
        BY <1>1, <4>1
    <3>2. i \in Int /\ n \in Int
      OBVIOUS
    <3>3. Len(SubSeq(s, i, n)) = IF i <= n THEN n - i + 1 ELSE 0
      BY <3>1, <3>2, SubSeqProperties, Zenon
    <3> QED
      BY <2>2, <2>3, <3>3
  <2>6. Len(<<>>) = 0
    OBVIOUS
  <2> QED
    BY <1>1, <1>2, <2>1, <2>2, <2>4, <2>5, <2>6
<1> QED
  BY <1>3, <1>4

LEMMA SearchedIs ==
    ASSUME Inv
    PROVE  /\ ldconf \o DefaultLibs \in Seq(ConfDirs(world) \cup Range(DefaultLibs))
           /\ ldconf \o DefaultLibs \in Seq(Paths)
<1>1. ConfDirs(world) \subseteq Paths /\ ldconf \in Seq(ConfDirs(world))
  BY WorldsAssumption DEF Inv, ConfInv, WorldsAssumption
<1>2. DefaultLibs \in Seq(Paths) /\ DefaultLibs \in Seq(Range(DefaultLibs))
  BY ElfAssumption DEF ElfAssumption, Range
<1>3. PICK S : S = ConfDirs(world) \cup Range(DefaultLibs)
  OBVIOUS
<1>4. ldconf \in Seq(S) /\ DefaultLibs \in Seq(S) /\ ldconf \in Seq(Paths)
  BY <1>1, <1>2, <1>3
<1> QED
  BY <1>2, <1>3, <1>4

LEMMA StartLineLooks ==
    ASSUME Inv, LooksInv, NEW t \in Jobs, StartLine(t)
    PROVE  LooksInv'
<1>1. PICK c : c = ctx[t]
  OBVIOUS
<1>2. PICK ds : ds = ldconf \o DefaultLibs
  OBVIOUS
<1>3. PICK d : d = IF world.jobs[t].find THEN [c EXCEPT !.pc = "find", !.queue = ds]
                   ELSE [c EXCEPT !.pc = "load"]
  OBVIOUS
<1>4. ctx' = [ctx EXCEPT ![t] = d]
  BY <1>1, <1>2, <1>3 DEF StartLine
<1>5. c \in Contexts /\ c.pc = "idle" /\ c.res = ""
  BY <1>1, JobOf, BeforeIs DEF StartLine, Going, JobOK, Before
<1>6. ASSUME world.jobs[t].find PROVE Looked(world, ds, world.jobs[t], d)
  <2>1. d.pc = "find" /\ d.queue = ds /\ d.res = ""
    BY <1>3, <1>5, <1>6 DEF Contexts
  <2>2. ds \in Seq(Paths)
    BY <1>2, SearchedIs
  <2>3. ds = SubSeq(ds, 0 + 1, Len(ds)) /\ 0 \in 0..Len(ds) /\ NoneTo(world, ds, world.jobs[t], 0)
    BY <2>2 DEF NoneTo
  <2> QED
    BY <2>1, <2>3, Zenon DEF Looked
<1>7. Looked(world, ds, world.jobs[t], d)
  BY <1>6 DEF Looked
<1> QED
  BY <1>2, <1>4, <1>7, LooksStep DEF StartLine, Going

LEMMA FindNothingLooks ==
    ASSUME Inv, LooksInv, NEW t \in Jobs, FindNothing(t)
    PROVE  LooksInv'
<1>1. PICK c : c = ctx[t]
  OBVIOUS
<1>2. PICK ds : ds = ldconf \o DefaultLibs
  OBVIOUS
<1>3. PICK d : d = Done(c, "nolib")
  OBVIOUS
<1>4. ctx' = [ctx EXCEPT ![t] = d]
  BY <1>1, <1>3 DEF FindNothing
<1>5. c \in Contexts /\ c.pc = "find" /\ c.queue = <<>>
  BY <1>1, JobOf, BeforeIs DEF FindNothing, Going, JobOK, Before
<1>6. d.pc = "done" /\ d.res = "nolib"
  BY <1>3, <1>5 DEF Done, Contexts
<1>7. ASSUME class # 32, Plain(world.fs) PROVE Looked(world, ds, world.jobs[t], d)
  <2>1. Looked(world, ds, world.jobs[t], c)
    BY <1>1, <1>2, <1>7 DEF LooksInv
  <2>2. ASSUME world.jobs[t].find PROVE NoneTo(world, ds, world.jobs[t], Len(ds))
    <3>1. PICK k \in 0..Len(ds) :
              <<>> = SubSeq(ds, k + 1, Len(ds)) /\ NoneTo(world, ds, world.jobs[t], k)
      BY <1>5, <2>1, <2>2 DEF Looked
    <3>2. ds \in Seq(Paths)
      BY <1>2, SearchedIs
    <3>3. k = Len(ds)
      BY <3>1, <3>2, RestOf
    <3> QED
      BY <3>1, <3>3
  <2> QED
    BY <1>6, <2>2 DEF Looked
<1> QED
  BY <1>2, <1>4, <1>7, LooksStep DEF FindNothing, Going

LEMMA FindInLooks ==
    ASSUME Inv, LooksInv, ExpandsInRoot, NEW t \in Jobs, FindIn(t)
    PROVE  LooksInv'
<1>1. PICK c : c = ctx[t]
  OBVIOUS
<1>2. PICK ds : ds = ldconf \o DefaultLibs
  OBVIOUS
<1>3. PICK p : p = Prefix \o Head(c.queue) \o c.file
  OBVIOUS
<1>4. PICK l, e : l = Loader(p) /\ e = Expand(world.fs, p)
  OBVIOUS
<1>5. PICK d : d = Finds(c, l, e)
  OBVIOUS
<1>6. ctx' = [ctx EXCEPT ![t] = d]
  BY <1>1, <1>3, <1>4, <1>5 DEF FindIn
<1>7. /\ c \in Contexts /\ c.pc = "find" /\ c.queue # <<>> /\ c.res = ""
      /\ c.file = world.jobs[t].file /\ world.jobs[t].find
  BY <1>1, JobOf, BeforeIs DEF FindIn, Going, JobOK, Before, FindOK
<1>8. ASSUME class # 32, Plain(world.fs) PROVE Looked(world, ds, world.jobs[t], d)
  <2>1. PICK k \in 0..Len(ds) :
            c.queue = SubSeq(ds, k + 1, Len(ds)) /\ NoneTo(world, ds, world.jobs[t], k)
    BY <1>1, <1>2, <1>7, <1>8 DEF LooksInv, Looked
  <2>2. ds \in Seq(ConfDirs(world) \cup Range(DefaultLibs)) /\ ds \in Seq(Paths)
    BY <1>2, SearchedIs
  <2>3. PICK i : i = k + 1
    OBVIOUS
  <2>4. /\ i \in DOMAIN ds /\ i \in 0..Len(ds) /\ i - 1 = k
        /\ Head(c.queue) = ds[i] /\ Tail(c.queue) = SubSeq(ds, i + 1, Len(ds))
    <3>1. PICK q : q = c.queue
      OBVIOUS
    <3>2. q # <<>> /\ q = SubSeq(ds, k + 1, Len(ds))
      BY <1>7, <2>1, <3>1
    <3> QED
      BY <2>1, <2>2, <2>3, <3>1, <3>2, RestOf
  <2>5. /\ Has64(world, ds, world.jobs[t], i) <=> l.err = "ok" /\ Match(Elf(l.f).class)
        /\ Has64(world, ds, world.jobs[t], i) =>
              e.err = "ok" /\ e.s = Follow(world.fs, Prefix, Trimmed(p)).path
    <3>1. p = FileAt(ds, world.jobs[t], i)
      BY <1>3, <1>7, <2>4 DEF FileAt
    <3> QED
      <4>1. PICK places \in Seq(ConfDirs(world) \cup Range(DefaultLibs)) : places = ds
        BY <2>2
      <4>2. i \in DOMAIN places /\ p = FileAt(places, world.jobs[t], i)
        BY <2>4, <3>1, <4>1
      <4>3. Plain(world.fs) /\ class # 32 /\ world.jobs[t].find
        BY <1>7, <1>8
      <4>4. l = Loader(p) /\ e = Expand(world.fs, p)
        BY <1>4
      <4>5. /\ Has64(world, places, world.jobs[t], i) <=> l.err = "ok" /\ Match(Elf(l.f).class)
            /\ Has64(world, places, world.jobs[t], i) =>
                  e.err = "ok" /\ e.s = Follow(world.fs, Prefix, Trimmed(p)).path
        BY <4>2, <4>3, <4>4, FindTakes
      <4> QED
        BY <4>1, <4>5
  <2>6. CASE Has64(world, ds, world.jobs[t], i)
    <3>1. d = [c EXCEPT !.pc = "load", !.file = e.s, !.queue = <<>>]
      BY <1>5, <2>5, <2>6, Zenon DEF Finds
    <3>2. d.pc = "load" /\ d.file = e.s /\ d.res = ""
      BY <1>7, <3>1 DEF Contexts
    <3>3. NoneTo(world, ds, world.jobs[t], i - 1)
      BY <2>1, <2>4
    <3>4. FirstIn(world, ds, world.jobs[t], d)
      <4>1. d.file = Follow(world.fs, Prefix, Trimmed(FileAt(ds, world.jobs[t], i))).path
        BY <1>3, <1>7, <2>4, <2>5, <2>6, <3>2 DEF FileAt
      <4> QED
        BY <2>4, <2>6, <3>3, <4>1, Zenon DEF FirstIn
    <3> QED
      BY <3>2, <3>4 DEF Looked
  <2>7. CASE ~Has64(world, ds, world.jobs[t], i)
    <3>1. d = [c EXCEPT !.queue = Tail(@)]
      BY <1>5, <2>5, <2>7, Zenon DEF Finds
    <3>2. d.pc = "find" /\ d.queue = Tail(c.queue) /\ d.res = ""
      BY <1>7, <3>1 DEF Contexts
    <3>3. NoneTo(world, ds, world.jobs[t], i)
      <4>1. \A j \in 1..i : j = i \/ j \in 1..k
        BY <2>1, <2>3
      <4> QED
        BY <2>1, <2>7, <4>1 DEF NoneTo
    <3> QED
      BY <2>4, <3>2, <3>3 DEF Looked
  <2> QED
    BY <2>6, <2>7
<1> QED
  BY <1>2, <1>6, <1>8, LooksStep DEF FindIn, Going

(* The other steps of a goroutine: it is past Find, and stays so. *)
LEMMA ApartStep ==
    ASSUME Inv, LooksInv, conf = "ok", UNCHANGED lvars, class' # 32 => class # 32, NEW t \in Jobs,
           NEW d, ctx' = [ctx EXCEPT ![t] = d], Apart(d)
    PROVE  LooksInv'
BY ApartLooked, LooksStep

LEMMA LooksSame ==
    ASSUME LooksInv, UNCHANGED <<lvars, ctx, class>>
    PROVE  LooksInv'
<1>1. world' = world /\ ldconf' = ldconf /\ conf' = conf /\ ctx' = ctx /\ class' = class
  BY DEF lvars
<1> QED
  BY <1>1 DEF LooksInv, Jobs

LEMMA ReadingLooks ==
    ASSUME Inv, LooksInv, Config
    PROVE  LooksInv'
<1>1. world' = world /\ ctx' = ctx /\ conf = "read"
  BY ReadingKeepsWorld DEF Config, rvars, LdNext, OpenNext, ScanDir, ScanInclude, Return, Reading
<1>2. \A t \in Jobs : ctx[t].pc = "idle" /\ ctx[t].res = ""
  BY <1>1, JobOf, BeforeIs DEF LooksInv, JobOK, Before
<1>3. ASSUME NEW w, NEW ds, NEW job, NEW t \in Jobs PROVE Looked(w, ds, job, ctx[t])
  BY <1>2 DEF Looked
<1>4. Jobs' = Jobs
  BY <1>1 DEF Jobs
<1>5. ASSUME NEW t \in Jobs PROVE Looked(world, ldconf \o DefaultLibs, world.jobs[t], ctx[t])'
  <2>1. PICK ds : ds = ldconf' \o DefaultLibs
    OBVIOUS
  <2>2. Looked(world, ds, world.jobs[t], ctx[t])
    BY <1>3
  <2> QED
    BY <1>1, <2>1, <2>2
<1> QED
  BY <1>1, <1>2, <1>4, <1>5 DEF LooksInv

(* What the goroutine is at before: its result is that of one not done. *)
LEMMA ResOf ==
    ASSUME Inv, NEW t \in Jobs, ctx[t].pc # "done"
    PROVE  ctx[t] \in Contexts /\ ctx[t].res = ""
BY JobOf DEF JobOK, JobInv, PlaceOK

LEMMA LoadRootLooks ==
    ASSUME Inv, LooksInv, NEW t \in Jobs, LoadRoot(t)
    PROVE  LooksInv'
<1>1. PICK c, d : c = ctx[t] /\ d = Loads(c, Loader(c.file), world.jobs[t].ld \o Absolute(ldconf))
  OBVIOUS
<1>2. ctx' = [ctx EXCEPT ![t] = d]
  BY <1>1 DEF LoadRoot
<1>3. c \in Contexts /\ c.res = ""
  BY <1>1, ResOf DEF LoadRoot, Going
<1>4. \/ d = Done(c, "error")
      \/ \E l, s : d = [c EXCEPT !.pc = "class", !.at = c.file, !.f = l.f, !.class = Elf(l.f).class,
                                 !.ldconf = s]
  BY <1>1, Zenon DEF Loads
<1>5. Apart(d)
  BY <1>3, <1>4 DEF Apart, Done, Contexts
<1> QED
  BY <1>2, <1>5, ApartStep DEF LoadRoot, Going

(* The class that is set is never set again, so that no goroutine makes it one
   of 32 bits after another has made it one of 64. *)
LEMMA SetClassLooks ==
    ASSUME Inv, LooksInv, NEW t \in Jobs, SetClass(t)
    PROVE  LooksInv'
<1>1. PICK c, f, ret : c = ctx[t] /\ f = Keeps(c.f)
                       /\ ret = IF Interpreter(c.f) = <<>> THEN {} ELSE {Prefix \o Interpreter(c.f)}
  OBVIOUS
<1>2. PICK d : d = [c EXCEPT !.pc = "enter", !.f = f, !.ret = ret]
  OBVIOUS
<1>3. c \in Contexts /\ c.res = ""
  BY <1>1, ResOf DEF SetClass, Going
<1>4. ctx' = [ctx EXCEPT ![t] = d]
  <2>1. ctx' = [ctx EXCEPT ![t].pc = "enter", ![t].f = Keeps(ctx[t].f),
                           ![t].ret = IF Interpreter(ctx[t].f) = <<>> THEN {}
                                      ELSE {Prefix \o Interpreter(ctx[t].f)}]
    BY Zenon DEF SetClass
  <2>2. ctx' = [ctx EXCEPT ![t].pc = "enter", ![t].f = f, ![t].ret = ret]
    BY <1>1, <2>1, Zenon
  <2>3. ctx \in [Jobs -> Contexts]
    BY JobOf
  <2> QED
    BY <1>1, <1>2, <2>2, <2>3
<1>5. Apart(d)
  BY <1>2, <1>3 DEF Apart, Contexts
<1>6. class' # 32 => class # 32
  BY DEF SetClass, None
<1> QED
  BY <1>4, <1>5, <1>6, ApartStep DEF SetClass, Going

LEMMA EnterLooks ==
    ASSUME Inv, LooksInv, NEW t \in Jobs, Enter(t)
    PROVE  LooksInv'
<1>1. PICK c : c = ctx[t]
  OBVIOUS
<1>2. c \in Contexts /\ c.res = "" /\ ctx \in [Jobs -> Contexts]
  BY <1>1, ResOf, JobOf DEF Enter, Going
<1>3. \/ ctx' = [ctx EXCEPT ![t].pc = "needed"]
      \/ \E frame : ctx' = [ctx EXCEPT ![t].pc = "needed", ![t].ret = @ \cup {c.at},
                                       ![t].stack = <<frame>> \o @]
  BY <1>1, Zenon DEF Enter
<1>4. \/ ctx' = [ctx EXCEPT ![t] = [c EXCEPT !.pc = "needed"]]
      \/ \E frame : ctx' = [ctx EXCEPT ![t] = [c EXCEPT !.pc = "needed", !.ret = @ \cup {c.at},
                                                        !.stack = <<frame>> \o @]]
  BY <1>1, <1>2, <1>3
<1>5. ASSUME NEW ret, NEW stack
      PROVE  /\ Apart([c EXCEPT !.pc = "needed"])
             /\ Apart([c EXCEPT !.pc = "needed", !.ret = ret, !.stack = stack])
  BY <1>2 DEF Apart, Contexts
<1>6. CASE ctx' = [ctx EXCEPT ![t] = [c EXCEPT !.pc = "needed"]]
  <2>1. PICK d : d = [c EXCEPT !.pc = "needed"]
    OBVIOUS
  <2> QED
    BY <1>5, <1>6, <2>1, ApartStep DEF Enter, Going
<1>7. CASE \E frame : ctx' = [ctx EXCEPT ![t] = [c EXCEPT !.pc = "needed", !.ret = @ \cup {c.at},
                                                         !.stack = <<frame>> \o @]]
  <2>1. PICK frame : ctx' = [ctx EXCEPT ![t] = [c EXCEPT !.pc = "needed", !.ret = @ \cup {c.at},
                                                        !.stack = <<frame>> \o @]]
    BY <1>7
  <2>2. PICK d : d = [c EXCEPT !.pc = "needed", !.ret = @ \cup {c.at}, !.stack = <<frame>> \o @]
    OBVIOUS
  <2>3. Apart(d)
    BY <1>2, <1>5, <2>2 DEF Contexts
  <2> QED
    BY <2>1, <2>2, <2>3, ApartStep DEF Enter, Going
<1> QED
  BY <1>4, <1>6, <1>7

(* The steps that leave all but what the goroutine is at alone. *)
LEMMA SearchLooks ==
    ASSUME Inv, LooksInv, NEW t \in Jobs, Search(t) \/ Leave(t) \/ Resolved(t)
    PROVE  LooksInv'
<1>1. PICK c : c = ctx[t]
  OBVIOUS
<1>2. c \in Contexts /\ c.res = "" /\ c.pc = "needed" /\ ctx \in [Jobs -> Contexts] /\ conf = "ok"
  BY <1>1, ResOf, JobOf DEF Search, Leave, Resolved, Going
<1>3. \E d : ctx' = [ctx EXCEPT ![t] = d] /\ Apart(d)
  <2>1. CASE Search(t)
    <3>1. PICK d : d = NeedsNext(c)
      OBVIOUS
    <3>2. ctx' = [ctx EXCEPT ![t] = d]
      BY <1>1, <2>1, <3>1 DEF Search
    <3>3. \E lib, stack, queue : d = [c EXCEPT !.pc = "search", !.lib = lib, !.list = "paths",
                                               !.stack = stack, !.queue = queue]
      BY <1>2, <3>1 DEF NeedsNext, Contexts
    <3>4. Apart(d)
      BY <1>2, <3>3 DEF Apart, Contexts
    <3> QED
      BY <3>2, <3>4
  <2>2. CASE Leave(t)
    <3>1. PICK d : d = [c EXCEPT !.stack = Tail(@)]
      OBVIOUS
    <3>2. ctx' = [ctx EXCEPT ![t] = d]
      BY <1>1, <1>2, <2>2, <3>1 DEF Leave
    <3>3. Apart(d)
      BY <1>2, <3>1 DEF Apart, Contexts
    <3> QED
      BY <3>2, <3>3
  <2>3. CASE Resolved(t)
    <3>1. PICK d : d = Done(c, IF c.err = {} THEN "ok" ELSE "missing")
      OBVIOUS
    <3>2. ctx' = [ctx EXCEPT ![t] = d]
      BY <1>1, <2>3, <3>1 DEF Resolved
    <3>3. Apart(d)
      BY <1>2, <3>1 DEF Apart, Contexts, Done
    <3> QED
      BY <3>2, <3>3
  <2> QED
    BY <2>1, <2>2, <2>3
<1>4. UNCHANGED lvars /\ class' = class
  BY DEF Search, Leave, Resolved
<1> QED
  BY <1>2, <1>3, <1>4, ApartStep

LEMMA Search1Looks ==
    ASSUME Inv, LooksInv, NEW t \in Jobs,
           Exists(t) \/ Look(t) \/ NextList(t) \/ NotFoundAt(t) \/ Skip(t)
    PROVE  LooksInv'
<1>1. PICK c : c = ctx[t]
  OBVIOUS
<1>2. /\ c \in Contexts /\ c.res = "" /\ c.pc \in {"search", "exists"}
      /\ ctx \in [Jobs -> Contexts] /\ conf = "ok"
  BY <1>1, ResOf, JobOf DEF Exists, Look, NextList, NotFoundAt, Skip, Going
<1>3. UNCHANGED lvars /\ class' = class
  BY DEF Exists, Look, NextList, NotFoundAt, Skip
<1>4. \/ ctx' = ctx
      \/ \E at : ctx' = [ctx EXCEPT ![t].pc = "exists", ![t].at = at]
      \/ \E at : ctx' = [ctx EXCEPT ![t].pc = "try", ![t].at = at]
      \/ ctx' = [ctx EXCEPT ![t] = NextDir(c)]
      \/ \E list, queue : ctx' = [ctx EXCEPT ![t] = [c EXCEPT !.list = list, !.queue = queue]]
      \/ \E err : ctx' = [ctx EXCEPT ![t].pc = "needed", ![t].err = err]
      \/ ctx' = [ctx EXCEPT ![t].pc = "needed"]
  <2>1. CASE Exists(t)
    BY <2>1, Zenon DEF Exists
  <2>2. CASE Look(t)
    BY <1>1, <2>2, Zenon DEF Look
  <2>3. CASE NextList(t)
    BY <1>1, <2>3, Zenon DEF NextList
  <2>4. CASE NotFoundAt(t)
    <3>1. ctx' = [ctx EXCEPT ![t].pc = "needed", ![t].err = @ \cup {ctx[t].lib}]
      BY <2>4 DEF NotFoundAt
    <3>2. PICK err : err = c.err \cup {c.lib}
      OBVIOUS
    <3>3. ctx' = [ctx EXCEPT ![t].pc = "needed", ![t].err = err]
      BY <1>1, <1>2, <3>1, <3>2 DEF Contexts
    <3> QED
      BY <3>3
  <2>5. CASE Skip(t)
    BY <2>5 DEF Skip
  <2> QED
    BY <2>1, <2>2, <2>3, <2>4, <2>5
<1>5. ctx' = ctx \/ \E d : ctx' = [ctx EXCEPT ![t] = d] /\ Apart(d)
  <2>1. ASSUME NEW pc \in {"exists", "try"}, NEW at, ctx' = [ctx EXCEPT ![t].pc = pc, ![t].at = at]
        PROVE  \E d : ctx' = [ctx EXCEPT ![t] = d] /\ Apart(d)
    <3>1. PICK d : d = [c EXCEPT !.pc = pc, !.at = at]
      OBVIOUS
    <3>2. ctx' = [ctx EXCEPT ![t] = d]
      BY <1>1, <1>2, <2>1, <3>1
    <3>3. Apart(d)
      BY <1>2, <3>1 DEF Apart, Contexts
    <3> QED
      BY <3>2, <3>3
  <2>2. ASSUME NEW err, ctx' = [ctx EXCEPT ![t].pc = "needed", ![t].err = err]
        PROVE  \E d : ctx' = [ctx EXCEPT ![t] = d] /\ Apart(d)
    <3>1. PICK d : d = [c EXCEPT !.pc = "needed", !.err = err]
      OBVIOUS
    <3>2. ctx' = [ctx EXCEPT ![t] = d]
      BY <1>1, <1>2, <2>2, <3>1
    <3>3. Apart(d)
      BY <1>2, <3>1 DEF Apart, Contexts
    <3> QED
      BY <3>2, <3>3
  <2>3. ASSUME ctx' = [ctx EXCEPT ![t].pc = "needed"]
        PROVE  \E d : ctx' = [ctx EXCEPT ![t] = d] /\ Apart(d)
    <3>1. PICK d : d = [c EXCEPT !.pc = "needed"]
      OBVIOUS
    <3>2. ctx' = [ctx EXCEPT ![t] = d]
      BY <1>1, <1>2, <2>3, <3>1
    <3>3. Apart(d)
      BY <1>2, <3>1 DEF Apart, Contexts
    <3> QED
      BY <3>2, <3>3
  <2>4. Apart(NextDir(c))
    BY <1>2 DEF Apart, Contexts, NextDir
  <2>5. ASSUME NEW list, NEW queue PROVE Apart([c EXCEPT !.list = list, !.queue = queue])
    BY <1>2 DEF Apart, Contexts
  <2> QED
    BY <1>4, <2>1, <2>2, <2>3, <2>4, <2>5, Zenon
<1>6. CASE ctx' = ctx
  BY <1>3, <1>6, LooksSame
<1>7. CASE \E d : ctx' = [ctx EXCEPT ![t] = d] /\ Apart(d)
  BY <1>2, <1>3, <1>7, ApartStep
<1> QED
  BY <1>5, <1>6, <1>7

LEMMA LoadLooks ==
    ASSUME Inv, LooksInv, NEW t \in Jobs, Load(t)
    PROVE  LooksInv'
<1>1. PICK c, l, d : c = ctx[t] /\ l = Loader(c.at) /\ d = Tries(c, l)
  OBVIOUS
<1>2. ctx' = [ctx EXCEPT ![t] = d]
  BY <1>1 DEF Load
<1>3. c \in Contexts /\ c.res = "" /\ c.pc = "try"
  BY <1>1, ResOf DEF Load, Going
<1>4. \/ d = Done(c, "error") \/ d = NextDir(c) \/ d = TakeLib(c, l.f)
      \/ \E s : d = [NextDir(c) EXCEPT !.ldconf = s]
  <2>1. PICK s : s = PathSet(NextDir(c).ldconf, Head(c.queue).path, Elf(l.f).class)
    OBVIOUS
  <2>2. [NextDir(c) EXCEPT !.ldconf = PathSet(@, Head(c.queue).path, Elf(l.f).class)]
            = [NextDir(c) EXCEPT !.ldconf = s]
    BY <2>1
  <2> QED
    BY <1>1, <2>2, Zenon DEF Tries
<1>5. Apart(d)
  <2>1. Apart(Done(c, "error"))
    BY <1>3 DEF Apart, Contexts, Done
  <2>2. Apart(NextDir(c))
    BY <1>3 DEF Apart, Contexts, NextDir
  <2>3. Apart(TakeLib(c, l.f))
    BY <1>3 DEF Apart, Contexts, TakeLib
  <2>4. ASSUME NEW s PROVE Apart([NextDir(c) EXCEPT !.ldconf = s])
    BY <1>3 DEF Apart, Contexts, NextDir
  <2> QED
    BY <1>4, <2>1, <2>2, <2>3, <2>4, Zenon
<1> QED
  BY <1>2, <1>5, ApartStep DEF Load, Going

LEMMA LooksStart == Init => LooksInv
<1> SUFFICES ASSUME Init PROVE LooksInv
  OBVIOUS
<1>1. \A t \in Jobs : ctx[t].pc = "idle" /\ ctx[t].res = ""
  BY DEF Init, Fresh
<1>2. ASSUME NEW w, NEW ds, NEW job, NEW t \in Jobs PROVE Looked(w, ds, job, ctx[t])
  BY <1>1 DEF Looked
<1> QED
  BY <1>1, <1>2 DEF LooksInv

LEMMA LooksNext ==
    ASSUME Inv, LooksInv, ExpandsInRoot, [Next]_vars
    PROVE  LooksInv'
<1>1. ASSUME NEW t \in Jobs, Work(t) PROVE LooksInv'
  BY <1>1, StartLineLooks, FindInLooks, FindNothingLooks, LoadRootLooks, SetClassLooks,
     EnterLooks, SearchLooks, Search1Looks, LoadLooks DEF Work
<1>2. CASE UNCHANGED vars
  BY <1>2, LooksSame DEF vars, rvars
<1> QED
  BY <1>1, <1>2, ReadingLooks DEF Next, Terminated

(* As long as the class is not one of 32 bits, Find gives the first 64-bit
   library in the order of ld.so.conf and the default directories, and reports
   that there is none only if that is so, whatever the goroutines of the lines
   before have resolved, loaded or closed meanwhile: in worlds where Expand
   comes to the files of the root file system. *)
THEOREM FindsFirst ==
    ASSUME ExpandsInRoot PROVE Spec => []FindRight
<1>1. Inv /\ LooksInv => FindRight
  <2> SUFFICES ASSUME Inv, LooksInv, class # 32, NEW t \in Jobs, world.jobs[t].find, Plain(world.fs)
               PROVE  LET ds == ldconf \o DefaultLibs
                          at(i) == Prefix \o ds[i] \o world.jobs[t].file
                          having == {i \in DOMAIN ds : Provides(at(i), 64)}
                      IN /\ ctx[t].pc = "load" =>
                               having # {} /\ ctx[t].file = InRoot(at(Min(having))).path
                         /\ ctx[t].res = "nolib" => having = {}
    BY DEF FindRight, Tame
  <2>1. PICK ds : ds = ldconf \o DefaultLibs
    OBVIOUS
  <2>2. PICK having : having = {i \in DOMAIN ds : Provides(FileAt(ds, world.jobs[t], i), 64)}
    OBVIOUS
  <2>3. ds \in Seq(Paths) /\ DOMAIN ds = 1..Len(ds) /\ Len(ds) \in Nat
    BY <2>1, SearchedIs
  <2>4. \A i \in DOMAIN ds : i \in having <=> Has64(world, ds, world.jobs[t], i)
    BY <2>2 DEF Provides, IsElf, ClassAt, InRoot, Has64
  <2>5. Looked(world, ds, world.jobs[t], ctx[t])
    BY <2>1 DEF LooksInv
  <2>6. ASSUME ctx[t].pc = "load"
        PROVE  having # {} /\ ctx[t].file = InRoot(FileAt(ds, world.jobs[t], Min(having))).path
    <3>1. PICK i \in DOMAIN ds :
              /\ Has64(world, ds, world.jobs[t], i) /\ NoneTo(world, ds, world.jobs[t], i - 1)
              /\ ctx[t].file = Follow(world.fs, Prefix, Trimmed(FileAt(ds, world.jobs[t], i))).path
      BY <2>5, <2>6 DEF Looked, FirstIn
    <3>2. i \in having /\ having \subseteq DOMAIN ds /\ having \subseteq Nat
      BY <2>2, <2>3, <2>4, <3>1
    <3>3. \A j \in having : i <= j
      <4>1. ASSUME NEW j \in having, j < i PROVE FALSE
        <5>1. j \in 1..(i - 1) /\ j \in DOMAIN ds
          BY <2>3, <3>2, <4>1
        <5> QED
          BY <2>4, <3>1, <5>1 DEF NoneTo
      <4> QED
        BY <3>2, <4>1
    <3>4. Min(having) = i
      <4>1. Min(having) \in having /\ Min(having) <= i
        BY <3>2, MinIs
      <4> QED
        BY <3>2, <3>3, <4>1
    <3> QED
      BY <3>1, <3>2, <3>4 DEF InRoot
  <2>7. ASSUME ctx[t].res = "nolib" PROVE having = {}
    <3>1. NoneTo(world, ds, world.jobs[t], Len(ds))
      BY <2>5, <2>7 DEF Looked
    <3> QED
      BY <2>2, <2>3, <2>4, <3>1 DEF NoneTo
  <2> QED
    BY <2>1, <2>2, <2>6, <2>7, Zenon DEF FileAt
<1>2. Inv /\ LooksInv /\ [Next]_vars => (Inv /\ LooksInv)'
  BY StepInv, LooksNext
<1> QED
  BY <1>1, <1>2, InitInv, LooksStart, PTL DEF Spec
=============================================================================
