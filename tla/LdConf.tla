------------------------------- MODULE LdConf -------------------------------
(***************************************************************************)
(* ReadConfig of elf/resolver.go: ldglob reads the files that match a      *)
(* pattern and calls itself for each include line.  A call closes its      *)
(* files when it returns, so that every file of the calls under way is     *)
(* open.                                                                   *)
(***************************************************************************)
EXTENDS Readlink

CONSTANTS
    LdSoConf,   \* -ld.so.conf, below the prefix
    MaxOpen     \* bound: how many files the system lets the program have open

ASSUME LdConfAssumption == MaxOpen \in Nat

VARIABLES
    world,      \* the file system, and what is in its files: see below
    calls,      \* the calls of ldglob under way, the last one first
    ldconf,     \* Resolver.ldconf
    conf        \* "read" until ReadConfig returns, then "ok" or "failed"

lvars == <<world, calls, ldconf, conf>>

(* A world has the file system fs, the lines of each file in conf, and jobs,
   which this module does not use.  A line of ld.so.conf is a directory, or includes a
   pattern: the paths, absolute or from the file's directory, it may match, in
   the order of filepath.Glob. *)
DirLine(dir) == [include |-> FALSE, dir |-> dir]
IncludeLine(abs, glob) == [include |-> TRUE, abs |-> abs, glob |-> glob]

OpenFiles == FoldLeft(LAMBDA n, c : n + c.open, 0, calls)

(* The call of ldglob for these paths: rootprefix has been applied to them. *)
Call(paths) ==
    [files |-> SelectSeq(paths, LAMBDA p : OsLstat(world.fs, p).err = "ok"),
     open |-> 0, dir |-> <<>>, lines |-> <<>>, seen |-> {}, out |-> <<>>]

LdInit ==
    /\ calls = <<Call(<<Prefix \o LdSoConf>>)>>
    /\ ldconf = <<>> /\ conf = "read"

Top == Head(calls)
Reading == conf = "read"

Fail == conf' = "failed" /\ calls' = <<>> /\ UNCHANGED <<world, ldconf>>

OpenNext ==
    /\ Reading /\ Top.lines = <<>> /\ Top.files # <<>>
    /\ LET file == Head(Top.files)
           there == OsStat(world.fs, file)
       IN IF there.err # "ok" \/ OpenFiles = MaxOpen THEN Fail
          ELSE /\ calls' = [calls EXCEPT ![1].files = Tail(@), ![1].open = @ + 1,
                                         ![1].dir = Front(file),
                                         ![1].lines = IF there.path \in DOMAIN world.conf
                                                      THEN world.conf[there.path] ELSE <<>>]
               /\ UNCHANGED <<world, ldconf, conf>>

(* A directory is taken once in each call. *)
Take(c, dir) ==
    IF dir \in c.seen THEN [c EXCEPT !.lines = Tail(@)]
    ELSE [c EXCEPT !.lines = Tail(@), !.seen = @ \cup {dir}, !.out = Append(@, dir)]

ScanDir ==
    /\ Reading /\ Top.lines # <<>> /\ ~Head(Top.lines).include
    /\ calls' = [calls EXCEPT ![1] = Take(Top, Head(Top.lines).dir)]
    /\ UNCHANGED <<world, ldconf, conf>>

(* An absolute pattern is below the prefix, a relative one below the directory
   of the file, which has the prefix. *)
PatternTwice(l, dir) == [i \in DOMAIN l.glob |-> Clean(Prefix \o (IF l.abs THEN <<>> ELSE dir) \o l.glob[i])]
Pattern(l, dir) == [i \in DOMAIN l.glob |-> Clean((IF l.abs THEN Prefix ELSE dir) \o l.glob[i])]

ScanInclude ==
    /\ Reading /\ Top.lines # <<>> /\ Head(Top.lines).include
    /\ calls' = <<Call(Pattern(Head(Top.lines), Top.dir))>> \o [calls EXCEPT ![1].lines = Tail(@)]
    /\ UNCHANGED <<world, ldconf, conf>>

(* The end of a call: what it found goes after what its caller has found. *)
Return ==
    /\ Reading /\ Top.lines = <<>> /\ Top.files = <<>>
    /\ IF Len(calls) = 1
       THEN ldconf' = Top.out /\ conf' = "ok" /\ calls' = <<>>
       ELSE /\ calls' = [Tail(calls) EXCEPT ![1].out = @ \o Top.out]
            /\ UNCHANGED <<ldconf, conf>>
    /\ UNCHANGED world

LdNext == OpenNext \/ ScanDir \/ ScanInclude \/ Return
-----------------------------------------------------------------------------
(* Properties *)

Firsts(s) == FoldLeft(LAMBDA r, x : IF x \in Range(r) THEN r ELSE Append(r, x), <<>>, s)

(* All directories of the lines in a file, each include in its place, as far as
   includes of the depth n. *)
DirsOf(file, n) ==
    LET dirs[p \in Paths, k \in 0..n] ==
          IF p \notin DOMAIN world.conf \/ k = 0 THEN <<>>
          ELSE FlattenSeq([i \in DOMAIN world.conf[p] |->
                 LET l == world.conf[p][i]
                     at(q) == IF l.abs THEN Prefix \o q ELSE Front(p) \o q
                 IN IF ~l.include THEN <<l.dir>>
                    ELSE FlattenSeq([j \in DOMAIN l.glob |-> dirs[at(l.glob[j]), k - 1]])])
    IN dirs[file, n]

(* ReadConfig keeps the order of search that the lines give: a directory comes
   where it is named first, whatever file of the includes that is in. *)
ConfRead == conf = "ok" => Firsts(ldconf) = Firsts(DirsOf(Prefix \o LdSoConf, MaxOpen))
=============================================================================
