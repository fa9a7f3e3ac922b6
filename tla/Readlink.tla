------------------------------ MODULE Readlink ------------------------------
(***************************************************************************)
(* Symbolic links below the root file system: readlink and Expand of       *)
(* config/resolve.go, and their copy in elf/readlink.go, which adds no     *)
(* links to the archive.                                                   *)
(*                                                                         *)
(* A path is the sequence of its names.  Expand walks over it and replaces *)
(* a link by where it leads, below Prefix if that is an absolute path.     *)
(* The place it has come to is an offset in bytes, which it keeps when the *)
(* path under it changes; so names have a width, and nothing else of their *)
(* text is modelled.                                                       *)
(*                                                                         *)
(* A file system maps each path that exists to a node [kind, abs, to]:     *)
(* kind is "d", "f" or "l", a link's target is the path to, from the root  *)
(* or from the link's directory.                                           *)
(***************************************************************************)
EXTENDS Integers, SequencesExt, FiniteSetsExt

CONSTANTS
    Prefix,     \* -rootfs, a path
    Width,      \* name -> its bytes; no two names begin with the same byte
    LinkMax     \* linkMax

ASSUME ReadlinkAssumption ==
    /\ LinkMax \in Nat
    /\ \A name \in DOMAIN Width : Width[name] \in Nat \ {0}
    /\ \A i \in DOMAIN Prefix : Prefix[i] \in DOMAIN Width

Paths == Seq(STRING)

Dir == [kind |-> "d", abs |-> FALSE, to |-> <<>>]
File == [kind |-> "f", abs |-> FALSE, to |-> <<>>]
LinkTo(abs, to) == [kind |-> "l", abs |-> abs, to |-> to]

(* path.Clean and path.Join: by the text alone. *)
Clean(p) ==
    FoldLeft(LAMBDA r, name : IF name # ".." THEN Append(r, name)
                              ELSE IF r = <<>> THEN r ELSE Front(r), <<>>, p)

-----------------------------------------------------------------------------
(* The kernel's walk over a path, with top for the root directory.         *)

Found(path) == [path |-> path, err |-> "ok"]
NotFound(err) == [path |-> <<>>, err |-> err]
MaxFollow == 8      \* bound: links on a path; the kernel's is 40

Follow(fs, top, p) ==
    LET walk[w \in [done : Paths, rest : Paths, left : 0..MaxFollow]] ==
          IF w.rest = <<>> THEN Found(w.done)
          ELSE LET name == Head(w.rest)
                   q == Append(w.done, name)
               IN IF fs[w.done].kind # "d" THEN NotFound("notdir")
                  ELSE IF name = ".."
                  THEN walk[[w EXCEPT !.rest = Tail(@),
                                      !.done = IF @ = top THEN @ ELSE Front(@)]]
                  ELSE IF q \notin DOMAIN fs THEN NotFound("none")
                  ELSE IF fs[q].kind # "l"
                  THEN walk[[w EXCEPT !.rest = Tail(@), !.done = q]]
                  ELSE IF w.left = 0 THEN NotFound("loop")
                  ELSE walk[[rest |-> fs[q].to \o Tail(w.rest),
                             done |-> IF fs[q].abs THEN top ELSE w.done,
                             left |-> w.left - 1]]
    IN walk[[done |-> top, rest |-> p, left |-> MaxFollow]]

(* os.Stat, and os.Lstat, which does not follow the last name. *)
OsStat(fs, p) == Follow(fs, <<>>, p)
EntryOf(fs, dir, name) ==
    IF dir.err # "ok" THEN dir
    ELSE IF fs[dir.path].kind # "d" THEN NotFound("notdir")
    ELSE IF Append(dir.path, name) \notin DOMAIN fs THEN NotFound("none")
    ELSE Found(Append(dir.path, name))
OsLstat(fs, p) ==
    IF p = <<>> THEN Found(<<>>) ELSE EntryOf(fs, OsStat(fs, Front(p)), Last(p))

-----------------------------------------------------------------------------
(* Offsets *)

(* The bytes of a path: a slash before each name. *)
Bytes(p) ==
    IF p = <<>> THEN 1 ELSE FoldLeft(LAMBDA b, name : b + 1 + Width[name], 0, p)

(* The name the offset n is in, or the slash after it. *)
NameAt(p, n) == Min({k \in 1..Len(p) : Bytes(SubSeq(p, 1, k)) >= n})

(* comp: the bytes two paths have in common. *)
Common(a, b) ==
    LET both == LongestCommonPrefix({a, b})
    IN IF both \in {a, b} THEN Bytes(both)
       ELSE IF both = <<>> THEN 1 ELSE Bytes(both) + 1

-----------------------------------------------------------------------------
(* One call of readlink.  A call in progress is [s, n, c, pc, err] and adds, *)
(* the links added to the archive so far.                                    *)

(* The offset of the first name below the prefix. *)
Below == IF Prefix = <<>> THEN 1 ELSE Bytes(Prefix) + 1

(* Expand: a path outside of the prefix stays as it is, others are cleaned by
   readlink.  keep says that links are added to the archive, which elf.Expand
   does not do. *)
Start(p, keep) ==
    [s |-> IF IsPrefix(Prefix, p) THEN Clean(p) ELSE p, n |-> Below, c |-> 0, keep |-> keep, adds |-> <<>>, err |-> "ok",
     pc |-> IF IsPrefix(Prefix, p) THEN "walk" ELSE "done"]

Ends(st, err) == [st EXCEPT !.pc = IF err = "panic" THEN "panicked" ELSE "done", !.err = err]

(* The destination of a link: without the prefix. *)
Trimmed(p) == IF IsPrefix(Prefix, p) THEN SubSeq(p, Len(Prefix) + 1, Len(p)) ELSE p

(* Where readlink goes on after the link at lx, with the node l, has made the
   path np: n is the offset of this call, next the one after lx.  A bare name
   counts as gone through, whatever it leads to. *)
ResumeHere(l, lx, np, n, next) ==
    IF Len(l.to) > 1 THEN IF ".." \in Range(l.to) THEN Common(lx, np) ELSE n ELSE next
Resume(l, lx, np, n, next) ==
    IF l.abs THEN Below
    ELSE IF Len(l.to) = 1 THEN next
    ELSE IF ".." \in Range(l.to) THEN Common(lx, np)
    ELSE n

(* rest is what follows lx. *)
Followed(st, l, lx, rest, n, next) ==
    LET np == Clean((IF l.abs THEN Prefix ELSE Front(lx)) \o l.to) \o rest
        added == [dst |-> Trimmed(lx), abs |-> l.abs, to |-> l.to]
    IN [st EXCEPT !.s = np, !.c = st.c + 1,
                  !.adds = IF st.keep THEN Append(@, added) ELSE @,
                  !.n = Resume(l, lx, np, n, next)]

ForwardAgain(st, next) == [st EXCEPT !.n = Below]
Forward(st, next) == [st EXCEPT !.n = next]

(* readlink with the offset in the k-th name, and the node it has there. *)
StepOver(st, k, n, next, err, l) ==
    IF err # "ok" THEN Ends(st, err)
    ELSE IF l.kind # "l" THEN IF n = Bytes(st.s) THEN Ends(st, "ok") ELSE Forward(st, next)
    ELSE IF st.c > LinkMax THEN Ends(st, "toomany")
    ELSE IF st.keep /\ SubSeq(st.s, 1, k) = Prefix THEN Ends(st, "panic")
    ELSE Followed(st, l, SubSeq(st.s, 1, k), SubSeq(st.s, k + 1, Len(st.s)), n, next)

StepAt(fs, st, k, n) ==
    LET found == OsLstat(fs, SubSeq(st.s, 1, k))
    IN StepOver(st, k, n, IF k = Len(st.s) THEN Bytes(st.s) ELSE Bytes(SubSeq(st.s, 1, k)) + 1,
                found.err, fs[found.path])

Step(fs, st) ==
    LET n == Min({st.n, Bytes(st.s)})
    IN StepAt(fs, st, IF st.s = <<>> THEN 0 ELSE NameAt(st.s, n), n)

(* The whole of elf.Expand. *)
Calls == [s : Paths, n : Nat, c : Nat, keep : BOOLEAN, pc : STRING, err : STRING,
          adds : Seq([dst : Paths, abs : BOOLEAN, to : Paths])]
Expand(fs, p) ==
    LET run[st \in Calls] == IF st.pc = "walk" THEN run[Step(fs, st)] ELSE st
    IN run[Start(p, FALSE)]
-----------------------------------------------------------------------------
(* The links readlink can follow: a relative link stays below the prefix, and
   one whose target is a bare name leads to a longer name, or to one as long
   that is no link.  The prefix is a directory. *)
Plain(fs) ==
    /\ fs[Prefix].kind = "d"
    /\ \A p \in DOMAIN fs : fs[p].kind = "l" /\ ~fs[p].abs /\ IsStrictPrefix(Prefix, p) =>
           LET to == fs[p].to
               q == Clean(Front(p) \o to)
               longer == Width[to[1]] - Width[Last(p)]
           IN /\ IsPrefix(Prefix, q)
              /\ Len(to) = 1 => \/ longer > 0
                                \/ longer = 0 /\ ~(q \in DOMAIN fs /\ fs[q].kind = "l")
=============================================================================
