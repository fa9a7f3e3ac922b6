----------------------------- MODULE GlobMatch -----------------------------
(***************************************************************************)
(* From the source of a line to entries: match of config/match.go, which   *)
(* walks the directories an expression can match in, and addGlob,          *)
(* addRecursive and the fr branch of add in config/map.go, which expand    *)
(* what was found and put it.  Each call of readlink is a step of its own. *)
(***************************************************************************)
EXTENDS Readlink

CONSTANTS
    FileSystems,    \* the file systems of the run
    Lines,          \* [type, path, elems, dst]
    OmitDst         \* a destination that is not given

(* A line of type fr, Rr, rr or r.  elems are the parts of the source, each a
   path and the names its expression matches there, as re splits it (after a
   trailing path all names match); path is the path of the first, or the whole
   source if there is no expression in it. *)

VARIABLES
    fs,
    line,
    pc,
    level,      \* the part of the source match is at
    todo,       \* directories it has to list for this part, or files to put
    next,       \* what it has found for the next part
    cur,        \* the path that is listed or expanded
    call,       \* the call of readlink
    map,        \* the entries: destination -> entry
    puts        \* which file was put, from where, to where

vars == <<fs, line, pc, level, todo, next, cur, call, map, puts>>

Init ==
    /\ fs \in FileSystems /\ line \in Lines
    /\ pc = "match" /\ level = 1
    /\ todo = {line.path} /\ next = {}
    /\ cur = <<>> /\ call = Start(<<>>, FALSE)
    /\ map = << >> /\ puts = {}

-----------------------------------------------------------------------------
(* match *)

(* There is no expression in the source. *)
Literal ==
    /\ pc = "match" /\ line.elems = <<>>
    /\ pc' = "files"
    /\ UNCHANGED <<fs, line, level, todo, next, cur, call, map, puts>>

(* ls: first the directory is expanded. *)
ListDir ==
    /\ pc = "match" /\ line.elems # <<>>
    /\ \E dir \in todo :
        /\ todo' = todo \ {dir} /\ cur' = dir
        /\ call' = Start(dir, FALSE)
    /\ pc' = "ls"
    /\ UNCHANGED <<fs, line, level, next, map, puts>>

ReadlinkCall ==
    /\ pc \in {"ls", "expand"} /\ call.pc = "walk"
    /\ call' = Step(fs, call)
    /\ UNCHANGED <<fs, line, pc, level, todo, next, cur, map, puts>>

Children(dir) == {Last(p) : p \in {q \in DOMAIN fs : q # <<>> /\ Front(q) = dir}}

(* Whether ls takes the name in dir: with os.Lstat, of a part that is not the
   last it takes directories alone. *)
TakesLinks(dir, name, last) ==
    LET f == OsStat(fs, Append(dir, name)) IN f.err = "ok" /\ (last \/ fs[f.path].kind = "d")
Takes(dir, name, last) ==
    LET f == OsLstat(fs, Append(dir, name)) IN f.err = "ok" /\ (last \/ fs[f.path].kind = "d")

(* What ls returns of the directory; a file stands for itself. *)
Ls(dir, re, last) ==
    LET there == OsStat(fs, dir)
    IN IF there.err # "ok" THEN {}
       ELSE IF fs[there.path].kind # "d" THEN {<<>>}
       ELSE {<<name>> : name \in {x \in Children(there.path) \cap re : Takes(dir, x, last)}}

(* A directory that cannot be expanded has nothing in it. *)
Listed ==
    /\ pc = "ls" /\ call.pc = "done"
    /\ next' = IF call.err # "ok" THEN next
               ELSE next \cup {cur \o name :
                        name \in Ls(call.s, line.elems[level].re, level = Len(line.elems))}
    /\ pc' = "match"
    /\ UNCHANGED <<fs, line, level, todo, cur, call, map, puts>>

(* rematch: the next part of the source, in all that was found. *)
NextPart ==
    /\ pc = "match" /\ line.elems # <<>> /\ todo = {}
    /\ IF level = Len(line.elems)
       THEN pc' = "files" /\ todo' = next /\ UNCHANGED level
       ELSE /\ level' = level + 1
            /\ todo' = {found \o line.elems[level + 1].p : found \in next}
            /\ UNCHANGED pc
    /\ next' = {}
    /\ UNCHANGED <<fs, line, cur, call, map, puts>>

-----------------------------------------------------------------------------
(* addGlob *)

(* The next file; r takes it as it is. *)
NextFile ==
    /\ pc = "files"
    /\ \E file \in todo :
        /\ todo' = todo \ {file} /\ cur' = file
        /\ call' = IF line.type = "r" THEN [Start(file, TRUE) EXCEPT !.pc = "done"]
                   ELSE Start(file, TRUE)
    /\ pc' = "expand"
    /\ UNCHANGED <<fs, line, level, next, map, puts>>

(* fr, rr, r: the destination of the file that was found as v and expanded to
   src. *)
Dst(v, src) ==
    IF line.dst = OmitDst THEN Trimmed(src)
    ELSE IF line.type = "fr" THEN line.dst
    ELSE line.dst \o (IF line.elems = <<>> THEN v
                      ELSE SubSeq(v, Len(line.path) + 1, Len(v)))

(* auto: a link is put as a link. *)
EntryFor(src) ==
    IF line.type = "fr" THEN [kind |-> "f", src |-> src]
    ELSE LET node == fs[OsLstat(fs, src).path] IN
         IF node.kind = "l" THEN [kind |-> "l", abs |-> node.abs, to |-> node.to]
         ELSE [kind |-> node.kind, src |-> src]

(* Map.Add of the links, in their order. *)
LinkedNone(m, adds) == m
LinkedAlone(m, adds) ==
    FoldLeft(LAMBDA r, l : (l.dst :> [kind |-> "l", abs |-> l.abs, to |-> l.to]) @@ r,
             IF adds = <<>> THEN m ELSE << >>, adds)
Linked(m, adds) ==
    FoldLeft(LAMBDA r, l : (l.dst :> [kind |-> "l", abs |-> l.abs, to |-> l.to]) @@ r,
             m, adds)

Failed(linked) == pc' = "failed" /\ map' = linked /\ UNCHANGED puts

(* The file is expanded, and put if it is there. *)
PutFile ==
    /\ pc = "expand" /\ call.pc = "done" /\ line.type # "Rr"
    /\ LET src == call.s
           linked == Linked(map, call.adds)
       IN IF call.err # "ok" \/ (line.type # "fr" /\ OsLstat(fs, src).err # "ok")
          THEN Failed(linked)
          ELSE /\ map' = (Dst(cur, src) :> EntryFor(src)) @@ linked
               /\ puts' = puts \cup {[file |-> cur, src |-> src, dst |-> Dst(cur, src)]}
               /\ pc' = "files"
    /\ UNCHANGED <<fs, line, level, todo, next, cur, call>>

(* filepath.Walk below the expanded source, which follows no link. *)
PutTree ==
    /\ pc = "expand" /\ call.pc = "done" /\ line.type = "Rr"
    /\ LET src == call.s
           linked == Linked(map, call.adds)
           there == OsLstat(fs, src).path
           below == {SubSeq(q, Len(there) + 1, Len(q)) :
                        q \in {x \in DOMAIN fs : IsStrictPrefix(there, x)}}
           dst(f) == (IF line.dst = OmitDst THEN <<>> ELSE line.dst) \o f
           tree == [d \in {dst(f) : f \in below} |->
                        EntryFor(src \o (CHOOSE f \in below : dst(f) = d))]
       IN IF call.err # "ok" THEN Failed(linked)
          ELSE /\ map' = tree @@ linked
               /\ puts' = {[file |-> cur \o f, src |-> src \o f, dst |-> dst(f)] : f \in below}
               /\ pc' = "files"
    /\ UNCHANGED <<fs, line, level, todo, next, cur, call>>

(* The prefix is a link, and the source comes to the prefix itself. *)
Panic ==
    /\ pc = "expand" /\ call.pc = "panicked"
    /\ pc' = "panicked"
    /\ UNCHANGED <<fs, line, level, todo, next, cur, call, map, puts>>

Finish ==
    /\ pc = "files" /\ todo = {}
    /\ pc' = "done"
    /\ UNCHANGED <<fs, line, level, todo, next, cur, call, map, puts>>

Ended == pc \in {"done", "failed", "panicked"}
Terminated == Ended /\ UNCHANGED vars

Next == \/ Literal \/ ListDir \/ ReadlinkCall \/ Listed \/ NextPart
        \/ NextFile \/ PutFile \/ PutTree \/ Panic \/ Finish \/ Terminated

Spec == Init /\ [][Next]_vars

(* Weak fairness of Next; CanStep is ENABLED <<Next>>_vars. *)
CanStep ==
    ~Ended /\ (pc \in {"ls", "expand"} /\ call.pc = "walk" => Step(fs, call) # call)
FairSpec == Spec /\ ([]<>~CanStep \/ []<><<Next>>_vars)
-----------------------------------------------------------------------------
(* Properties *)

(* A call, the position on the line and the entries keep their form, and what
   was put is an entry. *)
TypeOK ==
    /\ pc \in {"match", "ls", "files", "expand", "done", "failed", "panicked"}
    /\ call \in Calls
    /\ \A put \in puts : put.dst \in DOMAIN map

(* Where the root file system itself, as "/", has the path p. *)
InRoot(p) == Follow(fs, Prefix, Trimmed(p))

(* Expand, with its offset in bytes and its cleaning by the text, comes to the
   very file that a process in the root file system would open, and fails as
   that would: nothing of the host below "/" is taken for a part of it. *)
ExpandsRight ==
    Plain(fs) /\ call.pc = "done" /\ call.err \in {"ok", "none", "notdir"}
          /\ IsPrefix(Prefix, cur) /\ line.type # "r" =>
      call.err = InRoot(cur).err /\ (call.err = "ok" => call.s = InRoot(cur).path)

(* An expression finds the paths of the root file system that have a matching
   name at each part, in a directory that the part before leads to: through
   links in the fixed names, never through a link that an expression matched;
   and a file where a directory was expected stands for itself. *)
InDir(dir, i) ==
    LET last == i = Len(line.elems)
        in == InRoot(dir)
        is(name) == fs[Append(in.path, name)].kind = "d" \/ last
    IN IF in.err # "ok" THEN {}
       ELSE IF fs[in.path].kind = "f" THEN {dir}
       ELSE {Append(dir, name) : name \in
                {x \in line.elems[i].re : Append(in.path, x) \in DOMAIN fs /\ is(x)}}
MatchesOf ==
    LET upto[i \in 0..Len(line.elems)] ==
          IF i = 0 THEN {<<>>}
          ELSE UNION {InDir(found \o line.elems[i].p, i) : found \in upto[i - 1]}
    IN IF line.elems = <<>> THEN {line.path} ELSE upto[Len(line.elems)]
FindsMatches ==
    Plain(fs) /\ IsPrefix(Prefix, line.path) /\ pc = "files" /\ line.type \in {"rr", "r", "fr"} =>
        todo \cup {put.file : put \in puts} = MatchesOf

(* The comment in archivegen.go above Glob.Expand: all symlinks are resolved,
   so that none of them leads to outside of the prefix. *)
AllResolved ==
    call.pc = "done" /\ call.err = "ok" /\ IsPrefix(Prefix, cur) /\ line.type # "r" =>
        \A i \in Len(Prefix) + 1..Len(call.s) :
            SubSeq(call.s, 1, i) \in DOMAIN fs /\ fs[SubSeq(call.s, 1, i)].kind # "l"

(* The tree of the archive. *)
Archive ==
    [p \in UNION {Prefixes(dst) : dst \in DOMAIN map} \cup {<<>>} |->
        IF p \in DOMAIN map THEN map[p] ELSE Dir]

(* The links that an expansion adds make up for the names it has replaced:
   each file that was asked for below the prefix is reached in the archive by
   the path it was asked for. *)
Reachable ==
    Plain(fs) /\ pc = "done" /\ line.dst = OmitDst /\ line.type \in {"fr", "rr"} =>
        \A put \in puts :
            IsPrefix(Prefix, put.file) /\ fs[put.src].kind = "f" =>
                Follow(Archive, <<>>, Trimmed(put.file)) = Found(put.dst)

(* Whatever the links lead to, themselves included, each line comes to its
   end: readlink gives up after linkMax links and goes forward in between. *)
Terminates == <>Ended
=============================================================================
