---------------------------- MODULE ArchiveTree ----------------------------
(***************************************************************************)
(* From the list of entries to the archive: Render, Write and Print of     *)
(* archive/node.go, between loadTree and the end of main in archivegen.go. *)
(*                                                                         *)
(* Render makes a tree of the list.  Write walks it and writes a member    *)
(* for each node; Print walks it and prints a line for each node, which    *)
(* can be read as a configuration.  The module runs the program three      *)
(* times: it writes an archive, prints the same configuration, and writes  *)
(* the archive of what was printed.                                        *)
(*                                                                         *)
(* A node is known by its path, the names from the root to it; the map of  *)
(* the tree has the entry of each node.  The recursion of Write and Print  *)
(* is a list of the nodes they still have to come to.                      *)
(***************************************************************************)
EXTENDS EntryMap, SequencesExt

CONSTANTS
    Configs,    \* the lists of entries that are put, in their order
    Names,      \* the names, each once, in the order of sort.Strings
    B64         \* -b64

(* A path is the sequence of its names; strings.Split gives at least one. *)
Paths == Seq(Range(Names)) \ {<<>>}

(* Where absolute paths begin: the name before the first slash is empty. *)
Top == <<"">>

(* An entry, of a type that is left in the list.  src stands for the source,
   the target of a link or the data; own for user and group. *)
IsEntry(e) ==
    /\ e = [type |-> e.type, dst |-> e.dst, src |-> e.src,
             mode |-> e.mode, own |-> e.own, time |-> e.time]
    /\ e.type \in {"f", "d", "l", "c", "b64"} /\ e.dst \in Paths

IsList(list) == list \in Seq(Range(list)) /\ \A i \in DOMAIN list : IsEntry(list[i])

ASSUME TreeAssumption ==
    /\ Names \in Seq(Range(Names)) /\ "" \in Range(Names)
    /\ \A i, j \in DOMAIN Names : Names[i] = Names[j] => i = j
    /\ B64 \in BOOLEAN
    /\ \A list \in Configs : IsList(list)

VARIABLES
    config,     \* the entries of this run's configuration
    run,        \* 1: write, 2: print, 3: write what was printed
    pc,
    cfg,        \* A of the Map: what archive.Render gets
    placed,     \* entries of cfg that are in the tree
    tree,       \* path -> entry
    work,       \* the paths the walk still has to come to
    out,        \* what this run has written or printed
    archive     \* what the first run wrote

vars == <<config, run, pc, cfg, placed, tree, work, out, archive>>

NoTree == << >>

Init ==
    /\ config \in Configs /\ run = 1
    /\ pc = "load"
    /\ cfg = <<>> /\ placed = 0 /\ tree = NoTree /\ work = <<>>
    /\ out = <<>> /\ archive = <<>>

-----------------------------------------------------------------------------
(* loadTree: the list holds the last entry of each destination. *)
Load ==
    /\ pc = "load"
    /\ cfg' = FoldLeft(PutEntry, EmptyMap, config).A
    /\ pc' = "render"
    /\ UNCHANGED <<config, run, placed, tree, work, out, archive>>

(* Destinations Render passes over: none, and those below the name "//". *)
Skipped(dst) == IF Len(dst) = 1 THEN dst[1] = "" ELSE dst[1] = "" /\ dst[2] = ""

(* The entry Render gives a directory that is on the way to e. *)
Implicit(e) ==
    [e EXCEPT !.type = "d", !.mode = IF e.type = "d" THEN e.mode ELSE "755"]

(* Mutants of Place: no node on the way, a later entry replaces a node, and a
   directory on the way keeps the entry's type. *)
PlaceLeaf(t, e) ==
    [p \in DOMAIN t \cup {e.dst} |-> IF p \in DOMAIN t THEN t[p] ELSE e]
PlaceOver(t, e) ==
    IF Skipped(e.dst) THEN t
    ELSE [p \in DOMAIN t \cup (Prefixes(e.dst) \ {<<>>}) |->
            IF p = e.dst THEN e
            ELSE IF p \in DOMAIN t THEN t[p]
            ELSE Implicit(e)]
PlaceTyped(t, e) ==
    IF Skipped(e.dst) THEN t
    ELSE [p \in DOMAIN t \cup (Prefixes(e.dst) \ {<<>>}) |->
            IF p \in DOMAIN t THEN t[p] ELSE e]

(* One entry of Render's loop: Add makes a node for the path and for every
   path on the way, and leaves those that are there. *)
Place(t, e) ==
    IF Skipped(e.dst) THEN t
    ELSE [p \in DOMAIN t \cup (Prefixes(e.dst) \ {<<>>}) |->
            IF p \in DOMAIN t THEN t[p]
            ELSE IF p = e.dst THEN e
            ELSE Implicit(e)]

RenderEntry ==
    /\ pc = "render" /\ placed < Len(cfg)
    /\ placed' = placed + 1
    /\ tree' = Place(tree, cfg[placed + 1])
    /\ UNCHANGED <<config, run, pc, cfg, work, out, archive>>

IsDir(p) == tree[p].type = "d"

(* mapsort: those of the nodes ps that are in p, by their names. *)
Sorted(p, ps) ==
    FlattenSeq([i \in DOMAIN Names |->
                  LET q == Append(p, Names[i]) IN IF q \in ps THEN <<q>> ELSE <<>>])

(* The walk comes to the nodes that are no directories first. *)
Below(p) ==
    LET dirs == {q \in DOMAIN tree : IsDir(q)}
    IN Sorted(p, DOMAIN tree \ dirs) \o Sorted(p, dirs)

(* Render is done.  loadTree refuses an empty tree. *)
Rendered ==
    /\ pc = "render" /\ placed = Len(cfg)
    /\ IF DOMAIN tree = {} THEN pc' = "failed" /\ UNCHANGED work
       ELSE pc' = "walk" /\ work' = Below(<<>>)
    /\ UNCHANGED <<config, run, cfg, placed, tree, out, archive>>

(* A directory's name is joined from the names on the way; an absolute one
   loses its slash. *)
DirName(p) == IF p[1] = "" THEN Tail(p) ELSE p

(* Write(E, w): a directory and a link have no time. *)
Member(p, e) ==
    [name |-> IF e.type = "d" THEN DirName(p) ELSE e.dst,
     kind |-> IF e.type = "b64" THEN "c" ELSE e.type, mode |-> e.mode, own |-> e.own,
     src |-> IF e.type = "d" THEN "" ELSE e.src,
     time |-> IF e.type \in {"d", "l"} THEN 0 ELSE e.time]

(* Mutant of WriteNode: a directory no entry names has no member. *)
WriteNodeNamed ==
    /\ pc = "walk" /\ run # 2 /\ work # <<>>
    /\ LET p == Head(work) IN
       /\ out' = IF IsDir(p) /\ tree[p].dst # p THEN out ELSE Append(out, Member(p, tree[p]))
       /\ work' = (IF IsDir(p) THEN Below(p) ELSE <<>>) \o Tail(work)
    /\ UNCHANGED <<config, run, pc, cfg, placed, tree, archive>>

(* (n *Node) Write: the next node, and what is below it if it is a directory.
   The directory "" at the top has no member. *)
WriteNode ==
    /\ pc = "walk" /\ run # 2 /\ work # <<>>
    /\ LET p == Head(work) IN
       /\ out' = IF IsDir(p) /\ p = Top THEN out ELSE Append(out, Member(p, tree[p]))
       /\ work' = (IF IsDir(p) THEN Below(p) ELSE <<>>) \o Tail(work)
    /\ UNCHANGED <<config, run, pc, cfg, placed, tree, archive>>

(* A file that cannot be read, data that is no base64, a full disk. *)
WriteFails ==
    /\ pc = "walk" /\ run # 2
    /\ pc' = "failed"
    /\ UNCHANGED <<config, run, cfg, placed, tree, work, out, archive>>

(* Mutant of Line: a directory's mode is left out, and read as the default. *)
LineNoMode(p, e) ==
    [type |-> IF B64 /\ e.type = "c" THEN "b64" ELSE e.type,
     dst |-> IF e.type = "d" THEN p ELSE e.dst, src |-> IF e.type = "d" THEN "" ELSE e.src,
     mode |-> IF e.type = "d" THEN "755" ELSE e.mode, own |-> e.own]

(* (E Entry) Format, of the entry as Print has it. *)
Line(p, e) ==
    [type |-> IF B64 /\ e.type = "c" THEN "b64" ELSE e.type,
     dst |-> IF e.type = "d" THEN p ELSE e.dst,
     src |-> IF e.type = "d" THEN "" ELSE e.src, mode |-> e.mode, own |-> e.own]

(* (n *Node) Print: as Write, but there is no line for the directory "". *)
PrintNode ==
    /\ pc = "walk" /\ run = 2 /\ work # <<>>
    /\ LET p == Head(work) IN
       IF IsDir(p) /\ p = Top
       THEN pc' = "panicked" /\ UNCHANGED <<work, out>>
       ELSE /\ out' = Append(out, Line(p, tree[p]))
            /\ work' = (IF IsDir(p) THEN Below(p) ELSE <<>>) \o Tail(work)
            /\ UNCHANGED pc
    /\ UNCHANGED <<config, run, cfg, placed, tree, archive>>

Finish ==
    /\ pc = "walk" /\ work = <<>>
    /\ pc' = "done"
    /\ UNCHANGED <<config, run, cfg, placed, tree, work, out, archive>>

(* A printed line as it is read: the destination is cleaned, and no mask
   gives the entry a time. *)
Clean(dst) == FlattenSeq([i \in DOMAIN dst |-> IF dst[i] = "" THEN <<>> ELSE <<dst[i]>>])
Read(l) == [type |-> l.type, dst |-> Clean(l.dst), src |-> l.src, mode |-> l.mode,
            own |-> l.own, time |-> 0]

(* The user runs the program again. *)
RunAgain ==
    /\ pc = "done" /\ run < 3
    /\ run' = run + 1
    /\ config' = IF run = 2 THEN [i \in DOMAIN out |-> Read(out[i])] ELSE config
    /\ archive' = IF run = 1 THEN out ELSE archive
    /\ pc' = "load"
    /\ cfg' = <<>> /\ placed' = 0 /\ tree' = NoTree /\ work' = <<>> /\ out' = <<>>

Ended == pc \in {"failed", "panicked"} \/ (pc = "done" /\ run = 3)
Terminated == Ended /\ UNCHANGED vars

Next == \/ Load \/ RenderEntry \/ Rendered
        \/ WriteNode \/ WriteFails \/ PrintNode \/ Finish
        \/ RunAgain \/ Terminated

Spec == Init /\ [][Next]_vars
-----------------------------------------------------------------------------
(* Properties *)

TypeOK ==
    /\ run \in 1..3
    /\ pc \in {"load", "render", "walk", "done", "failed", "panicked"}
    /\ placed \in 0..Len(cfg)
    /\ \A p \in DOMAIN tree : p \in Paths /\ Prefixes(p) \ {<<>>} \subseteq DOMAIN tree
    /\ \A i \in DOMAIN work : work[i] \in DOMAIN tree

Writing == run # 2

(***************************************************************************)
(* An archive can be unpacked in its order: before every member comes the  *)
(* directory it is in, whatever entries made or left out that directory.   *)
(***************************************************************************)
ParentsFirst ==
    Writing =>
        \A i \in DOMAIN out :
            LET dir == Front(DirName(out[i].name)) IN
            dir # <<>> => \E j \in 1..i-1 : out[j].kind = "d" /\ out[j].name = dir

(* The entry i comes after one below its destination, which made that a
   directory; some entry that is no directory is above its destination. *)
Taken(i) == \E k \in 1..i-1 : IsStrictPrefix(cfg[i].dst, cfg[k].dst)
Blocked(i) == \E j \in DOMAIN cfg :
                /\ cfg[j].type # "d" /\ ~Taken(j)
                /\ IsStrictPrefix(cfg[j].dst, cfg[i].dst)
Written(i) == \E j \in DOMAIN out : out[j] = Member(cfg[i].dst, cfg[i])

(***************************************************************************)
(* What becomes of an entry: an archive has its member, as the entry says, *)
(* unless an entry before it made its destination a directory or another   *)
(* is above it that is none; in the second case no member has its name,    *)
(* but a directory that an absolute destination made.                      *)
(***************************************************************************)
EntriesKept ==
    pc = "done" /\ Writing =>
        \A i \in DOMAIN cfg :
            ~Skipped(cfg[i].dst) =>
                /\ ~Taken(i) /\ ~Blocked(i) => Written(i)
                /\ Blocked(i) /\ cfg[i].dst[1] # "" =>
                      \A j \in DOMAIN out : out[j].name = cfg[i].dst =>
                          out[j].kind = "d" /\ Top \o cfg[i].dst \in DOMAIN tree

(***************************************************************************)
(* The order of the list, which changes with the order in which concurrent *)
(* ELF results are included, decides nothing but the owner and the mode of *)
(* the directories no entry names, as long as no entry is below another.   *)
(***************************************************************************)
Apart == \A i, j \in DOMAIN cfg : ~IsStrictPrefix(cfg[i].dst, cfg[j].dst)
Reordered(pi) == FoldLeft(Place, NoTree, [i \in DOMAIN cfg |-> cfg[pi[i]]])
OrderKeepsEntries ==
    pc = "walk" /\ out = <<>> /\ Apart =>
        \A pi \in {f \in [DOMAIN cfg -> DOMAIN cfg] : IsInjective(f)} :
            LET t == Reordered(pi) IN
            /\ DOMAIN t = DOMAIN tree
            /\ \A p \in DOMAIN t :
                  IF \E i \in DOMAIN cfg : cfg[i].dst = p THEN t[p] = tree[p]
                  ELSE t[p].type = "d" /\ tree[p].type = "d"

(***************************************************************************)
(* "Archives created from -print output results in the same archive."      *)
(* (README.md:8)  It does, but for the times masks gave to members, which  *)
(* Print leaves out.                                                       *)
(***************************************************************************)
Timeless(ms) == [i \in DOMAIN ms |-> [ms[i] EXCEPT !.time = 0]]
SameButTimes == pc = "done" /\ run = 3 => Timeless(out) = Timeless(archive)

(* No destination has an empty name but its first, as Clean leaves them.  Only
   what a rename mask puts for a part of one is not cleaned: a file printed at
   a//b is one at a/b when the line is read. *)
CleanLists ==
    \A list \in Configs : \A i \in DOMAIN list :
        ~Skipped(list[i].dst) => \A k \in 2..Len(list[i].dst) : list[i].dst[k] # ""
=============================================================================
