# Verification of archivegen

`archivegen` reads configuration files, resolves what their lines stand for
(files, globs, directories, ELF programs with their libraries), and writes a tar
or a cpio archive, or prints the resolved list. This directory holds TLA+ models
of it, the TLC runs that check them and the TLAPS proofs about them.

## Inventory

| component | code | state | operations | depends on |
|---|---|---|---|---|
| configuration loader | `config/config.go` 202-309, `config/map.go` 249-824 | the position in the files, the `Map` of the file and the one of all files, the ELF results, `elfAdded` | `FromFiles`, `FromReader`, `add` by type, `addElf`, `resolve`, `includeElfs`, `Merge` | all below |
| entry list | `config/map.go` 148-178, 430-454 | `A`, `m` | `add`'s end, `Add` | masks |
| masks | `config/mask.go` | a slice `mm` of functions in an array slices share | `set`, `del`, `apply`, the copy of `resolve` | |
| line reader | `config/config.go` 20-200 | the place in the line, the heredoc | `fieldsFuncN`, `multireader`, `failable` | |
| variables and braces | `config/map.go` 74-138, 180-231, 249-321 | the variables and their replacer | `variableMap.add`, `multi`, `alternate` | |
| entry fields | `config/entry.go` | none | `Entry`, `Format`, `Base64`, ... | |
| symlink expansion | `config/resolve.go`, `elf/readlink.go` | the path left, the place in it, the number of links | `readlink`, `expand`, `Expand` | entry list (adds the links) |
| glob match | `config/match.go` | the directories left | `match`, `rematch`, `ls` | |
| ELF resolver | `elf/resolver.go` | the directory cache, the class, per call the sets of files, paths and errors | `Resolve`, `resolv`, `search`, `Find` | loader cache |
| ld.so.conf reader | `elf/resolver.go` 388-488 | the list of directories | `ldglob`, `ReadConfig` | |
| ELF loader cache | `elf/elf.go` | a map from paths to parsed files, shared by all goroutines | `defaultLoader`, `Dynamic`, `Interpreter` | |
| archive tree | `archive/node.go`, `archive/write.go` | the tree | `Render`, `Add`, `Write`, `Print` | writers |
| cpio writer | `cpio/`, `archive/cpio.go` | `length`, `remaining`, `inode` | `WriteHeader`, `Write`, `WriteFile`, `Close` | |
| tar writer | `archive/tar.go` | that of the library | the same | |
| main and flags | `archivegen.go`, `flag.go`, `format.go`, `termios_*.go` | the options | `loadTree`, `printTree` | all above |

How they interact. One thread does everything by calls, except that with
`-elf.concurrent` each ELF line starts a goroutine that resolves the program's
libraries. A goroutine shares with the main thread the list of results `m.elf`
(under `m.mu`), the wait group `m.wg`, the channel `q` that bounds the
goroutines, and, for reading, the array of masks it was given; it shares the
resolver's directory cache and the loader cache with the other goroutines. The
main thread waits for the group at the end of a file and only then includes the
results. The loader's list goes to `Render`, the tree's walk calls the writer.

What is hard in it:

- *concurrency*: the append of results, the order in which they come, masks that
  change while a goroutine still works, goroutines that outlive their file;
- *aliasing*: masks are changed in place in arrays that several slices share;
- *order*: later lines override earlier ones, but ELF lines of a file come last,
  files override files, and the tree keeps what came first;
- *long sequences*: a mask line's index depends on all mask lines before it, a
  rename is undone by a later computation of the same destination;
- *shared caches*: goroutines search libraries over one cache of parsed files,
  one of directories and one class, in any order;
- *state kept too long*: an offset in a path that has changed, fields of a line
  that each part of a list overwrites, a `split` that two passes share;
- *time between look and use*: a file grows or shrinks after its `Stat`;
- *boundaries*: indices from either end, padding to 4 and to 10240 bytes,
  numbers of 8 digits.

What makes each component correct is written as properties below; the hazards
and the properties that watch them are in `PROJECT.json`.

## Modules

| module | models | composes |
|---|---|---|
| `EntryMap` | the entry list: `A` and its index `m` | |
| `MaskList` | masks as Go slices: a heap of arrays, slices as a place and a length, `append` that writes in place or copies | `EntryMap` (entries) |
| `ConfigLoad` | the loader with its goroutines | `EntryMap`, `MaskList` |
| `LoadSpec` | what a load promises: a dictionary, a list of masks as a value, whole files | `EntryMap`, `MaskList` (the effect of a mask) |
| `Readlink` | the walk over a path with links, below the root file system, and the kernel's walk it is compared with | |
| `GlobMatch` | from the source of an `fr`, `r`, `rr` or `Rr` line to entries: `match`, `ls`, `addGlob`, `addRecursive` | `Readlink` |
| `LdConf` | `ReadConfig`: the recursion of `ldglob` over files that include files | `Readlink` |
| `ElfResolver` | `Resolve` and `Find` of several lines at a time, with the loader's cache and the cache of directories | `LdConf` |
| `LineExpansion` | variables, and the calls of `add` for the parts of a line with braces | |
| `LineReader` | `FromReader` up to `add`: fields, comments, lists over several lines, heredocs | `LineExpansion` |
| `ArchiveTree` | list, tree, archive, printed list, and the archive of that | `EntryMap` |
| `CpioWriter` | the stream of a newc archive | |
| `MCConfigLoad`, `MCGlobMatch`, `MCElfResolver`, `MCLineReader`, `MCArchiveTree`, `MCCpioWriter` | the small systems TLC checks | |
| `EntryMapProofs`, `LineReaderProofs`, `ElfResolverProofs`, `ArchiveTreeProofs`, `CpioWriterProofs` | lemmas and theorems | the modules they are named for |
| `ConfigLoadProofs`, `LoadSpecProofs` | theorems about `MaskList` and `ConfigLoad`: the slices, the map, the masks and the goroutines; types, merge and the refinement of `LoadSpec` | the one before it |
| `DataInduction` | induction over the numbers, folds and the flattening of sequences: lemmas that the proofs above share | |

What `GlobMatch`, `ElfResolver` and `LineReader` compute is given to `ConfigLoad`
by constants (`Expansion`, `Matches`, `Walk`, `Result`, `FindLib`, its lines): the
loader's interleavings do not depend on how they are computed, and the theorems
about the loader hold for whatever they return.

The definitions named "mutant" in a comment stand before the definition they
are a wrong version of; `PROJECT.json` says which property each one breaks.
Nothing in a specification uses them.

### ConfigLoad

The main thread has a program counter `pc`: `open` (the next file), `read` (the
next line), `elf` (`addElf` for the ELF entries of the line), `spawn` (at
`q <- struct{}{}`), `wait` (at `m.wg.Wait`), `results` (the loop of
`includeElfs`), `include` and `libs` (inside `includeElf`), `merge`, and `done`
or `failed`. A line is one action: scan, `lookup`, masks, and the operation of
its type. What the operation puts, in order, is left in `pend`, and `Put` puts
one at a time while the goroutines go on. A line that fails ends the load, so
what it would have put before is left out.

A job is a goroutine of `resolve`: `queued` (the channel is full), `running`
(`Resolve`), `append` and `unlock` (inside the lock), `done` (before
`wg.Done`), `gone`. The append of Go reads the slice's header and writes the
longer one; the model does it in two steps, `Lock` and `Record`, which only the
lock keeps together. A goroutine's last step, `<-q`, belongs to no file: after
`wg.Done` it is counted in `leaving`, and the file may end and the next begin.

A line of the model is a call of `add` after variables are replaced and braces
are expanded: its fields are the type, the source, the destination, whether
that was given, the owner, whether it has a `?`, and its alternatives. The
`own` of an entry stands for mode, user and group. The file system, the symlink
expansion, the globs and the resolver are functions that constants give; the
proofs hold for all of them. They do not change during a load.

### MaskList

`heap` is a sequence of arrays, a slice `[arr, len]` (masks are only ever cut at
the end, so every slice starts at the first place). `set` appends (in place when
the array has room, else to a copy with twice the room) or overwrites in place;
`del` cuts or shifts in place. This is where the copy in `resolve` matters, and
why masks are not simply a sequence: `LoadSpec` has them as a sequence, and the
refinement is what says that no sharing shows.

### Readlink and GlobMatch

A path is the sequence of its names, and a name has a width in bytes: the walk
remembers where it is as an offset in bytes and keeps it while the path under it
changes, so widths are what its faults depend on. `Step` is one call of
`readlink`; a call is a record of the path, the offset, the number of links
followed and the links it has added. `Follow` is the walk of the kernel, with a
top directory that `..` and absolute links do not leave: with `/` it is what the
program's own system calls do, with the prefix what a process inside the root
file system would see. `GlobMatch` takes one line through `match`, one directory
of it at a time (`ListDir`, `ReadlinkCall`, `Listed`, `NextPart`), and then
through the files that were found (`NextFile`, `ReadlinkCall`, `PutFile`,
`PutTree`). Which directory or file comes next is left open.

The walk is right only for the links `Plain` describes: relative links that stay
below the prefix, and bare names that lead to something longer or to something
that is no link. `ExpandsRight`, `FindsMatches` and `Reachable` are stated for
those, and `rootfs_chain` shows what happens with the others.

### LdConf and ElfResolver

`LdConf` has the calls of `ldglob` as a stack, with the files each has open: a
`defer` closes them when the call returns, so a cycle of includes ends when no
more files can be opened. `ElfResolver` then runs a goroutine for each line. Its
record has the set `ret`, the missing libraries `err`, the directories of the
program, and the stack of `resolv`; `queue` is the rest of the list `search1` is
at. A step takes a lock at most once: `Loader` (under `mu` of `elf.go`), the look
in the directories (under `fileset.mu`), `SetClass` (under `r.mu`). What one
goroutine does between two locks no other can see, so bigger steps lose no
interleaving. `Find` is called by the main thread between lines and reads the
class without the lock.

`SearchRight` compares with a search without marks and caches. It is stated for
the systems the code is made for (`Tame`): a directory has ELF files of one
class, links to directories lead to the same place from outside, names are
plain, an interpreter is there and of the class of its program (a search finds
it in the set without a look at its class), and where an `$ORIGIN` path goes up
no link leads to a directory. `elf_rootfs` drops the condition on links.

A path from `$ORIGIN` keeps its `..`: it is the key of the set of directories
and what `fileset.add` opens, so the kernel goes up from where its links lead,
while the names that are listed there, and the file that is tried, are below the
path that `path.Join` has cleaned by its text. A file that ends before
`debug/elf` has its header (`Truncated`) is an error that ends the search; one
with another header is passed over.

### LineExpansion and LineReader

A text is a sequence of characters. All calls of `add` for a line share the slice
of its fields; so the fields are one variable `e`, and `calls` is the stack of
the calls that are at their parts. `given` is what a line has handed on to the
masks or to `Entry`. `IsSep`, `CountFields` and `CutFields` are the two passes
of `fieldsFuncN` with the character that `split` keeps from one to the other;
`JoinLine` and `HereLine` are lines of `multireader`. `LinesRight` and
`ExpandedRight` compare with `Whole` and `Entries`, which say what a line means
without a pass over it, for lines that are well written (`WellWritten`) and
variables whose names do not begin with each other (`Simple`).

### ArchiveTree

`Load` makes the list, `RenderEntry` is one entry of `Render`'s loop, and
`WriteNode` or `PrintNode` one node of the walk. The recursion is a list `work`
of the nodes left. The program runs three times: `run` 1 writes, 2 prints the
same configuration, 3 reads what was printed and writes.

### CpioWriter

The steps of the writer are operators on a record of its fields, in the code's
order, and stop at an error or a panic; an action is a whole member: the
header with the flush before it, the name, the data. `Data` is `Write`, which
checks, `Copy` is the `io.Copy` of `WriteFile`, which does not.

## Runs

| run | question | result |
|---|---|---|
| `load_concurrent` | two goroutines, all interleavings with the lines of a file: is a result lost, do masks leak between lines, does the load do what `LoadSpec` says? | holds |
| `load_order` | two goroutines: does the later line win? | **no**: results come as goroutines end |
| `load_sequential` | all types of lines, no goroutines: the refinement; does a file that exists get in, and under its renamed destination? | holds, but for `fr` lines, see below |
| `load_once` | two files with `-elf.once` and one place in the channel: is a source resolved once, does a goroutine that outlives its file confuse the next, do later lines win, is a file merged whole, does every load end? | holds |
| `rootfs_lines` | links of every form: does a path expand to the file the root file system has there, does an expression find what it should, do the links that are added lead to the file in the archive, does every line end? | holds |
| `rootfs_chain` | has an expanded path no link left? | **no**: a bare name is not looked at again |
| `elf_resolve` | two lines over shared caches: is every search right, does the interpreter stay, is the set closed, does `Find` depend on who was first, does all end? | holds |
| `elf_rootfs` | are libraries read from the root file system? | **no**: an absolute link to a directory is followed on the host |
| `line_read` | does every line reach `add` whole, is there an entry for each thing it stands for, do variables change by their own lines alone? | holds |
| `line_panics` | is what is wrong with a line reported? | **no**: a line of one space panics |
| `tree_archive` | entries above, below and beside each other: parents first, nothing lost, order, print and read again | holds |
| `cpio_stream` | does a reader stay in step, is a closed archive whole? | holds |

The runs with "no" are the findings of `PROJECT.json`, each with the line of the
documentation or the comment it is about. `rootfs_chain` matters where the root
is not `/`: the file that is read is then the host's. `line_panics` stops at the
first of several panics; the finding lists the others the inputs reach.

More that the models show, where a property is stated for the other cases only:

- with `-file.expand`, the default of main, the destination of an `fr` line
  without one is computed again after the masks (`config/map.go:372`), so a
  rename of it is undone, although `README.md:135` says that masks rewrite
  entries; `load_sequential` reaches such loads (a line `mr`, then a line `fr`),
  and `NothingUnrenamed` says that no other entry escapes its renames: `OfFile`
  is this exception;
- `?a` is looked up below the rootfs although its file is outside
  (`OptionalHonoured` has `f`, `fr` and `ar`);
- the times that masks gave are not printed, so the archive of the printed list
  has members without (`SameButTimes`);
- a `d` line that comes after an entry below its directory is ignored; an entry
  below one that is no directory has no member, but a directory of its name may
  be there when another entry has an absolute destination, since a directory's
  slash is dropped (`EntriesKept` says both);
- a destination with a leading slash, which a rename can make, is written by
  `Write` but ends `Print` with a panic;
- a file that grows is copied past the size of its header, and the next flush
  then panics (`ClosedWhole` says such an archive is never closed);
- an archive that fills its last block ends without the zero byte of the
  trailer's name, which its header counts;
- a list with one name in braces is not expanded, and two variables of which one
  name begins with the other are replaced in an order that differs from run to
  run (`ExpandedRight` leaves both out);
- with two `-X` of one name the map keeps the last value and the replacer finds
  the first; a `$` line of any variable builds the replacer from the map, and
  from then on the last value is put, although `config/map.go:118` calls the
  variables of `-X` not mutable (`VariablesKept` holds for sets of `-X` that name
  each variable once, `FlagsOnce`, which the runs have and the theorem assumes);
- a variable whose value has it again in braces makes `add` call itself until
  the stack is full (a panic after `MaxDepth` calls in the model);
- a list or a heredoc that is open at the end of the file is taken as whole;
- a search directory that is a file makes `Readdirnames` panic, and an expanded
  path that comes to a prefix that is a link makes `readlink` panic;
- a program that another one needs as a library can lose its interpreter
  (`InterpKept`), and the library of an `i` line depends on which program was
  first if that is one of 32 bits (`FindRight`).

### Bounds

- *Lines and files* (`MaxLines` 2-3, `MaxFiles` 1-2). Three lines hold a mask
  line, an ELF line and a mask line that would change its masks; or two ELF
  lines that share a library and a mask between them. Two files show what a file
  leaves to the next: the channel's tokens, the sources seen, the merged map.
- *Goroutines* 2, or 1 where the order is the question. With two lines of ELF
  files and a bound of two, both the race for the lock and (with one place) the
  full channel happen.
- *Options*: `-file.expand` is on, as main has it, but in `load_once`, which has
  `fr` and `ar` lines whose sources are links and so shows the other case.
- *The small system* of `MCConfigLoad` has two programs with a common library
  that is reached through a symlink, a script (not an ELF file), a directory
  (an error of `Resolve`), files inside and outside the root, a missing one and
  a cycle of links; masks of all kinds.
- *Root file systems* of `MCGlobMatch`: three names that can be directories or
  links of every form (bare, relative with and without `..`, absolute), one that
  is a link in a directory, and a host beside them with the same names; so a
  link, a link to a link, a link through a link and cycles of two and three all
  happen. `LinkMax` 3 instead of 255: more than any path without a cycle has.
  `MaxFollow` 8 bounds the kernel's walk in the same way.
- *Worlds* of `MCElfResolver`: seventeen, of two lines each and libraries that need
  each other in cycles. Two goroutines are enough for each way one can change
  what the other reads, as a cache entry or a mark has one writer at a time.
  `MaxOpen` 5 files: more than the includes that do not form a cycle need.
- *Lines* of `MCLineReader`: all of up to four characters of blank, tab,
  backslash and letter, and some fifty files of one to five lines, each with a
  form of the syntax or an end where it is not expected. A line keeps nothing of
  the ones before but variables, so two or three lines show what there is.
  `MaxDepth` 4: one call more than three lists in a line can need.
- *Lists of the tree* have up to three entries of thirteen: two suffice for every
  way one entry can be in another's way, the third shows that a third one does
  not change it.
- *The archive* has up to two members and the trailer; names of every remainder
  by 4, sizes that fill a block to the byte, that need more than a block of
  zeros, and that are too large. A header's place depends on the member before
  it only, so two members show every case; the theorem covers any number.
- `MAX` is a constant because TLC's integers have 32 bits; 20000 has the same
  part as 2^32-1.

### Fairness

`load_once` checks `Terminates` under `FairSpec`: weak fairness of the
main thread, of the goroutines together, and of `Release`. Go's scheduler runs
every goroutine that can run, `Lock` is enabled whenever the lock is free, and
`Resolve` returns since the search it does is finite; nothing stronger is
assumed (no fairness between goroutines: each takes finitely many steps).

`rootfs_lines` and `elf_resolve` assume weak fairness of the whole next-state
relation: as long as the program can take a step it takes one. It is written as
a formula over states in which a step is possible (`CanStep`, `Ended`). That a
call of `readlink` that changed nothing would count as no step is why a walk
that stands still is found. In `elf_resolve` it says of the goroutines only that
some goroutine goes on; no lock is held across steps, so none waits for another.

## Proofs

Everything below is proved for all constants: any file system, masks, lines,
lists of entries, names and sizes, any number of files, lines and goroutines.

What is assumed of the constants, each a named `ASSUME` that the runs evaluate:

- `BoundsAssumption`, `LinesAssumption`, `CpioAssumption`: the
  types of numbers, lines and masks;
- `ExpansionAssumption`, `ReaderAssumption` (`LineExpansion`, `LineReader`): files
  and sets of `-X` are made of texts, and the stack has room for a call;
- `SystemAssumption`, `EntriesAssumption` (`ConfigLoad`): what the functions that
  stand for the file system, the globs and the resolver return is of the types
  the Go functions return, and any text a line can have is in their domain.
  Nothing is said of which values they return;
- `TypesAssumption`: the literals `"f"` and `"l"` are in `STRING`, which is true
  of TLA+ and which no rule of the prover says;
- `TreeAssumption` (`ArchiveTree`): a configuration is a list of entries whose
  destination is what `strings.Split` returns, at least one name, and `Names` has
  all names and the empty one, each once;
- `LdConfAssumption`, `ElfAssumption`, `WorldsAssumption` (`LdConf`,
  `ElfResolver`): what an ELF file, a line of `ld.so.conf` and a job are made of.
  The file system is any, with links in cycles and names that lead nowhere;
- `ExpandAssumption` (`ElfResolver`): a path for which `Expand` returns without
  an error is a path. `Expand` is a recursion over the rest of a path and the
  links, of which the prover cannot show that it ends; only what `Find` returns
  depends on it. Everything else but `FindsFirst` treats `Expand` as any
  function.

### The load

- `MapsAlwaysIndexed`: `Spec => []MapsIndexed`. The invariant needed is
  `WellFormed`, which adds that `A` is a sequence and `m` a function into its
  places; without it an append cannot be shown to keep the old places. The
  lemma `PutWellFormed` is the step of `Put` and `MergeNext`, the others leave
  the maps alone or make new ones.
- `MasksAreOfTheLine`: `Spec => MasksOfLineKept`, for the masks a goroutine
  holds. `SliceInv` says that slices lie within their arrays and that no job's
  array is the one of the slice in force (nor of the one put aside) while lines
  are read: a mask line writes only to the array of the slice in force or to a
  new one (`SetConfined`, `DelConfined`), and such a write is seen by no slice of
  another array (`OthersKept`). `includeElfs` makes a job's slice the one in
  force; it reads no mask lines meanwhile, so the invariant speaks of `pc` too.
- `ResultsComplete`, `TokensBounded`, `SourcesResolvedOnce`: `[]NoResultLost`,
  `[]WorkersBounded`, `ResolvedOnce`. `PoolInv` counts: the wait group is the
  number of jobs that have not called `Done`, the tokens in `q` are those of the
  jobs past the send plus the goroutines of earlier files on their way out, and
  `m.elf` is as long as there are jobs past their append (`CountInv`). That
  `Wait` returns then means that no job is pending, and the list, which has no
  job twice (`StageInv`), has all. An append starts from the whole list only
  because of the lock (`SliceInv`), so the count of `m.elf` needs that first.
- `TypesKept`, `MergedWholly`, `ElfsReplaceOthers`: `[]TypeOK`, `[]FileMerged`,
  `[]ElfResultsLast`. `LoadInv` is the conjunction of the invariants above with
  the types of the rest (`TypeInv`), what the slices show (`ShownInv`: no slice
  in use shows a cell of the array that was never written), how far the merge is
  (`MergeInv`), and what the result that is being included has still to put
  (`ResultInv`). The last one is why the results end on top: what a result has
  put so far is in the map, replaced by entries of later results alone.
- `OneByOneLaterWins`: `Slots = 1` gives `Spec => []LaterLineWins`; with more
  places TLC finds it violated (`load_order`), so the condition is needed. The
  proof has two halves. `ResultInv` says in terms of the list `m.elf` that what a
  result has put is replaced only by results that are not before it there
  (`InListOrder`): that is true of any number of goroutines. With one place
  `InTurn` says that the list has the order of the lines: all jobs before one
  that has its token are gone, since a goroutine gives the token back after its
  append and `wg.Done`; so the k-th in the list is the k-th job.
- `RenamesApplied`: `RenamesEnd` gives `Spec => NothingUnrenamed`, with
  `-file.expand` and without. Masks are applied one after the other, each to what
  the one before has made, so a rename that leads where an earlier one begins is
  not followed; `RenamesEnd` says there is none (`MasksRename` is the induction
  over the masks), and `MCConfigLoad` has it of the masks of `load_sequential`. The
  entries that `add` has masked itself are put later, and by then the masks in
  force are still the ones of the line, or they have the destination of their file
  (`Unmoved`, with the exception `OfFile`); all others are masked when
  they are put, and none of those is of a type that masks leave alone
  (`OwnEntry`).
- `LoadImplements`: `Spec => ImplementsLoadSpec`. The mapping takes a slice to
  the list it shows and the list with its index to a dictionary; each action is
  shown to be the step of `LoadSpec` it stands for, or to change nothing there.
  The actions that matter are the mask lines, where the shared array has to show
  no other list, and `includeElfs`, which borrows the slice in force: LoadSpec's
  `taken` is the deferred line whose entries are put, and only its masks may
  filter them. The job at hand is the one the list of results names (`Taken`),
  which no goroutine changes any more when the wait group let the loop begin.

### The resolver

`ResolverTyped`, `ResolvedClosed`, `InterpreterKept`: `[]TypeOK`, `[]Closed`,
`[]InterpKept`, and `FindsFirst`: `[]FindRight`, all from one invariant `Inv`
(`ResolverInvariant`), which TLC checked on the fifteen worlds before it was proved. Each goroutine changes its
own record alone, and what it shares is only read or grows, so `JobStep` reduces
a step to what it makes of that record and of the cache; there is one lemma for
each step on the record (`...OK`) and one for the action (`...Step`).

- `Closed` speaks of the end. On the way a library that is needed is `Awaited`:
  it is in the set, or missing, or being looked for, or found and about to enter,
  or still in the list of the call of `resolv` for the file that needs it. That
  the last one is the *rest* of the file's list (`LeftOf`), also when another
  call for the same file has long returned, is what makes cycles of libraries
  end with all of them. A step may drop one of the five only for another
  (`AwaitedStays`), and at the end the first alone is possible: the stack is
  empty and nothing is missing. That a library is no longer missing once it is
  found for another file (`err` loses it) is safe because it is about to enter,
  and ends with the same name (`TryIs`).
- `InterpKept` needs the cache: a file is closed by `Dynamic` and then knows only
  the interpreter that `Interpreter` has read before. `KnowsInterp` holds of each
  file in the cache, *or* the file was put there as a library of another program,
  which never asks for the interpreter (`AsLib`, which stays true). A goroutine
  between the loader and `Interpreter` holds a file that is open or one of these.
- `FindRight` is proved of the worlds in which `Expand` does what `ExpandsInRoot`
  says for the paths an `i` line tries (`FindsFirst` has it as a hypothesis, and
  `MCElfResolver` assumes it, so that TLC evaluates it for the worlds of the runs;
  `ExpandsRight` of `GlobMatch` checks the same promise of the walk itself). The
  rest is what the goroutines could spoil: `LooksInv` adds to `Inv` that what
  `Find` has left to look at is a rest of the list, that none before it has the
  library (`Looked`), and that no line is started before `ReadConfig` has
  returned, after which the list stays. The loader gives the same file whether
  its name is in the cache or not (`LoaderIs`, `OpensInRoot`), and the class, once
  set, is never set again (`SetClassLooks`), so that what `Find` has passed over
  it would pass over now (`FindTakes`).
- The types need that the path sets have no path twice through `PathAdd`, a fold
  over any list of directories, and that `OpenFiles`, a fold over the stack of
  `ldglob`, changes by one at its head (`OpenCons`): `FoldSteps` in
  `DataInduction` gives both.

### Lines and variables

- `LinesKeepVariables`: `FlagsOnce` gives `Spec => VariablesKept`. With a set of
  -X that names a variable twice TLC finds it violated, so the condition is
  needed. The property speaks of what is found first in the replacer, which
  `Define` builds in any order of the map. `VarsInv`
  says that it has each variable of the map once, with the value it has there
  (`Lists`); then what is found does not depend on the order (`ValueListed`).
  That a sequence of all names without a repetition leaves none out is
  `BuiltLists`.
- `LineTyped`: `Spec => []TypeOK`, of which the calls of `add` are the point:
  never more of them inside each other than `MaxDepth`, and each at a field that
  the line has, although all calls share the fields and each replaces variables
  in them again. `LineInv` adds that the fields at `add` are a source at least or
  those of an `mc` line, which is a mask and has no parts; so its type must
  survive the variables (`ReplaceNone`). That the fields are a sequence, whatever
  `CountFields` has counted, follows for the two passes of `fieldsFuncN` from the
  fold (`FieldsTyped`).

### The tree and the archive

- `TreeTyped`, `DirectoriesFirst`, `EntriesAreKept`, `OrderKeeps`: `[]TypeOK`,
  `[]ParentsFirst`, `[]EntriesKept`, `[]OrderKeepsEntries`. `IsTree` says what
  `Render` has made of the first entries: the paths they lead to, each with what
  the *first* entry that leads there says, its own or a directory on its way.
  That is what `Place` keeps (`PlaceTree`), and for a whole list in any order
  what the fold of it gives (`PlacedTree`); the order of a list then decides only
  which entry is first, and when no entry is below another that matters for the
  directories nobody named alone. For the walk, `Inv` adds that a node is in
  `work` only if all nodes above it are directories (`Reached`) and the one it is
  in has its member already, that a member is one of a node that is reached, and
  that a reached node has its member or is at or below one in `work`
  (`MemberInv`); so when `work` is empty the archive has exactly the reached
  nodes. `PrintInv` is there for the third run: what was printed is a list of
  entries again, because no absolute path is printed.
- `PrintedIsSame`: `CleanLists` gives `Spec => []SameButTimes`. The property
  compares two walks of different runs, so the invariant (`Rerun`) carries the
  first one along: there is a list, the tree that it makes and a finished walk of
  that tree, of which the archive is the members and, in the third run, the list
  is the printed lines (`HistoryInv`). A tree has one walk (`WalkUnique`), so
  whatever else the first run did does not matter. The printed lines name each
  node that was reached once, so they make exactly those nodes again, each with
  what its line says, and the walk of that tree visits the same ones in the same
  order. Without `CleanLists` this is false: a rename can put a destination with
  an empty name inside (the result of `ReplaceAllString` in `mask.go` is not
  cleaned), and what was printed at `a//b` is read at `a/b`.
- `AlwaysInStep`: `Spec => []InStep`. The writer pads the whole length, a reader
  pads the name and the data of each member, so the invariant says that all
  members begin at a multiple of 4 (`UpShift` is the arithmetic) and that an open
  writer's `length + remaining` is the end of its last member's data. The sum is
  what data, also too much or too little of it, keeps; that is why a file that
  changes does no harm to what follows.
- `WriterTyped`, `ClosedIsWhole`: `[]TypeOK`, `[]ClosedWhole`. `WholeInv`: as
  long as `remaining` is not negative all data lie within their members; when it
  is, the file had grown, and the flush before the next header or the trailer
  stops the writer, so such an archive is never closed.

### Lemmas of general use

`SetInduction` is induction over the numbers for a set in place of a predicate
(from the well-foundedness of `<`). With it the functions that
`FoldLeft`, `FlattenSeq` and the model's recursive functions are made of are
shown to exist and to be what one step after the other gives, so that the
theorems hold of lists of every length: `FlattenTyped`, `FlattenHas`,
`MasksTyped` (a list of masks keeps every set of entries each mask keeps),
`PutsFold` and `PlacedFold`; `FoldExists`
and `FoldSteps` say it of any fold over a sequence.

### Only model-checked

- Liveness (`Terminates` of three modules): it needs fairness, which the prover
  does not reason about.
- `OptionalHonoured`, which is about particular systems: those in which each path
  expands or is missing and `a` supports what it finds.
- Of `ElfResolver` and `LdConf`: `SearchRight` and `ConfRead`; of
  `LineReader`: `LinesRight` and `ExpandedRight`; and all of `GlobMatch`. What
  they promise compares with functions over data of any depth (`Follow`, `Expand`,
  `DirsOf`, `Whole`, `Replace`, `Entries`). `FindRight` does so too, but of the
  paths of the configuration alone, for which `ExpandsInRoot` can be evaluated;
  a search makes paths of what the ELF files say, and `SearchRight` would need
  that `Follow` goes from a directory to its files as from the root.

## Not modelled

- *Text without part in the control*: how a number or a mode is parsed and
  printed, regular expressions (the set of names they match stands for them), how
  a source is split at its expressions (`resplit`), tokens of ELF files other than
  `$ORIGIN`, the text of alternatives.
- *tar*: `archive/tar.go` hands each call on to the library, which has the state.
- *Damaged ELF files*: a file is an ELF file, it is none, or it ends before its
  header does; what `debug/elf` does with broken sections is not here.
- *Needed libraries with `..`* in a relative name: `ElfAssumption` has none. The
  directories of ELF files may have it.
- *A file system that changes* while a load reads it. The archive's writer is the
  one place where the code has a promise about that, and `CpioWriter` has it.
- *Flags, terminals, messages and warnings*; `-elf.concurrent` with a file that
  fails, after which goroutines go on writing to a map nobody reads; `-` twice,
  which reads the standard input after it has been closed; the part of an
  archive that an error while writing leaves in place of the output file; an
  `-elf.once` line that is skipped though the first one's entry was dropped by a
  mask.

## Plan

The components that carry the program's logic are modelled, and what the load,
the lines, the resolver, the tree and the archive promise is proved. What is left to prove:

1. `TypeOK` and `Reachable` of `GlobMatch`, for which `Follow` has to be shown to
   end.
2. `SearchRight`, which needs the same, and that the walk over two parts of a path
   is the walk over the second from where the first has led.
