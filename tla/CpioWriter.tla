----------------------------- MODULE CpioWriter -----------------------------
(***************************************************************************)
(* Writing an archive in the newc format: cpio/cpio.go with WriteFile of   *)
(* cpio/copy_generic.go, driven by the cpioWriter of archive/cpio.go and   *)
(* by archive/write.go.                                                    *)
(*                                                                         *)
(* The archive is a sequence of chunks [kind, at, len], one for each call  *)
(* of the writer below.  A header chunk is the fixed part with the name    *)
(* and its zero byte; bytes have no values.                                *)
(***************************************************************************)
EXTENDS Integers, Sequences

CONSTANTS
    MaxMembers,     \* bound: members of an archive
    NameLens,       \* the lengths of names
    Sizes,          \* the sizes of files, links and created data
    Drifts,         \* how much a file may have grown since its Stat
    Times,          \* modification times
    MAX             \* the largest number of a field, 2^32-1 in the code

ASSUME CpioAssumption ==
    /\ NameLens \subseteq Nat /\ Sizes \subseteq Nat
    /\ Drifts \subseteq Int /\ Times \subseteq Int
    /\ MaxMembers \in Nat /\ MAX \in Nat

(* newcMagic and 13 fields of 8 digits; zsize; the trailer, whose name is
   "TRAILER!!!" and has its zero byte from the padding. *)
FIXED == 110
ZSIZE == 10240
TRAILER == FIXED + 10

VARIABLES
    out,        \* the chunks written
    length, remaining, inode,
    members,    \* the headers written: [at, name, size]
    state       \* "open", "closed", "failed" (an error) or "panicked"

vars == <<out, length, remaining, inode, members, state>>

writer == [out |-> out, length |-> length, remaining |-> remaining, state |-> state]

Init ==
    /\ out = <<>> /\ length = 0 /\ remaining = 0 /\ inode = 1
    /\ members = <<>>
    /\ state = "open"

-----------------------------------------------------------------------------
(* The steps of the writer w; nothing happens after an error or a panic. *)

Stop(w, why) ==
    [out |-> w.out, length |-> w.length, remaining |-> w.remaining, state |-> why]
Expect(w, n) ==
    [out |-> w.out, length |-> w.length, remaining |-> n, state |-> w.state]

(* (cw *Writer) write *)
Emit(w, kind, n) ==
    IF w.state # "open" THEN w
    ELSE [out |-> Append(w.out, [kind |-> kind, at |-> w.length, len |-> n]),
          length |-> w.length + n, remaining |-> w.remaining, state |-> w.state]

(* Mutants of Zeros: no check, and nothing to write for a negative n. *)
ZerosUnchecked(w, n) == IF n > ZSIZE THEN Stop(w, "failed") ELSE Emit(w, "zeros", n)
ZerosIfAny(w, n) ==
    IF w.state = "open" /\ n > ZSIZE THEN Stop(w, "failed")
    ELSE IF n < 0 THEN w
    ELSE Emit(w, "zeros", n)

(* zeros: the slice zeroBlock[:n] panics for a negative n. *)
Zeros(w, n) ==
    IF w.state # "open" THEN w
    ELSE IF n > ZSIZE THEN Stop(w, "failed")
    ELSE IF n < 0 THEN Stop(w, "panicked")
    ELSE Emit(w, "zeros", n)

(* pad: up to the next multiple of 4, or of ZSIZE. *)
Pad4(w) == Zeros(w, (4 - (w.length % 4)) % 4)
PadBlock(w) == Zeros(w, (ZSIZE - (w.length % ZSIZE)) % ZSIZE)

(* Mutant of Flush: the rest of the last member is not filled. *)
FlushPadding(w) == IF w.length = 0 THEN w ELSE Pad4(w)

(* flush: what is missing of the last member, and its padding. *)
Flush(w) == IF w.length = 0 THEN w ELSE Pad4(Zeros(w, w.remaining))

(* WriteHeader.  fmt16 panics for a negative number; those that are too large
   have been found before. *)
Header(w, name, size, time) ==
    LET f == Flush(w) IN
    IF f.state # "open" THEN f
    ELSE IF time < 0 THEN Stop(f, "panicked")
    ELSE Pad4(Expect(Emit(f, "header", FIXED + name + 1), size))

(* Write: no more than what the header left. *)
Data(w, n) ==
    IF w.state # "open" THEN w
    ELSE IF n > w.remaining THEN Stop(w, "failed")
    ELSE Expect(Emit(w, "data", n), w.remaining - n)

(* io.Copy in WriteFile: all the file has, whatever the header says. *)
Copy(w, n) ==
    IF w.state # "open" THEN w
    ELSE Expect(Emit(w, "data", n), w.remaining - n)

-----------------------------------------------------------------------------
(* The calls of archive/write.go *)

Becomes(w) ==
    /\ out' = w.out /\ length' = w.length /\ remaining' = w.remaining
    /\ state' = w.state

(* A member: cpioHeader checks the size and the time, then comes the header,
   then its data by one of the operators above: w is the writer after both. *)
Member(name, size, time, w) ==
    LET h == Header(writer, name, size, time) IN
    /\ state = "open"
    /\ Len(members) < MaxMembers
    /\ IF size >= MAX \/ time >= MAX
       THEN /\ state' = (IF size >= MAX THEN "failed" ELSE "panicked")
            /\ UNCHANGED <<out, length, remaining, inode, members>>
       ELSE /\ Becomes(w)
            /\ IF h.state = "open"
               THEN /\ inode' = inode + 1
                    /\ members' = Append(members,
                         [at |-> Flush(writer).length, name |-> name, size |-> size])
               ELSE UNCHANGED <<inode, members>>

(* writeDir: a directory's name gets a slash. *)
WriteDir == \E name \in NameLens :
    Member(name + 1, 0, 0, Header(writer, name + 1, 0, 0))

(* createFile: the size is the data's. *)
CreateFile == \E name \in NameLens, n \in Sizes, t \in Times :
    Member(name, n, t, Data(Header(writer, name, n, t), n))

(* Symlink: the data is the link's target, which is never as long as MAX; it
   does not go through cpioHeader. *)
Symlink == \E name \in NameLens, n \in Sizes :
    n < MAX /\ Member(name, n, 0, Data(Header(writer, name, n, 0), n))

(* writeFile: the size is from the file's Stat, the copy reads what is there
   when it runs. *)
WriteFile == \E name \in NameLens, size \in Sizes, t \in Times, d \in Drifts :
    /\ size + d >= 0
    /\ Member(name, size, t, Copy(Header(writer, name, size, t), size + d))

(* The writer below fails: main ends with the error. *)
WriteFails ==
    /\ state = "open"
    /\ state' = "failed"
    /\ UNCHANGED <<out, length, remaining, inode, members>>

Close ==
    /\ state = "open"
    /\ LET w == PadBlock(Emit(Flush(writer), "trailer", TRAILER)) IN
       Becomes(IF w.state = "open" THEN Stop(w, "closed") ELSE w)
    /\ UNCHANGED <<inode, members>>

Terminated == state # "open" /\ UNCHANGED vars

Next == WriteDir \/ CreateFile \/ Symlink \/ WriteFile \/ WriteFails \/ Close \/ Terminated

Spec == Init /\ [][Next]_vars
-----------------------------------------------------------------------------
(* Properties *)

TypeOK ==
    /\ \A i \in DOMAIN out : out[i].at \in Nat /\ out[i].len \in Nat
    /\ length \in Nat /\ remaining \in Int /\ inode \in Nat
    /\ \A i \in DOMAIN members : /\ members[i].at \in Nat
                                  /\ members[i].name \in Nat
                                  /\ members[i].size \in Nat
    /\ state \in {"open", "closed", "failed", "panicked"}

(* How a reader goes from a member to the next: the name and the data are
   each padded to a multiple of 4, counted from the member's header. *)
Up4(n) == n + ((4 - (n % 4)) % 4)
DataAt(m) == m.at + Up4(FIXED + m.name + 1)
After(m) == DataAt(m) + Up4(m.size)
End == IF members = <<>> THEN 0 ELSE After(members[Len(members)])

(***************************************************************************)
(* A reader stays in step: it finds every header where the sizes and names *)
(* of the ones before send it, and the trailer after the last.  The writer *)
(* pads the whole length, the reader each part: the two agree for every    *)
(* name, size and file that shrinks while it is read.                      *)
(***************************************************************************)
HeadersInStep ==
    /\ members # <<>> => members[1].at = 0
    /\ \A i \in 1..Len(members)-1 : members[i+1].at = After(members[i])
TrailerInStep ==
    state = "closed" =>
        \E i \in DOMAIN out : out[i].kind = "trailer" /\ out[i].at = End
InStep == HeadersInStep /\ TrailerInStep

(***************************************************************************)
(* "Size int64 // length in bytes." (cpio/cpio.go:45): the data that is    *)
(* written lies within the bytes its header announces.                     *)
(***************************************************************************)
Within(c) == \E i \in DOMAIN members :
                /\ DataAt(members[i]) <= c.at
                /\ c.at + c.len <= DataAt(members[i]) + members[i].size
SizeIsLength == \A i \in DOMAIN out : out[i].kind = "data" => Within(out[i])

(***************************************************************************)
(* An archive that was closed is one: no member's data runs over its end,  *)
(* whatever became of the files, and the length is a multiple of the block *)
(* size.                                                                   *)
(***************************************************************************)
ClosedWhole == state = "closed" => SizeIsLength /\ length % ZSIZE = 0
=============================================================================
