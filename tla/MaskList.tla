------------------------------ MODULE MaskList ------------------------------
(***************************************************************************)
(* The masks of a configuration, config/mask.go: what one mask does to an  *)
(* entry, and the Go slice (type maskMap) that holds the masks in force.   *)
(*                                                                         *)
(* A slice is a window on a backing array: [arr, len], where arr is the    *)
(* place of the array in the heap (0: no array) and len the number of      *)
(* masks in the window.  An array's length is its capacity.  Slices of     *)
(* one array share it: a write through one is seen through the other.      *)
(* Places and indices are 1-based here.                                    *)
(***************************************************************************)
EXTENDS Integers, Sequences, SequencesExt

CONSTANTS
    Masks,      \* the masks a configuration can declare
    NoMask,     \* what an array holds beyond the masks written to it
    MaskDef     \* mask -> [kind, re, ...], see MaskFunc

(***************************************************************************)
(* The types regexReplaceMask, regexIgnoreMask and regexModeMask leave     *)
(* alone: the entries that stand for others, which are masked one by one   *)
(* when they are added.  LA, Rr, r, rr, a and ar stand for others too and  *)
(* are not in the list.                                                    *)
(***************************************************************************)
Exempt == {"p", "i", "L", "rL", "R"}

(* The types regexLibraryMask applies to. *)
ElfTypes == {"i", "L", "LA", "rL"}

(* Does mask k drop the entry: mi drops what its regexp matches, mI the rest. *)
Drops(k, e) ==
    /\ e.type \notin Exempt
    /\ \/ MaskDef[k].kind = "mi" /\ e.dst \in MaskDef[k].re
       \/ MaskDef[k].kind = "mI" /\ e.dst \notin MaskDef[k].re

(* What mask k makes of an entry it does not drop. *)
MaskFunc(k, e) ==
    LET d == MaskDef[k] IN
    CASE e.dst \notin d.re -> e
      [] e.dst \in d.re /\ d.kind = "mr" /\ e.type \notin Exempt ->
            [e EXCEPT !.dst = d.to[e.dst]]
      [] e.dst \in d.re /\ d.kind = "mm" /\ e.type \notin Exempt ->
            [e EXCEPT !.own = d.own]
      [] e.dst \in d.re /\ d.kind = "mt" ->
            [e EXCEPT !.time = d.time]
      [] e.dst \in d.re /\ d.kind = "ml" /\ e.type \in ElfTypes ->
            [e EXCEPT !.lib = d.lib]
      [] OTHER -> e

(* One turn of the loop of apply: nothing happens after a drop. *)
MaskStep(r, k) ==
    IF r.drop THEN r
    ELSE IF Drops(k, r.e) THEN [r EXCEPT !.drop = TRUE]
    ELSE [r EXCEPT !.e = MaskFunc(k, r.e)]

(* Mutant of ApplyMasks: the loop ends after its first turn. *)
ApplyFirst(masks, e) ==
    LET start == [e |-> e, drop |-> FALSE]
    IN IF masks = <<>> THEN start ELSE MaskStep(start, Head(masks))

(* (m maskMap) apply: the entry after all masks, and whether one dropped it. *)
ApplyMasks(masks, e) == FoldLeft(MaskStep, [e |-> e, drop |-> FALSE], masks)

-----------------------------------------------------------------------------
(* Slices *)

NilSlice == [arr |-> 0, len |-> 0]

(* A heap is a sequence of arrays, a slice a window on one of them. *)
Heaps == Seq(Seq(Masks \cup {NoMask}))

Cap(heap, s) == IF s.arr = 0 THEN 0 ELSE Len(heap[s.arr])

IsSlice(heap, s) ==
    /\ s \in [arr : 0..Len(heap), len : Nat]
    /\ s.len <= Cap(heap, s)

(* The masks a slice shows, as a value. *)
Eff(heap, s) == IF s.arr = 0 THEN <<>> ELSE SubSeq(heap[s.arr], 1, s.len)

(* The array append moves to when the old one is full: one place, then twice
   the old capacity. *)
Grown(heap, s, k) ==
    LET cap == IF Cap(heap, s) = 0 THEN 1 ELSE 2 * Cap(heap, s) IN
    [i \in 1..cap |-> IF i <= s.len THEN heap[s.arr][i]
                      ELSE IF i = s.len + 1 THEN k ELSE NoMask]

(* append(m, f): in place while the array has room, else in a new array. *)
SliceAppend(heap, s, k) ==
    IF s.len < Cap(heap, s)
    THEN [ok |-> TRUE, heap |-> [heap EXCEPT ![s.arr][s.len + 1] = k],
          mm |-> [s EXCEPT !.len = s.len + 1]]
    ELSE [ok |-> TRUE, heap |-> Append(heap, Grown(heap, s, k)),
          mm |-> [arr |-> Len(heap) + 1, len |-> s.len + 1]]

(* A rejected mask line: the caller stops at the error. *)
Rejected(heap, s) == [ok |-> FALSE, heap |-> heap, mm |-> s]

(* Mutant of MaskSet: an index too large appends. *)
SetAnywhere(heap, s, l) ==
    IF l.last \/ l.idx >= s.len THEN SliceAppend(heap, s, l.mask)
    ELSE [ok |-> TRUE, heap |-> [heap EXCEPT ![s.arr][l.idx + 1] = l.mask], mm |-> s]

(***************************************************************************)
(* (m maskMap) set: "-" and the index one past the end append, a smaller   *)
(* index overwrites the mask in place, a larger or negative one is an      *)
(* error.  l is a mask line [mask, last, idx]: last stands for "-".        *)
(***************************************************************************)
MaskSet(heap, s, l) ==
    IF l.last \/ l.idx = s.len THEN SliceAppend(heap, s, l.mask)
    ELSE IF l.idx < 0 \/ l.idx > s.len THEN Rejected(heap, s)
    ELSE [ok |-> TRUE, heap |-> [heap EXCEPT ![s.arr][l.idx + 1] = l.mask], mm |-> s]

(***************************************************************************)
(* (m maskMap) del: without an index the slice is emptied, a negative      *)
(* index -n cuts the last n masks ("-" is -1), any other removes one mask  *)
(* by shifting the later ones down in place.  All of them keep the array.  *)
(* l is a clear line [all, idx].                                           *)
(***************************************************************************)
Shifted(arr, i, len) ==
    [j \in DOMAIN arr |-> IF i <= j /\ j < len THEN arr[j + 1] ELSE arr[j]]

(* Mutant of MaskDel: the index one past the end is taken. *)
DelPastEnd(heap, s, l) ==
    IF l.all THEN [ok |-> TRUE, heap |-> heap, mm |-> [s EXCEPT !.len = 0]]
    ELSE IF l.idx < 0 \/ l.idx > s.len THEN Rejected(heap, s)
    ELSE [ok |-> TRUE, heap |-> [heap EXCEPT ![s.arr] = Shifted(@, l.idx + 1, s.len)],
          mm |-> [s EXCEPT !.len = s.len - 1]]

MaskDel(heap, s, l) ==
    IF l.all THEN [ok |-> TRUE, heap |-> heap, mm |-> [s EXCEPT !.len = 0]]
    ELSE IF l.idx < 0 THEN
        IF s.len < 1 THEN [ok |-> TRUE, heap |-> heap, mm |-> s]
        ELSE IF s.len + l.idx < 0 THEN Rejected(heap, s)
        ELSE [ok |-> TRUE, heap |-> heap, mm |-> [s EXCEPT !.len = s.len + l.idx]]
    ELSE IF l.idx >= s.len THEN Rejected(heap, s)
    ELSE [ok |-> TRUE, heap |-> [heap EXCEPT ![s.arr] = Shifted(@, l.idx + 1, s.len)],
          mm |-> [s EXCEPT !.len = s.len - 1]]

(* Mutant of Snapshot: the slice is kept without a copy. *)
ShareMasks(heap, s) == [heap |-> heap, mm |-> s]

(* make and copy in (m *Map) resolve: a slice of an array of its own. *)
Snapshot(heap, s) ==
    IF s.len = 0 THEN [heap |-> heap, mm |-> NilSlice]
    ELSE [heap |-> Append(heap, Eff(heap, s)),
          mm |-> [arr |-> Len(heap) + 1, len |-> s.len]]
=============================================================================
