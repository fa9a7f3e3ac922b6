------------------------------ MODULE LoadSpec ------------------------------
(***************************************************************************)
(* What loading a configuration promises, without the slices, the index,   *)
(* the goroutines and the locks of ConfigLoad:                             *)
(*                                                                         *)
(* - the entries are a dictionary from destinations to entries, and a      *)
(*   later entry overrides an earlier one of its destination;              *)
(* - the masks are a list, a value: changing the list for the lines that   *)
(*   follow changes nothing for an ELF line that was deferred before, whose *)
(*   entries are filtered by the list as it was at its line;               *)
(* - a file's entries override those of the files before it, all of them.  *)
(***************************************************************************)
EXTENDS MaskList, EntryMap

CONSTANTS MaskLines, ClearLines

VARIABLES
    masks,      \* the masks of the lines that follow
    scope,      \* the masks that filter the entries put now
    deferred,   \* for each deferred ELF line, the masks of the line
    taken,      \* the deferred line whose entries are put now, or 0
    queue,      \* the entries the current operation puts, in order
    entries,    \* destination -> entry, of the current file
    total       \* destination -> entry, of all files

vars == <<masks, scope, deferred, taken, queue, entries, total>>

Nothing == << >>

Override(dict, e) ==
    [d \in DOMAIN dict \cup {e.dst} |-> IF d = e.dst THEN e ELSE dict[d]]

(* The list after a mask line and after a clear line; an index out of range
   leaves it as it is. *)
Set(s, l) ==
    IF l.last \/ l.idx = Len(s) THEN Append(s, l.mask)
    ELSE IF l.idx \in 0..Len(s)-1 THEN [s EXCEPT ![l.idx + 1] = l.mask]
    ELSE s

Clear(s, l) ==
    IF l.all THEN <<>>
    ELSE IF l.idx \in 0..Len(s)-1
         THEN SubSeq(s, 1, l.idx) \o SubSeq(s, l.idx + 2, Len(s))
    ELSE IF l.idx < 0 /\ Len(s) + l.idx >= 0 THEN SubSeq(s, 1, Len(s) + l.idx)
    ELSE s

Init ==
    /\ masks = <<>> /\ scope = <<>> /\ deferred = <<>> /\ taken = 0 /\ queue = <<>>
    /\ entries = Nothing /\ total = Nothing

NewMasks(s) ==
    /\ taken = 0 /\ scope = masks
    /\ masks' = s /\ scope' = s
    /\ UNCHANGED <<deferred, taken, queue, entries, total>>

ChangeMasks == \/ \E l \in MaskLines : NewMasks(Set(masks, l))
               \/ \E l \in ClearLines : NewMasks(Clear(masks, l))

(* An operation has entries to put. *)
Call == /\ queue = <<>>
        /\ queue' \in Seq([e : Entry, masked : BOOLEAN])
        /\ UNCHANGED <<masks, scope, deferred, taken, entries, total>>

(* An ELF line is deferred, with the masks of the line; the symlinks on the
   way to its file are put now. *)
Defer == /\ queue = <<>>
         /\ taken = 0 /\ scope = masks
         /\ queue' \in Seq([e : Entry, masked : BOOLEAN])
         /\ deferred' = Append(deferred, masks)
         /\ UNCHANGED <<masks, scope, taken, entries, total>>

Filter(p) == IF p.masked THEN [e |-> p.e, drop |-> FALSE] ELSE ApplyMasks(scope, p.e)

Put == /\ queue # <<>>
       /\ queue' = Tail(queue)
       /\ LET r == Filter(Head(queue)) IN
          entries' = IF r.drop THEN entries ELSE Override(entries, r.e)
       /\ UNCHANGED <<masks, scope, deferred, taken, total>>

(* A deferred line is taken up again, under its own masks and no other's; when
   the last one is left the masks of the lines are in force. *)
TakeUp == /\ queue = <<>>
          /\ \E j \in DOMAIN deferred : taken' = j /\ scope' = deferred[j]
          /\ UNCHANGED <<masks, deferred, queue, entries, total>>
Leave == /\ queue = <<>>
         /\ taken' = 0 /\ scope' = masks
         /\ UNCHANGED <<masks, deferred, queue, entries, total>>

Merge == /\ queue = <<>>
         /\ \E d \in DOMAIN entries : total' = Override(total, entries[d])
         /\ UNCHANGED <<masks, scope, deferred, taken, queue, entries>>

(* A new file begins when the total holds all of the old one's entries. *)
NewFile == /\ queue = <<>>
           /\ \A d \in DOMAIN entries : d \in DOMAIN total /\ total[d] = entries[d]
           /\ taken = 0 /\ taken' = 0
           /\ masks' = <<>> /\ scope' = <<>> /\ deferred' = <<>>
           /\ entries' = Nothing
           /\ UNCHANGED <<queue, total>>

Next == ChangeMasks \/ Call \/ Defer \/ Put \/ TakeUp \/ Leave \/ Merge \/ NewFile

Spec == Init /\ [][Next]_vars
=============================================================================
