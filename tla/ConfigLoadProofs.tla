-------------------------- MODULE ConfigLoadProofs --------------------------
(***************************************************************************)
(* Theorems about the slices of MaskList and about ConfigLoad, for every   *)
(* value of their constants: all configurations, file systems, resolvers   *)
(* and numbers of goroutines.                                              *)
(*                                                                         *)
(* The first part says what an operation on one slice leaves of the arrays *)
(* of the others, and that a copy shares nothing.                          *)
(*                                                                         *)
(* SliceInv says that the slice of masks in force for the lines shares its *)
(* array with no job's, and that one job at a time is between the two      *)
(* halves of its append.  PoolInv counts: the counter of m.wg, the tokens  *)
(* in q and the length of m.elf are the numbers of jobs in the stages that *)
(* go with them; it needs SliceInv, by which an append to m.elf starts     *)
(* from the whole list.                                                    *)
(***************************************************************************)
EXTENDS ConfigLoad, EntryMapProofs, DataInduction, FiniteSetTheorems

(* What an operation r on slice s may do: arrays keep their size, only the
   array of s is written, and the new slice is on it or on a new one. *)
Confined(arrs, s, r) ==
    /\ r.heap \in Heaps
    /\ Len(arrs) <= Len(r.heap)
    /\ IsSlice(r.heap, r.mm)
    /\ r.mm.arr = s.arr \/ r.mm.arr > Len(arrs)
    /\ \A a \in 1..Len(arrs) : /\ Len(r.heap[a]) = Len(arrs[a])
                               /\ a # s.arr => r.heap[a] = arrs[a]

(* Writing one place of the array of s is confined to it. *)
LEMMA WriteConfined ==
    ASSUME NEW arrs \in Heaps, NEW s, IsSlice(arrs, s), NEW i \in 1..Cap(arrs, s),
           NEW k \in Masks, NEW n \in 0..Cap(arrs, s)
    PROVE  LET h == [arrs EXCEPT ![s.arr][i] = k]
               t == [s EXCEPT !.len = n]
           IN Confined(arrs, s, [ok |-> TRUE, heap |-> h, mm |-> t])
<1> DEFINE h == [arrs EXCEPT ![s.arr][i] = k]
           t == [s EXCEPT !.len = n]
<1> SUFFICES Confined(arrs, s, [ok |-> TRUE, heap |-> h, mm |-> t])
  OBVIOUS
<1>1. s.arr \in 1..Len(arrs) /\ Cap(arrs, s) = Len(arrs[s.arr])
  BY DEF IsSlice, Cap
<1>2. arrs[s.arr] \in Seq(Masks \cup {NoMask})
  BY <1>1 DEF Heaps
<1>3. h = [arrs EXCEPT ![s.arr] = [arrs[s.arr] EXCEPT ![i] = k]]
  OBVIOUS
<1>4. [arrs[s.arr] EXCEPT ![i] = k] \in Seq(Masks \cup {NoMask})
      /\ Len([arrs[s.arr] EXCEPT ![i] = k]) = Len(arrs[s.arr])
  BY <1>1, <1>2
<1>5. h \in Heaps /\ Len(h) = Len(arrs)
      /\ \A a \in 1..Len(arrs) : h[a] = IF a = s.arr THEN [arrs[s.arr] EXCEPT ![i] = k]
                                        ELSE arrs[a]
  BY <1>1, <1>3, <1>4 DEF Heaps
<1>6. t \in [arr : 0..Len(arrs), len : Nat] /\ t.arr = s.arr /\ t.len = n
  BY <1>1 DEF IsSlice, Cap
<1>7. n <= Cap(h, t)
  BY <1>1, <1>4, <1>5, <1>6 DEF Cap
<1> HIDE DEF h, t
<1> QED
  BY <1>4, <1>5, <1>6, <1>7, <1>1 DEF Confined, IsSlice

(* So is making a new array. *)
LEMMA NewArrayConfined ==
    ASSUME NEW arrs \in Heaps, NEW s, NEW arr \in Seq(Masks \cup {NoMask}),
           NEW n \in 0..Len(arr)
    PROVE  LET t == [arr |-> Len(arrs) + 1, len |-> n]
           IN Confined(arrs, s, [ok |-> TRUE, heap |-> Append(arrs, arr), mm |-> t])
<1> DEFINE t == [arr |-> Len(arrs) + 1, len |-> n]
           h == Append(arrs, arr)
<1> SUFFICES Confined(arrs, s, [ok |-> TRUE, heap |-> h, mm |-> t])
  OBVIOUS
<1>1. h \in Heaps /\ Len(h) = Len(arrs) + 1 /\ h[Len(arrs) + 1] = arr
      /\ \A a \in 1..Len(arrs) : h[a] = arrs[a]
  BY DEF Heaps
<1>2. Len(arrs) \in Nat /\ Len(arr) \in Nat
  BY DEF Heaps
<1>3. t \in [arr : 0..Len(h), len : Nat] /\ t.arr = Len(arrs) + 1 /\ t.len = n
  BY <1>1, <1>2
<1>4. n <= Cap(h, t)
  BY <1>1, <1>2, <1>3 DEF Cap
<1> HIDE DEF h, t
<1> QED
  BY <1>1, <1>2, <1>3, <1>4 DEF Confined, IsSlice

(* And cutting the window, or leaving all as it is. *)
LEMMA CutConfined ==
    ASSUME NEW arrs \in Heaps, NEW s, IsSlice(arrs, s), NEW n \in 0..s.len, NEW ok
    PROVE  Confined(arrs, s, [ok |-> ok, heap |-> arrs, mm |-> [s EXCEPT !.len = n]])
BY DEF Confined, IsSlice, Cap, Heaps

LEMMA AppendConfined ==
    ASSUME NEW arrs \in Heaps, NEW s, IsSlice(arrs, s), NEW k \in Masks
    PROVE  Confined(arrs, s, SliceAppend(arrs, s, k))
<1>1. Cap(arrs, s) \in Nat /\ s.len \in Nat
  BY DEF IsSlice, Cap, Heaps
<1>2. CASE s.len < Cap(arrs, s)
  <2>1. s.len + 1 \in 1..Cap(arrs, s) /\ s.len + 1 \in 0..Cap(arrs, s)
    BY <1>1, <1>2
  <2> QED
    BY <1>2, <2>1, WriteConfined DEF SliceAppend
<1>3. CASE ~(s.len < Cap(arrs, s))
  <2> DEFINE cap == IF Cap(arrs, s) = 0 THEN 1 ELSE 2 * Cap(arrs, s)
  <2>1. s.len = Cap(arrs, s) /\ cap \in Nat /\ s.len + 1 \in 0..cap
    BY <1>1, <1>3 DEF IsSlice
  <2>2. \A i \in 1..s.len : arrs[s.arr][i] \in Masks \cup {NoMask}
    <3>1. CASE s.arr = 0
      BY <2>1, <3>1 DEF Cap
    <3>2. CASE s.arr # 0
      <4>1. s.arr \in 1..Len(arrs)
        BY <3>2 DEF IsSlice, Heaps
      <4> QED
        BY <2>1, <3>2, <4>1 DEF Cap, Heaps
    <3> QED
      BY <3>1, <3>2
  <2>3. Grown(arrs, s, k) \in [1..cap -> Masks \cup {NoMask}]
    BY <2>1, <2>2 DEF Grown
  <2>4. Grown(arrs, s, k) \in Seq(Masks \cup {NoMask}) /\ Len(Grown(arrs, s, k)) = cap
    <3> HIDE DEF cap
    <3> QED
      BY <2>1, <2>3
  <2>5. s.len + 1 \in 0..Len(Grown(arrs, s, k))
    BY <2>1, <2>4
  <2> QED
    BY <1>3, <2>4, <2>5, NewArrayConfined DEF SliceAppend
<1> QED
  BY <1>2, <1>3

(* A mask line. *)
LEMMA SetConfined ==
    ASSUME NEW arrs \in Heaps, NEW s, IsSlice(arrs, s),
           NEW l \in [mask : Masks, last : BOOLEAN, idx : Int]
    PROVE  Confined(arrs, s, MaskSet(arrs, s, l))
<1>1. CASE l.last \/ l.idx = s.len
  BY <1>1, AppendConfined DEF MaskSet
<1>2. CASE ~(l.last \/ l.idx = s.len) /\ (l.idx < 0 \/ l.idx > s.len)
  <2>1. s = [s EXCEPT !.len = s.len] /\ s.len \in 0..s.len
    BY DEF IsSlice
  <2> QED
    BY <1>2, <2>1, CutConfined DEF MaskSet, Rejected
<1>3. CASE ~(l.last \/ l.idx = s.len) /\ ~(l.idx < 0 \/ l.idx > s.len)
  <2>1. l.idx + 1 \in 1..Cap(arrs, s) /\ s.len \in 0..Cap(arrs, s)
    BY <1>3 DEF IsSlice, Cap, Heaps
  <2>2. s = [s EXCEPT !.len = s.len]
    BY DEF IsSlice
  <2> QED
    BY <1>3, <2>1, <2>2, WriteConfined DEF MaskSet
<1> QED
  BY <1>1, <1>2, <1>3

(* A clear line: the window is cut, or masks move down in the array. *)
LEMMA DelConfined ==
    ASSUME NEW arrs \in Heaps, NEW s, IsSlice(arrs, s),
           NEW l \in [all : BOOLEAN, idx : Int]
    PROVE  Confined(arrs, s, MaskDel(arrs, s, l))
<1>1. /\ s.len \in Nat /\ s = [s EXCEPT !.len = s.len] /\ l.idx \in Int
      /\ s.len \in 0..s.len
  BY DEF IsSlice
<1>2. CASE l.all
  <2>1. 0 \in 0..s.len
    BY <1>1
  <2> QED
    BY <1>2, <2>1, CutConfined DEF MaskDel
<1>3. CASE ~l.all /\ l.idx < 0
  <2>1. CASE s.len < 1
    BY <1>1, <1>3, <2>1, CutConfined DEF MaskDel
  <2>2. CASE ~(s.len < 1) /\ s.len + l.idx < 0
    BY <1>1, <1>3, <2>2, CutConfined DEF MaskDel, Rejected
  <2>3. CASE ~(s.len < 1) /\ ~(s.len + l.idx < 0)
    <3>1. s.len + l.idx \in 0..s.len
      BY <1>1, <1>3, <2>3
    <3> QED
      BY <1>3, <2>3, <3>1, CutConfined DEF MaskDel
  <2> QED
    BY <2>1, <2>2, <2>3
<1>4. CASE ~l.all /\ ~(l.idx < 0) /\ l.idx >= s.len
  BY <1>1, <1>4, CutConfined DEF MaskDel, Rejected
<1>5. CASE ~l.all /\ ~(l.idx < 0) /\ ~(l.idx >= s.len)
  <2> DEFINE arr == arrs[s.arr]
             new == Shifted(arr, l.idx + 1, s.len)
             h == [arrs EXCEPT ![s.arr] = new]
             t == [s EXCEPT !.len = s.len - 1]
  <2>1. s.arr \in 1..Len(arrs) /\ s.len <= Len(arr)
    BY <1>1, <1>5 DEF IsSlice, Cap, Heaps
  <2>2. arr \in [1..Len(arr) -> Masks \cup {NoMask}] /\ Len(arr) \in Nat
    BY <2>1 DEF Heaps
  <2>3. new \in [1..Len(arr) -> Masks \cup {NoMask}]
    BY <1>1, <1>5, <2>1, <2>2 DEF Shifted
  <2>4. new \in Seq(Masks \cup {NoMask}) /\ Len(new) = Len(arr)
    <3> HIDE DEF new, arr
    <3> QED
      BY <2>2, <2>3
  <2>5. h \in Heaps /\ Len(h) = Len(arrs)
        /\ \A a \in 1..Len(arrs) : h[a] = IF a = s.arr THEN new ELSE arrs[a]
    <3> HIDE DEF new
    <3> QED
      BY <2>1, <2>4 DEF Heaps
  <2>6. t \in [arr : 0..Len(arrs), len : Nat] /\ t.arr = s.arr /\ t.len <= Len(arr)
    BY <1>1, <1>5, <2>1 DEF IsSlice
  <2>7. MaskDel(arrs, s, l) = [ok |-> TRUE, heap |-> h, mm |-> t]
    BY <1>5 DEF MaskDel
  <2> HIDE DEF h, t, new
  <2>8. IsSlice(h, t)
    BY <2>1, <2>4, <2>5, <2>6 DEF IsSlice, Cap
  <2>9. Confined(arrs, s, [ok |-> TRUE, heap |-> h, mm |-> t])
    BY <2>4, <2>5, <2>6, <2>8 DEF Confined
  <2> QED
    BY <2>7, <2>9
<1> QED
  BY <1>2, <1>3, <1>4, <1>5

(* The copy of a slice is on an array of its own, or on none, and shows the
   same masks; no array that was there is written. *)
LEMMA SnapshotFresh ==
    ASSUME NEW arrs \in Heaps, NEW s, IsSlice(arrs, s)
    PROVE  LET r == Snapshot(arrs, s) IN
           /\ Confined(arrs, NilSlice, r)
           /\ r.mm.arr = 0 \/ r.mm.arr > Len(arrs)
           /\ Eff(r.heap, r.mm) = Eff(arrs, s)
<1>1. CASE s.len = 0
  <2>1. Snapshot(arrs, s) = [heap |-> arrs, mm |-> NilSlice]
    BY <1>1 DEF Snapshot
  <2>2. NilSlice.arr = 0 /\ NilSlice.len = 0
        /\ NilSlice \in [arr : 0..Len(arrs), len : Nat]
    BY DEF NilSlice, Heaps
  <2>3. Eff(arrs, s) = <<>>
    BY <1>1 DEF Eff, IsSlice, Heaps
  <2> QED
    BY <2>1, <2>2, <2>3 DEF Confined, IsSlice, Cap, Eff, Heaps
<1>2. CASE s.len # 0
  <2> DEFINE arr == Eff(arrs, s)
             t == [arr |-> Len(arrs) + 1, len |-> s.len]
             h == Append(arrs, arr)
  <2>1. Snapshot(arrs, s) = [heap |-> h, mm |-> t]
    BY <1>2 DEF Snapshot
  <2>2. s.arr \in 1..Len(arrs) /\ s.len \in 1..Len(arrs[s.arr])
    BY <1>2 DEF IsSlice, Cap, Heaps
  <2>3. arrs[s.arr] \in Seq(Masks \cup {NoMask})
    BY <2>2 DEF Heaps
  <2>4. arr \in Seq(Masks \cup {NoMask}) /\ Len(arr) = s.len
    BY <2>2, <2>3 DEF Eff, Heaps
  <2>5. h \in Heaps /\ Len(h) = Len(arrs) + 1 /\ h[Len(arrs) + 1] = arr
        /\ \A a \in 1..Len(arrs) : h[a] = arrs[a]
    <3> HIDE DEF arr
    <3> QED
      BY <2>4 DEF Heaps
  <2>6. Len(arrs) \in Nat /\ t.arr = Len(arrs) + 1 /\ t.len = s.len
        /\ t \in [arr : 0..Len(arrs) + 1, len : Nat]
    BY <2>2 DEF Heaps
  <2> HIDE DEF h, t, arr
  <2>7. IsSlice(h, t)
    BY <2>4, <2>5, <2>6 DEF IsSlice, Cap
  <2>8. Eff(h, t) = SubSeq(arr, 1, Len(arr))
    BY <2>4, <2>5, <2>6 DEF Eff
  <2>9. SubSeq(arr, 1, Len(arr)) = arr
    BY <2>4
  <2>10. NilSlice.arr = 0
    BY DEF NilSlice
  <2> QED
    BY <2>1, <2>5, <2>6, <2>7, <2>8, <2>9, <2>10 DEF Confined, arr
<1> QED
  BY <1>1, <1>2 DEF IsSlice

(* What is confined to s leaves every slice of another array as it was. *)
LEMMA OthersKept ==
    ASSUME NEW arrs \in Heaps, NEW s, NEW r, Confined(arrs, s, r),
           NEW t, IsSlice(arrs, t)
    PROVE  /\ IsSlice(r.heap, t)
           /\ t.arr = 0 \/ t.arr # s.arr => Eff(r.heap, t) = Eff(arrs, t)
<1>1. t.arr \in 0..Len(arrs) /\ t.len \in Nat /\ t = [arr |-> t.arr, len |-> t.len]
  BY DEF IsSlice
<1>2. Len(arrs) \in Nat /\ Len(r.heap) \in Nat /\ Len(arrs) <= Len(r.heap)
  BY DEF Confined, Heaps
<1>3. CASE t.arr = 0
  BY <1>1, <1>2, <1>3 DEF IsSlice, Cap, Eff
<1>4. CASE t.arr # 0
  <2>1. t.arr \in 1..Len(arrs)
    BY <1>1, <1>2, <1>4
  <2>2. /\ Len(r.heap[t.arr]) = Len(arrs[t.arr])
        /\ t.arr # s.arr => r.heap[t.arr] = arrs[t.arr]
    BY <2>1 DEF Confined
  <2>3. t.len <= Len(arrs[t.arr])
    BY <1>4 DEF IsSlice, Cap
  <2>4. t.arr \in 0..Len(r.heap)
    BY <1>2, <2>1
  <2> QED
    BY <1>1, <1>4, <2>2, <2>3, <2>4 DEF IsSlice, Cap, Eff
<1> QED
  BY <1>3, <1>4
-----------------------------------------------------------------------------
(* The function behind ApplyMasks, on the sets of the first n masks: what the
   masks of a set make of the entry of r, the last one being applied last. *)
IsIter(it, s, r, n) ==
    it = [S \in SUBSET (1..n) |->
            IF S = {} THEN r ELSE MaskStep(it[S \ {Max(S)}], s[Max(S)])]

LEMMA IterExists ==
    ASSUME NEW s, NEW r, NEW n \in Nat
    PROVE  \E it : IsIter(it, s, r, n)
<1> DEFINE good == {k \in Nat : \E it : IsIter(it, s, r, k)}
<1>1. 0 \in good
  <2> DEFINE it == [S \in SUBSET (1..0) |-> r]
  <2>1. \A S \in SUBSET (1..0) : S = {}
    OBVIOUS
  <2>2. IsIter(it, s, r, 0)
    BY <2>1 DEF IsIter
  <2> HIDE DEF it
  <2> QED
    BY <2>2
<1>2. ASSUME NEW k \in Nat, k \in good PROVE k + 1 \in good
  <2>1. PICK it : IsIter(it, s, r, k)
    BY <1>2
  <2> DEFINE jt == [S \in SUBSET (1..(k + 1)) |->
                      IF k + 1 \in S THEN MaskStep(it[S \ {k + 1}], s[k + 1]) ELSE it[S]]
  <2>2. ASSUME NEW S \in SUBSET (1..(k + 1))
        PROVE  jt[S] = IF S = {} THEN r ELSE MaskStep(jt[S \ {Max(S)}], s[Max(S)])
    <3>1. CASE k + 1 \in S
      <4>1. Max(S) = k + 1
        BY <3>1, MaxLast
      <4>2. S \ {k + 1} \in SUBSET (1..(k + 1)) /\ k + 1 \notin S \ {k + 1}
        OBVIOUS
      <4>3. jt[S \ {k + 1}] = it[S \ {k + 1}]
        BY <4>2
      <4>4. jt[S] = MaskStep(it[S \ {k + 1}], s[k + 1])
        BY <3>1
      <4> HIDE DEF jt
      <4> QED
        BY <3>1, <4>1, <4>3, <4>4
    <3>2. CASE k + 1 \notin S
      <4>1. S \in SUBSET (1..k)
        BY <3>2
      <4>2. jt[S] = it[S]
        BY <3>2
      <4>3. it[S] = IF S = {} THEN r ELSE MaskStep(it[S \ {Max(S)}], s[Max(S)])
        BY <2>1, <4>1 DEF IsIter
      <4>4. CASE S = {}
        BY <4>2, <4>3, <4>4
      <4>5. CASE S # {}
        <5>1. S \ {Max(S)} \in SUBSET (1..(k + 1)) /\ k + 1 \notin S \ {Max(S)}
          BY <3>2
        <5>2. jt[S \ {Max(S)}] = it[S \ {Max(S)}]
          BY <5>1
        <5> HIDE DEF jt
        <5> QED
          BY <4>2, <4>3, <4>5, <5>2
      <4> QED
        BY <4>4, <4>5
    <3> QED
      BY <3>1, <3>2
  <2>3. jt = [S \in SUBSET (1..(k + 1)) |-> jt[S]]
    OBVIOUS
  <2>4. IsIter(jt, s, r, k + 1)
    <3> HIDE DEF jt
    <3> QED
      BY <2>2, <2>3 DEF IsIter
  <2>5. k + 1 \in Nat
    OBVIOUS
  <2> HIDE DEF jt
  <2> QED
    BY <2>4, <2>5
<1>3. Nat \subseteq good
  <2> HIDE DEF good
  <2> QED
    BY <1>1, <1>2, SetInduction
<1> QED
  BY <1>3

(* Masks lead from a set of entries to that set when each mask does. *)
LEMMA MasksTyped ==
    ASSUME NEW T, NEW s \in Seq(Masks), NEW e \in T,
           \A k \in Masks, x \in T : MaskFunc(k, x) \in T
    PROVE  ApplyMasks(s, e) \in [e : T, drop : BOOLEAN]
<1> DEFINE r == [e |-> e, drop |-> FALSE]
           R == [e : T, drop : BOOLEAN]
           n == Len(s)
           iter == CHOOSE it : IsIter(it, s, r, n)
           good == {k \in Nat : k \in 0..n => iter[1..k] \in R}
<1>1. n \in Nat /\ DOMAIN s = 1..n /\ \A i \in 1..n : s[i] \in Masks
  OBVIOUS
<1>2. IsIter(iter, s, r, n)
  BY <1>1, IterExists
<1>3. ApplyMasks(s, e) = iter[1..n]
  BY <1>1 DEF ApplyMasks, FoldLeft, MapThenFoldSet, IsIter
<1>4. ASSUME NEW x \in R, NEW k \in Masks PROVE MaskStep(x, k) \in R
  <2>1. x = [e |-> x.e, drop |-> x.drop] /\ x.e \in T
    OBVIOUS
  <2>2. MaskFunc(k, x.e) \in T
    BY <2>1
  <2> QED
    BY <2>1, <2>2 DEF MaskStep
<1> HIDE DEF iter
<1>5. 0 \in good
  <2>1. 1..0 = {}
    OBVIOUS
  <2>2. iter[{}] = r
    BY <1>2 DEF IsIter
  <2>3. r \in R
    OBVIOUS
  <2>4. iter[1..0] \in R
    BY <2>1, <2>2, <2>3
  <2> HIDE DEF R
  <2> QED
    BY <2>4
<1>6. ASSUME NEW k \in Nat, k \in good PROVE k + 1 \in good
  <2>1. SUFFICES ASSUME k + 1 \in 0..n PROVE iter[1..(k + 1)] \in R
    OBVIOUS
  <2> DEFINE S == 1..(k + 1)
  <2>2. S \in SUBSET (1..n) /\ S # {} /\ k + 1 \in S /\ k + 1 \in 1..n
    <3>1. k + 1 \in 1..n /\ k + 1 \in S
      BY <1>1, <2>1
    <3>2. \A i \in S : i \in 1..n
      BY <1>1, <3>1
    <3> HIDE DEF S
    <3> QED
      BY <3>1, <3>2
  <2>3. Max(S) = k + 1
    BY <2>2, MaxLast
  <2>4. S \ {k + 1} = 1..k
    OBVIOUS
  <2>5. iter[S] = MaskStep(iter[S \ {Max(S)}], s[Max(S)])
    <3>1. \A U \in SUBSET (1..n) :
             iter[U] = IF U = {} THEN r ELSE MaskStep(iter[U \ {Max(U)}], s[Max(U)])
      BY <1>2 DEF IsIter
    <3> HIDE DEF S
    <3> QED
      BY <2>2, <3>1
  <2>6. iter[1..k] \in R /\ s[k + 1] \in Masks
    BY <1>1, <1>6, <2>1, <2>2
  <2>7. iter[S] = MaskStep(iter[1..k], s[k + 1])
    BY <2>3, <2>4, <2>5
  <2> HIDE DEF R
  <2> QED
    BY <1>4, <2>6, <2>7
<1>7. Nat \subseteq good
  <2> HIDE DEF good
  <2> QED
    BY <1>5, <1>6, SetInduction
<1> QED
  BY <1>1, <1>3, <1>7
-----------------------------------------------------------------------------
(* The jobs are a sequence of records, each with a slice of the heap. *)
JobsOK ==
    /\ jobs \in Seq(Values(jobs))
    /\ \A j \in DOMAIN jobs :
          /\ jobs[j] = [e |-> jobs[j].e, src |-> jobs[j].src, mm |-> jobs[j].mm,
                        stage |-> jobs[j].stage, at |-> jobs[j].at]
          /\ IsSlice(heap, jobs[j].mm)

(* The slice that mask lines change: mm, or saved while mm is a job's. *)
Lines == IF Including THEN saved ELSE mm

MasksOK ==
    /\ heap \in Heaps
    /\ IsSlice(heap, mm) /\ IsSlice(heap, saved)
    /\ \A j \in DOMAIN jobs : jobs[j].mm.arr = 0 \/ jobs[j].mm.arr # Lines.arr

(* m.mu: who is in the middle of its append holds the lock, and the list is
   as long as it was when it took the lock. *)
LockOK ==
    /\ elf \in Seq(DOMAIN jobs)
    /\ \A j \in DOMAIN jobs :
          /\ jobs[j].stage \in {"append", "unlock"} => mu = j
          /\ jobs[j].stage = "append" => jobs[j].at = Len(elf)

MapInv == WellFormed(map) /\ WellFormed(cfg)

SliceInv == JobsOK /\ MasksOK /\ LockOK

(* Results are waited for and included in a loop only with -elf.concurrent. *)
ControlInv ==
    /\ file \in Nat /\ next \in Nat
    /\ pc \in {"wait", "results"} => Concurrent

-----------------------------------------------------------------------------
(* What the steps of the main thread leave alone. *)

(* A line changes no map and no job; it may change the masks in force, but
   writes to no array but theirs. *)
LEMMA LineFrame ==
    ASSUME SliceInv, ReadLine
    PROVE  /\ UNCHANGED <<file, map, cfg, saved, pool>>
           /\ ~Including /\ ~Including'
           /\ \/ UNCHANGED <<heap, mm>>
              \/ \E r : Confined(heap, mm, r) /\ heap' = r.heap /\ mm' = r.mm
<1> USE DEF NextLine, Including
<1>1. CASE ReadMask
  <2>1. PICK l \in MaskLines : MaskLine(MaskSet(heap, mm, l))
    BY <1>1 DEF ReadMask
  <2>2. Confined(heap, mm, MaskSet(heap, mm, l))
    BY LinesAssumption, SetConfined DEF SliceInv, MasksOK
  <2> QED
    BY <2>1, <2>2 DEF MaskLine, main
<1>2. CASE ReadClear
  <2>1. PICK l \in ClearLines : MaskLine(MaskDel(heap, mm, l))
    BY <1>2 DEF ReadClear
  <2>2. Confined(heap, mm, MaskDel(heap, mm, l))
    BY LinesAssumption, DelConfined DEF SliceInv, MasksOK
  <2> QED
    BY <2>1, <2>2 DEF MaskLine, main
<1>3. CASE ReadPlain
  BY <1>3 DEF ReadPlain, EntryLine, masks
<1>4. CASE ReadRegularRel
  BY <1>4 DEF ReadRegularRel, EntryLine, masks
<1>5. CASE ReadAuto
  BY <1>5 DEF ReadAuto, EntryLine, masks
<1>6. CASE ReadRecursive
  BY <1>6 DEF ReadRecursive, EntryLine, masks
<1>7. CASE ReadGlob
  BY <1>7 DEF ReadGlob, EntryLine, masks
<1>8. CASE ReadElf
  BY <1>8 DEF ReadElf, EntryLine, masks
<1>9. CASE ReadElfGlob
  BY <1>9 DEF ReadElfGlob, EntryLine, masks
<1>10. CASE ReadElfLib
  BY <1>10 DEF ReadElfLib, EntryLine, masks
<1>11. CASE ReadElfPath
  BY <1>11 DEF ReadElfPath, EntryLine, masks
<1>12. CASE ReadError \/ EndOfFile
  BY <1>12 DEF ReadError, EndOfFile, masks, main
<1> QED
  BY <1>1, <1>2, <1>3, <1>4, <1>5, <1>6, <1>7, <1>8, <1>9, <1>10, <1>11, <1>12
     DEF ReadLine

(* The steps of a goroutine are about the jobs, the list and the lock. *)
LEMMA GoroutineFrame ==
    ASSUME Goroutines \/ Release
    PROVE  UNCHANGED <<load, masks, main>>
BY DEF Goroutines, Goroutine, Lock, Record, Unlock, WgDone, Stage, Release

-----------------------------------------------------------------------------
(* The maps *)

LEMMA MapsFrame ==
    ASSUME [Next]_vars
    PROVE  Put \/ MergeNext \/ OpenFile \/ UNCHANGED <<map, cfg>>
<1>1. ReadLine => UNCHANGED <<map, cfg>>
  <2>1. ASSUME NEW r, MaskLine(r) PROVE UNCHANGED <<map, cfg>>
    BY <2>1 DEF MaskLine, main
  <2> QED
    BY <2>1 DEF ReadLine, ReadMask, ReadClear, ReadPlain, ReadRegularRel, ReadAuto,
       ReadRecursive, ReadGlob, ReadElf, ReadElfGlob, ReadElfLib, ReadElfPath,
       ReadError, EndOfFile, EntryLine, main
<1>2. AddElf \/ Spawn \/ Include => UNCHANGED <<map, cfg>>
  BY DEF AddElf, Spawn, Include, Wait, NextResult, ResultsDone, IncludeMain,
     IncludeLib, LibsDone, main
<1>3. MergeDone \/ OpenFails \/ FilesDone => UNCHANGED <<map, cfg>>
  BY DEF MergeDone, OpenFails, FilesDone, main
<1>4. Goroutines \/ Release => UNCHANGED <<map, cfg>>
  BY GoroutineFrame DEF main
<1>5. Terminated \/ UNCHANGED vars => UNCHANGED <<map, cfg>>
  BY DEF Terminated, vars
<1> QED
  BY <1>1, <1>2, <1>3, <1>4, <1>5 DEF Next, MainThread, Files

LEMMA MapStep ==
    ASSUME MapInv, [Next]_vars
    PROVE  MapInv'
<1>1. CASE Put
  <2>1. /\ cfg' = cfg
        /\ \/ map' = map
           \/ \E e : map' = PutEntry(map, e)
    BY <1>1 DEF Put
  <2> QED
    BY <2>1, PutWellFormed DEF MapInv
<1>2. CASE MergeNext
  BY <1>2, PutWellFormed DEF MergeNext, MapInv
<1>3. CASE OpenFile
  BY <1>3, EmptyWellFormed DEF OpenFile, NewMap, MapInv
<1>4. CASE UNCHANGED <<map, cfg>>
  BY <1>4 DEF MapInv
<1> QED
  BY <1>1, <1>2, <1>3, <1>4, MapsFrame

(* The map of the file and the map of all files hold every destination once,
   at its index, whatever the lines put, replace and merge
   (config/map.go:430-454, 623-628). *)
THEOREM MapsAlwaysIndexed == Spec => []MapsIndexed
<1>1. Init => MapInv
  BY EmptyWellFormed DEF Init, MapInv
<1>2. MapInv /\ [Next]_vars => MapInv'
  BY MapStep
<1>3. MapInv => MapsIndexed
  BY DEF MapInv, WellFormed, MapsIndexed
<1> QED
  BY <1>1, <1>2, <1>3, PTL DEF Spec

-----------------------------------------------------------------------------
(* The masks *)

Step == SliceInv' /\ SameMasks

(* A step that moves the main thread between slices it may use, and leaves
   the heap, the jobs and the list alone. *)
LEMMA QuietStep ==
    ASSUME SliceInv,
           UNCHANGED <<heap, jobs, elf, mu>>,
           IsSlice(heap, mm'), IsSlice(heap, saved'),
           Lines' = Lines
    PROVE  Step
BY DEF Step, SliceInv, JobsOK, MasksOK, LockOK, SameMasks

LEMMA LineStep ==
    ASSUME SliceInv, ReadLine
    PROVE  Step
<1>1. CASE UNCHANGED <<heap, mm>>
  BY <1>1, LineFrame, QuietStep DEF Lines, SliceInv, MasksOK, pool
<1>2. ASSUME NEW r, Confined(heap, mm, r), heap' = r.heap, mm' = r.mm
      PROVE  Step
  <2>1. UNCHANGED <<file, saved, jobs, elf, mu>> /\ Lines = mm /\ Lines' = mm'
    BY LineFrame DEF pool, Lines
  <2>2. /\ heap \in Heaps /\ IsSlice(heap, mm) /\ IsSlice(heap, saved)
        /\ \A j \in DOMAIN jobs : IsSlice(heap, jobs[j].mm)
        /\ \A j \in DOMAIN jobs : jobs[j].mm.arr = 0 \/ jobs[j].mm.arr # mm.arr
    BY <2>1 DEF SliceInv, JobsOK, MasksOK
  <2>3. IsSlice(heap', saved)
    BY <1>2, <2>2, OthersKept
  <2>4. \A j \in DOMAIN jobs : /\ IsSlice(heap', jobs[j].mm)
                              /\ Eff(heap', jobs[j].mm) = Eff(heap, jobs[j].mm)
    BY <1>2, <2>2, OthersKept
  <2>5. heap' \in Heaps /\ IsSlice(heap', mm')
    BY <1>2 DEF Confined
  <2>6. \A j \in DOMAIN jobs : jobs[j].mm.arr = 0 \/ jobs[j].mm.arr # mm'.arr
    <3>1. \A j \in DOMAIN jobs : jobs[j].mm.arr \in 0..Len(heap)
      BY <2>2 DEF IsSlice
    <3>2. mm'.arr = mm.arr \/ mm'.arr > Len(heap)
      BY <1>2 DEF Confined
    <3>3. Len(heap) \in Nat
      BY <2>2 DEF Heaps
    <3> QED
      BY <2>2, <3>1, <3>2, <3>3
  <2> QED
    BY <2>1, <2>3, <2>4, <2>5, <2>6
       DEF Step, SliceInv, JobsOK, MasksOK, LockOK, SameMasks
<1> QED
  BY <1>1, <1>2, LineFrame

(* Replacing one element of a sequence. *)
LEMMA ReplaceSeq ==
    ASSUME NEW S, NEW s \in Seq(S), NEW i \in DOMAIN s, NEW x
    PROVE  /\ [s EXCEPT ![i] = x] \in Seq(S \cup {x})
           /\ DOMAIN [s EXCEPT ![i] = x] = DOMAIN s
           /\ \A k \in DOMAIN s : [s EXCEPT ![i] = x][k] = IF k = i THEN x ELSE s[k]
OBVIOUS

(* A step of one job: its stage, the lock, the list. *)
LEMMA JobStep ==
    ASSUME SliceInv, UNCHANGED masks, Lines' = Lines, NEW j \in DOMAIN jobs,
           NEW stage, NEW at,
           jobs' = [jobs EXCEPT ![j].stage = stage, ![j].at = at]
    PROVE  /\ JobsOK' /\ MasksOK' /\ SameMasks
           /\ DOMAIN jobs' = DOMAIN jobs
           /\ jobs'[j].stage = stage /\ jobs'[j].at = at
           /\ \A i \in DOMAIN jobs : i # j => jobs'[i] = jobs[i]
<1> DEFINE x == [jobs[j] EXCEPT !.stage = stage, !.at = at]
<1>1. /\ jobs \in Seq(Values(jobs)) /\ DOMAIN jobs = 1..Len(jobs)
      /\ \A i \in DOMAIN jobs : IsSlice(heap, jobs[i].mm)
  BY DEF SliceInv, JobsOK
<1>2. jobs' = [jobs EXCEPT ![j] = x]
  OBVIOUS
<1>3. x = [e |-> jobs[j].e, src |-> jobs[j].src, mm |-> jobs[j].mm, stage |-> stage,
           at |-> at]
  <2>1. PICK e, src, s, st, a :
               jobs[j] = [e |-> e, src |-> src, mm |-> s, stage |-> st, at |-> a]
    BY DEF SliceInv, JobsOK
  <2>2. PICK y : y = [jobs[j] EXCEPT !.stage = stage]
    OBVIOUS
  <2>3. y = [e |-> e, src |-> src, mm |-> s, stage |-> stage, at |-> a]
    BY <2>1, <2>2
  <2>4. x = [y EXCEPT !.at = at]
    BY <2>2
  <2>5. [y EXCEPT !.at = at] = [e |-> e, src |-> src, mm |-> s, stage |-> stage, at |-> at]
    BY <2>3
  <2> HIDE DEF x
  <2> QED
    BY <2>1, <2>4, <2>5
<1> HIDE DEF x
<1>4. /\ jobs' \in Seq(Values(jobs) \cup {x}) /\ DOMAIN jobs' = DOMAIN jobs
      /\ \A i \in DOMAIN jobs : jobs'[i] = IF i = j THEN x ELSE jobs[i]
  <2>1. /\ [jobs EXCEPT ![j] = x] \in Seq(Values(jobs) \cup {x})
        /\ DOMAIN [jobs EXCEPT ![j] = x] = DOMAIN jobs
        /\ \A k \in DOMAIN jobs : [jobs EXCEPT ![j] = x][k] = IF k = j THEN x ELSE jobs[k]
    BY <1>1, ReplaceSeq
  <2> QED
    BY <1>2, <2>1
<1>5. jobs' \in Seq(Values(jobs'))
  BY <1>4, SeqOfValues
<1>6. \A i \in DOMAIN jobs : jobs'[i].mm = jobs[i].mm
  BY <1>3, <1>4
<1>7. JobsOK'
  BY <1>3, <1>4, <1>5, <1>6, <1>1 DEF JobsOK, SliceInv, masks
<1>8. MasksOK'
  BY <1>4, <1>6 DEF MasksOK, SliceInv, masks
<1>9. SameMasks
  BY <1>4, <1>6 DEF SameMasks, masks
<1> QED
  BY <1>3, <1>4, <1>7, <1>8, <1>9

LEMMA GoroutineStep ==
    ASSUME SliceInv, Goroutines
    PROVE  Step
<1>1. UNCHANGED masks /\ Lines' = Lines
  BY GoroutineFrame DEF load, masks, Lines, Including
<1>2. PICK j \in DOMAIN jobs : Goroutine(j)
  BY DEF Goroutines
<1>3. /\ elf \in Seq(DOMAIN jobs) /\ Len(elf) \in Nat
      /\ DOMAIN jobs \subseteq Nat \ {0}
      /\ \A i \in DOMAIN jobs : jobs[i].stage \in {"append", "unlock"} => mu = i
      /\ \A i \in DOMAIN jobs : jobs[i].stage = "append" => jobs[i].at = Len(elf)
  BY DEF SliceInv, LockOK, JobsOK
<1>4. jobs[j] = [e |-> jobs[j].e, src |-> jobs[j].src, mm |-> jobs[j].mm,
                 stage |-> jobs[j].stage, at |-> jobs[j].at]
  BY DEF SliceInv, JobsOK
<1>5. CASE Lock(j)
  <2>1. jobs' = [jobs EXCEPT ![j].stage = "append", ![j].at = Len(elf)]
    BY <1>5 DEF Lock
  <2>2. /\ JobsOK' /\ MasksOK' /\ SameMasks
        /\ DOMAIN jobs' = DOMAIN jobs
        /\ jobs'[j].stage = "append" /\ jobs'[j].at = Len(elf)
        /\ \A i \in DOMAIN jobs : i # j => jobs'[i] = jobs[i]
    BY <1>1, <2>1, JobStep
  <2>3. mu = 0 /\ mu' = j /\ elf' = elf
    BY <1>5 DEF Lock
  <2>4. LockOK'
    BY <1>3, <2>2, <2>3 DEF LockOK
  <2> QED
    BY <2>2, <2>4 DEF Step, SliceInv
<1>6. ASSUME NEW from, NEW to, Stage(j, from, to)
      PROVE  /\ JobsOK' /\ MasksOK' /\ SameMasks
             /\ DOMAIN jobs' = DOMAIN jobs
             /\ jobs[j].stage = from /\ jobs'[j].stage = to
             /\ \A i \in DOMAIN jobs : i # j => jobs'[i] = jobs[i]
  <2>1. jobs' = [jobs EXCEPT ![j].stage = to, ![j].at = jobs[j].at]
    <3>1. jobs' = [jobs EXCEPT ![j].stage = to]
      BY <1>6 DEF Stage
    <3>2. [jobs[j] EXCEPT !.stage = to] = [jobs[j] EXCEPT !.stage = to, !.at = jobs[j].at]
      BY <1>4
    <3> QED
      BY <3>1, <3>2
  <2>2. jobs[j].stage = from
    BY <1>6 DEF Stage
  <2> QED
    BY <1>1, <2>1, <2>2, JobStep
<1>7. CASE Record(j)
  <2>1. /\ Stage(j, "append", "unlock") /\ mu' = mu
        /\ elf' = Append(SubSeq(elf, 1, jobs[j].at), j)
    BY <1>7 DEF Record
  <2>2. mu = j /\ jobs[j].at = Len(elf)
    BY <1>3, <1>6, <2>1
  <2>3. SubSeq(elf, 1, Len(elf)) \in Seq(DOMAIN jobs)
    BY <1>3
  <2>4. elf' \in Seq(DOMAIN jobs)
    BY <2>1, <2>2, <2>3
  <2>5. \A i \in DOMAIN jobs : jobs'[i].stage # "append"
    BY <1>3, <1>6, <2>1, <2>2
  <2>6. LockOK'
    BY <1>3, <1>6, <2>1, <2>2, <2>4, <2>5 DEF LockOK
  <2> QED
    BY <1>6, <2>1, <2>6 DEF Step, SliceInv
<1>8. CASE Unlock(j)
  <2>1. Stage(j, "unlock", "done") /\ mu' = 0 /\ elf' = elf
    BY <1>8 DEF Unlock
  <2>2. LockOK'
    BY <1>3, <1>6, <2>1 DEF LockOK
  <2> QED
    BY <1>6, <2>1, <2>2 DEF Step, SliceInv
<1>9. CASE WgDone(j)
  <2>1. Stage(j, "done", "gone") /\ mu' = mu /\ elf' = elf
    BY <1>9 DEF WgDone
  <2>2. LockOK'
    BY <1>3, <1>6, <2>1 DEF LockOK
  <2> QED
    BY <1>6, <2>1, <2>2 DEF Step, SliceInv
<1> QED
  BY <1>2, <1>5, <1>7, <1>8, <1>9 DEF Goroutine

(* The token is taken: the last job runs. *)
LEMMA SpawnStep ==
    ASSUME SliceInv, Spawn
    PROVE  Step
<1> DEFINE n == Len(jobs)
<1>1. /\ UNCHANGED <<masks, elf, mu>> /\ Lines' = Lines
      /\ jobs' = [jobs EXCEPT ![n].stage = "running"]
  BY DEF Spawn, Including, Lines, masks, More
<1>2. jobs \in Seq(Values(jobs)) /\ n \in Nat /\ DOMAIN jobs = 1..n
  BY DEF SliceInv, JobsOK
<1>3. CASE n = 0
  <2>1. jobs' = jobs
    BY <1>1, <1>2, <1>3
  <2> QED
    BY <1>1, <2>1, QuietStep DEF Lines, masks, SliceInv, MasksOK
<1>4. CASE n # 0
  <2>1. n \in DOMAIN jobs
    BY <1>2, <1>4
  <2>2. PICK e, src, s, st, a :
               jobs[n] = [e |-> e, src |-> src, mm |-> s, stage |-> st, at |-> a]
    BY <2>1 DEF SliceInv, JobsOK
  <2>3. [jobs[n] EXCEPT !.stage = "running"]
          = [jobs[n] EXCEPT !.stage = "running", !.at = jobs[n].at]
    BY <2>2
  <2>4. jobs' = [jobs EXCEPT ![n].stage = "running", ![n].at = jobs[n].at]
    BY <1>1, <2>3
  <2>5. /\ JobsOK' /\ MasksOK' /\ SameMasks
        /\ DOMAIN jobs' = DOMAIN jobs
        /\ jobs'[n].stage = "running"
        /\ \A i \in DOMAIN jobs : i # n => jobs'[i] = jobs[i]
    <3>1. UNCHANGED masks /\ Lines' = Lines
      BY <1>1
    <3> QED
      BY <2>1, <2>4, <3>1, JobStep
  <2>6. LockOK'
    BY <1>1, <2>1, <2>5 DEF SliceInv, LockOK
  <2> QED
    BY <2>5, <2>6 DEF Step, SliceInv
<1> QED
  BY <1>3, <1>4

(* A new job gets a slice of its own. *)
LEMMA NewJobStep ==
    ASSUME SliceInv, ~Including, NEW e, NEW src, NewJob(e, src), UNCHANGED <<mm, saved>>
    PROVE  Step
<1> DEFINE s == Snapshot(heap, mm)
           n == Len(jobs)
           x == [e |-> e, src |-> src, mm |-> s.mm, stage |-> "queued", at |-> 0]
<1>1. /\ heap' = s.heap /\ jobs' = Append(jobs, x) /\ elf' = elf /\ mu' = mu
      /\ ~Including'
  BY DEF NewJob, Including
<1>2. /\ heap \in Heaps /\ IsSlice(heap, mm) /\ IsSlice(heap, saved)
      /\ \A j \in DOMAIN jobs : IsSlice(heap, jobs[j].mm)
      /\ \A j \in DOMAIN jobs : jobs[j].mm.arr = 0 \/ jobs[j].mm.arr # mm.arr
      /\ jobs \in Seq(Values(jobs)) /\ n \in Nat /\ DOMAIN jobs = 1..n
  BY DEF SliceInv, MasksOK, JobsOK, Lines
<1>3. Confined(heap, NilSlice, s) /\ (s.mm.arr = 0 \/ s.mm.arr > Len(heap))
  BY <1>2, SnapshotFresh
<1>4. \A t : IsSlice(heap, t) => IsSlice(heap', t) /\ Eff(heap', t) = Eff(heap, t)
  <2>1. ASSUME NEW t, IsSlice(heap, t)
        PROVE  IsSlice(heap', t) /\ Eff(heap', t) = Eff(heap, t)
    <3>1. NilSlice.arr = 0
      BY DEF NilSlice
    <3> HIDE DEF s
    <3> QED
      BY <1>1, <1>2, <1>3, <2>1, <3>1, OthersKept
  <2> QED
    BY <2>1
<1>5. heap' \in Heaps /\ IsSlice(heap', s.mm)
  BY <1>1, <1>3 DEF Confined
<1>6. x.mm = s.mm /\ x.stage = "queued"
      /\ x = [e |-> x.e, src |-> x.src, mm |-> x.mm, stage |-> x.stage, at |-> x.at]
  OBVIOUS
<1> HIDE DEF s, x
<1>7. /\ jobs' \in Seq(Values(jobs) \cup {x}) /\ DOMAIN jobs' = 1..n+1
      /\ \A j \in 1..n : jobs'[j] = jobs[j]
      /\ jobs'[n+1] = x
  <2>1. jobs \in Seq(Values(jobs) \cup {x}) /\ x \in Values(jobs) \cup {x}
    <3>1. jobs \in [1..n -> Values(jobs) \cup {x}]
      BY <1>2 DEF Values
    <3> QED
      BY <1>2, <3>1
  <2> QED
    BY <1>1, <2>1
<1>8. jobs' \in Seq(Values(jobs'))
  BY <1>7, SeqOfValues
<1>9. JobsOK'
  <2>1. ASSUME NEW j \in 1..n+1
        PROVE  /\ jobs'[j] = [e |-> jobs'[j].e, src |-> jobs'[j].src, mm |-> jobs'[j].mm,
                              stage |-> jobs'[j].stage, at |-> jobs'[j].at]
               /\ IsSlice(heap', jobs'[j].mm)
    <3>1. CASE j = n + 1
      BY <1>5, <1>6, <1>7, <3>1
    <3>2. CASE j # n + 1
      <4>1. j \in DOMAIN jobs /\ jobs'[j] = jobs[j]
        BY <1>2, <1>7, <3>2
      <4> QED
        BY <1>2, <1>4, <4>1 DEF SliceInv, JobsOK
    <3> QED
      BY <3>1, <3>2
  <2> QED
    BY <1>7, <1>8, <2>1 DEF JobsOK
<1>10. MasksOK'
  <2>1. IsSlice(heap', mm') /\ IsSlice(heap', saved') /\ Lines' = mm
    BY <1>1, <1>2, <1>4 DEF Lines
  <2>2. mm.arr \in 0..Len(heap) /\ Len(heap) \in Nat
    BY <1>2 DEF IsSlice, Heaps
  <2>3. \A j \in DOMAIN jobs' : jobs'[j].mm.arr = 0 \/ jobs'[j].mm.arr # mm.arr
    BY <1>2, <1>3, <1>6, <1>7, <2>2
  <2> QED
    BY <1>5, <2>1, <2>3 DEF MasksOK
<1>11. LockOK'
  <2>1. elf \in Seq(DOMAIN jobs')
    <3>1. elf \in [1..Len(elf) -> DOMAIN jobs'] /\ Len(elf) \in Nat
      BY <1>2, <1>7 DEF SliceInv, LockOK
    <3> QED
      BY <3>1
  <2> QED
    BY <1>1, <1>2, <1>6, <1>7, <2>1 DEF SliceInv, LockOK
<1>12. SameMasks
  BY <1>2, <1>4, <1>7 DEF SameMasks
<1> QED
  BY <1>9, <1>10, <1>11, <1>12 DEF Step, SliceInv

LEMMA AddElfStep ==
    ASSUME SliceInv, AddElf
    PROVE  Step
<1>1. UNCHANGED <<mm, saved>> /\ ~Including
  BY DEF AddElf, Including
<1>2. \/ \E e, src : NewJob(e, src)
      \/ UNCHANGED <<heap, pool>> /\ ~Including'
  <2>1. \A e, src : ~Concurrent /\ Inline(e, src) => UNCHANGED <<heap, pool>> /\ ~Including'
    BY DEF Inline, Including
  <2> QED
    BY <2>1 DEF AddElf, Including, More
<1>3. CASE UNCHANGED <<heap, pool>> /\ ~Including'
  BY <1>1, <1>3, QuietStep DEF pool, Lines, SliceInv, MasksOK
<1> QED
  BY <1>1, <1>2, <1>3, NewJobStep

(* includeElfs moves mm to the slices of the jobs and back. *)
LEMMA IncludeStep ==
    ASSUME SliceInv, ControlInv, Include
    PROVE  Step
<1> USE DEF Lines, Including
<1>1. /\ UNCHANGED <<heap, pool>>
  BY DEF Include, Wait, NextResult, ResultsDone, IncludeMain, IncludeLib, LibsDone, masks
<1>2. IsSlice(heap, mm) /\ IsSlice(heap, saved)
      /\ \A j \in DOMAIN jobs : IsSlice(heap, jobs[j].mm)
  BY DEF SliceInv, MasksOK, JobsOK
<1>3. CASE Wait
  BY <1>1, <1>2, <1>3, QuietStep DEF Wait, pool
<1>4. CASE NextResult
  <2>1. Len(elf) \in Nat /\ elf \in [1..Len(elf) -> DOMAIN jobs]
    BY DEF SliceInv, LockOK
  <2>2. next + 1 \in 1..Len(elf)
    BY <1>4, <2>1 DEF NextResult, ControlInv
  <2>3. elf[next + 1] \in DOMAIN jobs
    BY <2>1, <2>2
  <2>4. IsSlice(heap, mm') /\ saved' = saved /\ Lines' = Lines
    BY <1>2, <1>4, <2>3 DEF NextResult, ControlInv
  <2> QED
    BY <1>1, <1>2, <2>4, QuietStep DEF pool
<1>5. CASE ResultsDone
  BY <1>1, <1>2, <1>5, QuietStep DEF ResultsDone, ControlInv, pool
<1>6. CASE IncludeMain \/ IncludeLib \/ LibsDone
  <2>1. UNCHANGED masks /\ pc \in {"include", "libs"}
    BY <1>6 DEF IncludeMain, IncludeLib, LibsDone, masks
  <2>2. Included \/ IncludeFails \/ pc' \in {"include", "libs"}
    BY <1>6 DEF IncludeMain, IncludeLib, LibsDone
  <2>3. Lines' = Lines
    BY <2>1, <2>2 DEF masks, Included, IncludeFails, More
  <2> QED
    BY <1>1, <1>2, <2>1, <2>3, QuietStep DEF masks, pool
<1> QED
  BY <1>3, <1>4, <1>5, <1>6 DEF Include

(* A new file starts with no masks and no jobs. *)
LEMMA OpenFileStep ==
    ASSUME SliceInv, ControlInv, OpenFile
    PROVE  Step
<1>1. heap' \in Heaps /\ IsSlice(heap', mm') /\ IsSlice(heap', saved')
  BY DEF OpenFile, NewMap, Heaps, IsSlice, NilSlice, Cap
<1>2. jobs' = <<>> /\ elf' = <<>> /\ file' # file
  BY DEF OpenFile, NewMap, ControlInv
<1>3. JobsOK'
  BY <1>2 DEF JobsOK, Values
<1>4. MasksOK' /\ LockOK'
  BY <1>1, <1>2 DEF MasksOK, LockOK
<1> QED
  BY <1>2, <1>3, <1>4 DEF Step, SliceInv, SameMasks

(* The rest of the main thread leaves masks and jobs alone. *)
LEMMA OtherStep ==
    ASSUME SliceInv,
           \/ Put \/ MergeNext \/ MergeDone \/ OpenFails \/ FilesDone
           \/ Release \/ Terminated \/ UNCHANGED vars
    PROVE  Step
<1>1. UNCHANGED <<masks, jobs, elf, mu>> /\ Lines' = Lines
  BY DEF Put, MergeNext, MergeDone, OpenFails, FilesDone, Release, Terminated, vars,
         load, masks, pool, Lines, Including
<1> QED
  BY <1>1, QuietStep DEF masks, SliceInv, MasksOK

LEMMA NextStep ==
    ASSUME SliceInv, ControlInv, [Next]_vars
    PROVE  Step
BY LineStep, GoroutineStep, SpawnStep, AddElfStep, IncludeStep, OpenFileStep, OtherStep
   DEF Next, MainThread, Files

LEMMA ControlStep ==
    ASSUME ControlInv, [Next]_vars
    PROVE  ControlInv'
<1> USE DEF ControlInv
<1>1. CASE ReadLine
  <2>1. UNCHANGED <<file, next>> /\ pc' # "results" /\ (pc' = "wait" => Concurrent)
    BY <1>1 DEF ReadLine, ReadMask, ReadClear, MaskLine, ReadPlain, ReadRegularRel,
       ReadAuto, ReadRecursive, ReadGlob, ReadElf, ReadElfGlob, ReadElfLib, ReadElfPath,
       ReadError, EndOfFile, EntryLine, NextLine, main, incl
  <2> QED
    BY <2>1
<1>2. CASE Goroutines \/ Release
  BY <1>2, GoroutineFrame DEF load, main, incl
<1>3. CASE AddElf
  BY <1>3 DEF AddElf, NewJob, Inline, More
<1>4. CASE Spawn
  BY <1>4 DEF Spawn, More, main, incl
<1>5. CASE Wait \/ NextResult \/ ResultsDone
  BY <1>5 DEF Wait, NextResult, ResultsDone, main, incl
<1>6. CASE IncludeMain \/ IncludeLib \/ LibsDone
  BY <1>6 DEF IncludeMain, IncludeLib, LibsDone, Included, IncludeFails, More
<1>7. CASE Files
  BY <1>7 DEF Files, MergeNext, MergeDone, OpenFile, OpenFails, FilesDone, load, main, incl
<1>8. CASE Put \/ Terminated \/ UNCHANGED vars
  BY <1>8 DEF Put, Terminated, vars, load, incl
<1> QED
  BY <1>1, <1>2, <1>3, <1>4, <1>5, <1>6, <1>7, <1>8 DEF Next, MainThread, Include

(* A goroutine's result is filtered by the masks that were in force at its
   line: no later line of the file changes them (config/map.go:476-477). *)
THEOREM MasksAreOfTheLine == Spec => MasksOfLineKept
<1>1. Init => SliceInv /\ ControlInv
  BY DEF Init, SliceInv, ControlInv, JobsOK, Values, MasksOK, LockOK, Heaps, IsSlice,
         NilSlice, Cap
<1>2. SliceInv /\ ControlInv /\ [Next]_vars => SliceInv' /\ ControlInv' /\ SameMasks
  BY NextStep, ControlStep DEF Step
<1>3. SameMasks => [SameMasks]_vars
  OBVIOUS
<1> QED
  BY <1>1, <1>2, <1>3, PTL DEF Spec, MasksOfLineKept

-----------------------------------------------------------------------------
(* The goroutines: none resolves without a token of q, every result is recorded
   once before the results are included, and with -elf.once a source is given
   to one goroutine. *)
(* The jobs that are in one of the stages of A, and their number. *)
InStages(A) == {j \in DOMAIN jobs : jobs[j].stage \in A}
Count(A) == Cardinality(InStages(A))

Pending == {"queued", "running", "append", "unlock", "done"}
Working == {"running", "append", "unlock", "done"}
Recorded == {"unlock", "done", "gone"}

(* Each counter counts the jobs it stands for. *)
CountInv ==
    /\ leaving \in Nat
    /\ wg = Count(Pending)
    /\ q = leaving + Count(Working)
    /\ q <= Slots
    /\ Len(elf) = Count(Recorded)

(* The stages; a job waits for its token only while the main thread does, and
   the list holds the jobs that are past their append. *)
StageInv ==
    /\ \A j \in DOMAIN jobs : /\ jobs[j].stage \in Stages
                              /\ jobs[j].stage = "queued" <=> (pc = "spawn" /\ j = Len(jobs))
                              /\ jobs[j].stage \in Recorded => j \in ToSet(elf)
    /\ pc = "spawn" => jobs # <<>>
    /\ ~Concurrent => jobs = <<>>

(* No goroutine is at work while the results are included, and later. *)
Settled == \/ pc \in {"results", "merge", "open", "done"}
           \/ Concurrent /\ pc \in {"include", "libs"}
SettledInv == Settled => InStages(Pending) = {}

PoolInv == CountInv /\ StageInv /\ SettledInv

-----------------------------------------------------------------------------
(* Counting *)

LEMMA JobsFinite ==
    ASSUME SliceInv, NEW A
    PROVE  IsFiniteSet(InStages(A)) /\ Count(A) \in Nat
<1>1. DOMAIN jobs = 1..Len(jobs) /\ Len(jobs) \in Nat
  BY DEF SliceInv, JobsOK
<1>2. IsFiniteSet(DOMAIN jobs)
  BY <1>1, FS_Interval
<1>3. InStages(A) \subseteq DOMAIN jobs
  BY DEF InStages
<1> QED
  BY <1>2, <1>3, FS_Subset, FS_CardinalityType DEF Count

(* A job that changes its stage is counted where it comes to, not where it
   came from. *)
LEMMA CountMoved ==
    ASSUME SliceInv, NEW j \in DOMAIN jobs, NEW A,
           DOMAIN jobs' = DOMAIN jobs,
           \A i \in DOMAIN jobs : i # j => jobs'[i] = jobs[i]
    PROVE  Count(A)' = IF jobs[j].stage \in A
                       THEN IF jobs'[j].stage \in A THEN Count(A) ELSE Count(A) - 1
                       ELSE IF jobs'[j].stage \in A THEN Count(A) + 1 ELSE Count(A)
<1> DEFINE S == InStages(A)
           T == InStages(A)'
<1>1. IsFiniteSet(S) /\ Count(A) = Cardinality(S) /\ Count(A)' = Cardinality(T)
      /\ Cardinality(S) \in Nat
  BY JobsFinite DEF Count
<1>2. \A i \in DOMAIN jobs : i # j => (i \in T <=> i \in S)
  BY DEF InStages
<1>3. T \subseteq DOMAIN jobs /\ S \subseteq DOMAIN jobs
  BY DEF InStages
<1>4. j \in S <=> jobs[j].stage \in A
  BY DEF InStages
<1>5. j \in T <=> jobs'[j].stage \in A
  BY DEF InStages
<1> HIDE DEF S, T
<1>6. T = IF jobs'[j].stage \in A THEN S \cup {j} ELSE S \ {j}
  BY <1>2, <1>3, <1>5
<1>7. Cardinality(S \cup {j}) = IF j \in S THEN Cardinality(S) ELSE Cardinality(S) + 1
  BY <1>1, FS_AddElement
<1>8. Cardinality(S \ {j}) = IF j \in S THEN Cardinality(S) - 1 ELSE Cardinality(S)
  BY <1>1, FS_RemoveElement
<1> QED
  BY <1>1, <1>4, <1>6, <1>7, <1>8

(* So is a job that is added. *)
LEMMA CountAdded ==
    ASSUME SliceInv, NEW A,
           DOMAIN jobs' = 1..(Len(jobs) + 1),
           \A i \in DOMAIN jobs : jobs'[i] = jobs[i]
    PROVE  Count(A)' = IF jobs'[Len(jobs) + 1].stage \in A THEN Count(A) + 1 ELSE Count(A)
<1> DEFINE S == InStages(A)
           T == InStages(A)'
           n == Len(jobs)
<1>1. IsFiniteSet(S) /\ Count(A) = Cardinality(S) /\ Count(A)' = Cardinality(T)
  BY JobsFinite DEF Count
<1>2. n \in Nat /\ DOMAIN jobs = 1..n
  BY DEF SliceInv, JobsOK
<1>3. \A i \in 1..n : i \in T <=> i \in S
  BY <1>2 DEF InStages
<1>4. T \subseteq 1..(n + 1) /\ S \subseteq 1..n
  BY <1>2 DEF InStages
<1>5. n + 1 \in T <=> jobs'[n + 1].stage \in A
  BY <1>2 DEF InStages
<1> HIDE DEF S, T
<1>6. T = IF jobs'[n + 1].stage \in A THEN S \cup {n + 1} ELSE S
  <2>1. \A i \in 1..(n + 1) : i \in 1..n \/ i = n + 1
    BY <1>2
  <2>2. \A i \in 1..n : i \in 1..(n + 1)
    BY <1>2
  <2>3. n + 1 \in 1..(n + 1) /\ n + 1 \notin 1..n
    BY <1>2
  <2>4. \A i : i \in T <=> \/ i \in S
                           \/ i = n + 1 /\ jobs'[n + 1].stage \in A
    BY <2>1, <2>2, <2>3, <1>3, <1>4, <1>5
  <2> HIDE DEF n
  <2> QED
    BY <2>4
<1>7. n + 1 \notin S
  BY <1>2, <1>4
<1>8. Cardinality(S \cup {n + 1}) = Cardinality(S) + 1
  BY <1>1, <1>7, FS_AddElement
<1> QED
  BY <1>1, <1>6, <1>8

LEMMA CountSame ==
    ASSUME jobs' = jobs, NEW A
    PROVE  InStages(A)' = InStages(A) /\ Count(A)' = Count(A)
BY DEF InStages, Count

LEMMA CountNone ==
    ASSUME jobs = <<>>, NEW A
    PROVE  InStages(A) = {} /\ Count(A) = 0
BY FS_EmptySet DEF InStages, Count

-----------------------------------------------------------------------------
(* The steps *)

(* A step that leaves the goroutines and their counters alone. *)
LEMMA PoolQuiet ==
    ASSUME PoolInv, UNCHANGED <<jobs, elf, wg, q, leaving>>,
           pc = "spawn" <=> pc' = "spawn",
           Settled' => InStages(Pending) = {}
    PROVE  PoolInv'
<1>1. InStages(Pending)' = InStages(Pending)
  BY CountSame
<1>2. /\ Count(Pending)' = Count(Pending) /\ Count(Working)' = Count(Working)
      /\ Count(Recorded)' = Count(Recorded)
  BY CountSame
<1>3. CountInv'
  BY <1>2 DEF PoolInv, CountInv
<1>4. StageInv'
  BY DEF PoolInv, StageInv
<1>5. SettledInv'
  BY <1>1 DEF SettledInv
<1> QED
  BY <1>3, <1>4, <1>5 DEF PoolInv

(* Where a line leads to. *)
LEMMA LineControl ==
    ASSUME ReadLine
    PROVE  /\ pc = "read"
           /\ \/ pc' \in {"read", "elf", "failed", "wait"}
              \/ pc' = "merge" /\ ~Concurrent
<1>1. ASSUME NEW r, MaskLine(r) PROVE pc = "read" /\ pc' \in {"read", "failed"}
  BY <1>1 DEF MaskLine, NextLine
<1>2. ASSUME NEW l, NEW then, EntryLine(l, then)
      PROVE  pc = "read" /\ pc' \in {"read", "elf", "failed"}
  BY <1>2 DEF EntryLine, NextLine
<1>3. CASE ReadMask \/ ReadClear
  BY <1>1, <1>3 DEF ReadMask, ReadClear
<1>4. CASE ReadPlain \/ ReadRegularRel \/ ReadAuto \/ ReadRecursive \/ ReadGlob
  BY <1>2, <1>4 DEF ReadPlain, ReadRegularRel, ReadAuto, ReadRecursive, ReadGlob
<1>5. CASE ReadElf \/ ReadElfGlob \/ ReadElfLib \/ ReadElfPath
  BY <1>2, <1>5 DEF ReadElf, ReadElfGlob, ReadElfLib, ReadElfPath
<1>6. CASE ReadError \/ EndOfFile
  BY <1>6 DEF ReadError, EndOfFile
<1> QED
  BY <1>3, <1>4, <1>5, <1>6 DEF ReadLine

LEMMA PoolLine ==
    ASSUME SliceInv, PoolInv, ReadLine
    PROVE  PoolInv'
<1>1. UNCHANGED <<jobs, elf, wg, q, leaving>>
  BY LineFrame DEF pool
<1>2. Settled' => InStages(Pending) = {}
  BY LineControl, CountNone DEF Settled, PoolInv, StageInv
<1> QED
  BY <1>1, <1>2, LineControl, PoolQuiet

(* The job that a line starts waits for a token. *)
LEMMA PoolAddElf ==
    ASSUME SliceInv, PoolInv, AddElf
    PROVE  PoolInv'
<1>1. CASE \E e, src : Concurrent /\ NewJob(e, src)
  <2>1. PICK e, src : Concurrent /\ NewJob(e, src)
    BY <1>1
  <2> DEFINE n == Len(jobs)
             x == [e |-> e, src |-> src, mm |-> Snapshot(heap, mm).mm, stage |-> "queued",
                   at |-> 0]
  <2>2. /\ jobs' = Append(jobs, x) /\ elf' = elf /\ wg' = wg + 1 /\ pc' = "spawn"
        /\ q' = q /\ leaving' = leaving
    BY <2>1 DEF NewJob
  <2>3. /\ jobs \in Seq(Values(jobs)) /\ n \in Nat /\ DOMAIN jobs = 1..n
        /\ \A j \in 1..n : jobs[j].stage # "queued"
    BY DEF SliceInv, JobsOK, PoolInv, StageInv, AddElf
  <2>4. x.stage = "queued"
    OBVIOUS
  <2> HIDE DEF x
  <2>5. /\ DOMAIN jobs' = 1..(n + 1) /\ Len(jobs') = n + 1
        /\ \A j \in 1..n : jobs'[j] = jobs[j]
        /\ jobs'[n + 1] = x
    <3>1. jobs \in Seq(Values(jobs) \cup {x}) /\ x \in Values(jobs) \cup {x}
      <4>1. jobs \in [1..n -> Values(jobs) \cup {x}]
        BY <2>3 DEF Values
      <4> QED
        BY <2>3, <4>1
    <3> QED
      BY <2>2, <2>3, <3>1
  <2>6. /\ Count(Pending)' = Count(Pending) + 1
        /\ Count(Working)' = Count(Working)
        /\ Count(Recorded)' = Count(Recorded)
    <3>1. DOMAIN jobs' = 1..(Len(jobs) + 1) /\ \A i \in DOMAIN jobs : jobs'[i] = jobs[i]
      BY <2>3, <2>5
    <3>2. jobs'[Len(jobs) + 1].stage = "queued"
      BY <2>4, <2>5
    <3>3. \A A : Count(A)' = IF "queued" \in A THEN Count(A) + 1 ELSE Count(A)
      BY <3>1, <3>2, CountAdded
    <3> QED
      BY <3>3 DEF Pending, Working, Recorded
  <2>7. CountInv'
    BY <2>2, <2>6, JobsFinite DEF PoolInv, CountInv
  <2>8. StageInv'
    <3>1. ASSUME NEW j \in 1..(n + 1)
          PROVE  /\ jobs'[j].stage \in Stages
                 /\ jobs'[j].stage = "queued" <=> j = n + 1
                 /\ jobs'[j].stage \in Recorded => j \in ToSet(elf)
      <4>1. CASE j \in 1..n
        <5>1. jobs'[j] = jobs[j] /\ j # n + 1
          BY <2>3, <2>5, <4>1
        <5> QED
          BY <2>3, <4>1, <5>1 DEF PoolInv, StageInv
      <4>2. CASE j = n + 1
        BY <2>4, <2>5, <4>2 DEF Stages, Recorded
      <4> QED
        BY <2>3, <4>1, <4>2
    <3>2. jobs' # <<>>
      BY <2>3, <2>5
    <3> QED
      BY <2>1, <2>2, <2>5, <3>1, <3>2 DEF StageInv
  <2>9. SettledInv'
    BY <2>2 DEF SettledInv, Settled
  <2> QED
    BY <2>7, <2>8, <2>9 DEF PoolInv
<1>2. CASE ~\E e, src : Concurrent /\ NewJob(e, src)
  <2>1. \A e, src : Inline(e, src) => UNCHANGED pool /\ pc' = "include"
    BY DEF Inline
  <2>2. /\ UNCHANGED pool /\ pc = "elf"
        /\ \/ pc' \in {"read", "elf", "failed"}
           \/ pc' = "include" /\ ~Concurrent
    BY <1>2, <2>1 DEF AddElf, More
  <2>3. ~Settled'
    BY <2>2 DEF Settled
  <2> QED
    BY <2>2, <2>3, PoolQuiet DEF pool
<1> QED
  BY <1>1, <1>2

(* The job gets a token that was there. *)
LEMMA PoolSpawn ==
    ASSUME SliceInv, PoolInv, Spawn
    PROVE  PoolInv'
<1> DEFINE n == Len(jobs)
<1>1. /\ UNCHANGED <<elf, wg, leaving>> /\ pc = "spawn" /\ pc' \in {"read", "elf"}
      /\ q < Slots /\ q' = q + 1
      /\ jobs' = [jobs EXCEPT ![n].stage = "running"]
  BY DEF Spawn, More
<1>2. jobs \in Seq(Values(jobs)) /\ n \in Nat /\ DOMAIN jobs = 1..n /\ jobs # <<>>
  BY <1>1 DEF SliceInv, JobsOK, PoolInv, StageInv
<1>3. n \in DOMAIN jobs
  BY <1>2
<1>4. /\ DOMAIN jobs' = DOMAIN jobs /\ Len(jobs') = n
      /\ \A i \in DOMAIN jobs : i # n => jobs'[i] = jobs[i]
      /\ jobs[n].stage = "queued"
  BY <1>1, <1>2, <1>3 DEF PoolInv, StageInv
<1>5. jobs'[n].stage = "running"
  <2>1. jobs'[n] = [jobs[n] EXCEPT !.stage = "running"]
    BY <1>1, <1>3
  <2>2. jobs[n] = [e |-> jobs[n].e, src |-> jobs[n].src, mm |-> jobs[n].mm,
                   stage |-> jobs[n].stage, at |-> jobs[n].at]
    BY <1>3 DEF SliceInv, JobsOK
  <2> QED
    BY <2>1, <2>2
<1>6. \A A : Count(A)' = IF "queued" \in A
                         THEN IF "running" \in A THEN Count(A) ELSE Count(A) - 1
                         ELSE IF "running" \in A THEN Count(A) + 1 ELSE Count(A)
  BY <1>3, <1>4, <1>5, CountMoved
<1>7. CountInv'
  <2>1. /\ Count(Pending)' = Count(Pending)
        /\ Count(Working)' = Count(Working) + 1
        /\ Count(Recorded)' = Count(Recorded)
    BY <1>6 DEF Pending, Working, Recorded
  <2>2. Slots \in Nat
    BY BoundsAssumption DEF Slots
  <2> QED
    BY <1>1, <2>1, <2>2, JobsFinite DEF PoolInv, CountInv
<1>8. StageInv'
  <2>1. ASSUME NEW j \in DOMAIN jobs
        PROVE  /\ jobs'[j].stage \in Stages
               /\ jobs'[j].stage # "queued"
               /\ jobs'[j].stage \in Recorded => j \in ToSet(elf)
    <3>1. CASE j = n
      BY <1>5, <3>1 DEF Stages, Recorded
    <3>2. CASE j # n
      BY <1>4, <3>2 DEF PoolInv, StageInv
    <3> QED
      BY <3>1, <3>2
  <2> QED
    BY <1>1, <1>2, <1>4, <2>1 DEF PoolInv, StageInv
<1>9. SettledInv'
  BY <1>1 DEF SettledInv, Settled
<1> QED
  BY <1>7, <1>8, <1>9 DEF PoolInv

(* A goroutine's step moves one job from stage to stage. *)
LEMMA PoolMoved ==
    ASSUME SliceInv, PoolInv, NEW j \in DOMAIN jobs,
           JobsOK', DOMAIN jobs' = DOMAIN jobs,
           \A i \in DOMAIN jobs : i # j => jobs'[i] = jobs[i],
           jobs[j].stage \in Working, jobs'[j].stage \in Stages \ {"queued"},
           jobs'[j].stage \in Recorded => j \in ToSet(elf'),
           ToSet(elf) \subseteq ToSet(elf'),
           pc' = pc, CountInv'
    PROVE  PoolInv'
<1>1. Len(jobs') = Len(jobs) /\ jobs # <<>> /\ jobs' # <<>>
  BY DEF SliceInv, JobsOK
<1>2. ASSUME NEW i \in DOMAIN jobs
      PROVE  /\ jobs'[i].stage \in Stages
             /\ jobs'[i].stage = "queued" <=> (pc = "spawn" /\ i = Len(jobs))
             /\ jobs'[i].stage \in Recorded => i \in ToSet(elf')
  <2>1. CASE i = j
    BY <2>1 DEF PoolInv, StageInv, Working
  <2>2. CASE i # j
    BY <2>2 DEF PoolInv, StageInv
  <2> QED
    BY <2>1, <2>2
<1>3. StageInv'
  BY <1>1, <1>2 DEF PoolInv, StageInv
<1>4. InStages(Pending) # {}
  BY DEF InStages, Pending, Working
<1>5. SettledInv'
  BY <1>4 DEF PoolInv, SettledInv, Settled
<1> QED
  BY <1>3, <1>5 DEF PoolInv

LEMMA PoolGoroutine ==
    ASSUME SliceInv, PoolInv, Goroutines
    PROVE  PoolInv'
<1>1. PICK j \in DOMAIN jobs : Goroutine(j)
  BY DEF Goroutines
<1>2. UNCHANGED masks /\ Lines' = Lines /\ pc' = pc
  BY GoroutineFrame DEF load, masks, Lines, Including
<1>3. /\ elf \in Seq(DOMAIN jobs) /\ Len(elf) \in Nat
      /\ jobs[j].stage = "append" => jobs[j].at = Len(elf)
      /\ jobs[j].stage \in Recorded => j \in ToSet(elf)
  BY DEF SliceInv, LockOK, PoolInv, StageInv
<1>4. jobs[j] = [e |-> jobs[j].e, src |-> jobs[j].src, mm |-> jobs[j].mm,
                 stage |-> jobs[j].stage, at |-> jobs[j].at]
  BY DEF SliceInv, JobsOK
<1> DEFINE Moved(to) ==
             /\ JobsOK' /\ DOMAIN jobs' = DOMAIN jobs /\ jobs'[j].stage = to
             /\ \A i \in DOMAIN jobs : i # j => jobs'[i] = jobs[i]
             /\ \A A : Count(A)' = IF jobs[j].stage \in A
                                   THEN IF to \in A THEN Count(A) ELSE Count(A) - 1
                                   ELSE IF to \in A THEN Count(A) + 1 ELSE Count(A)
<1>5. ASSUME NEW to, NEW at, jobs' = [jobs EXCEPT ![j].stage = to, ![j].at = at]
      PROVE  Moved(to)
  <2>1. /\ JobsOK' /\ DOMAIN jobs' = DOMAIN jobs /\ jobs'[j].stage = to
        /\ \A i \in DOMAIN jobs : i # j => jobs'[i] = jobs[i]
    BY <1>2, <1>5, JobStep
  <2>2. \A A : Count(A)' = IF jobs[j].stage \in A
                           THEN IF jobs'[j].stage \in A THEN Count(A) ELSE Count(A) - 1
                           ELSE IF jobs'[j].stage \in A THEN Count(A) + 1 ELSE Count(A)
    BY <2>1, CountMoved
  <2> QED
    BY <2>1, <2>2
<1> HIDE DEF Moved
<1>6. ASSUME NEW from, NEW to, Stage(j, from, to)
      PROVE  jobs[j].stage = from /\ Moved(to)
  <2>1. jobs' = [jobs EXCEPT ![j].stage = to] /\ jobs[j].stage = from
    BY <1>6 DEF Stage
  <2>2. [jobs[j] EXCEPT !.stage = to] = [jobs[j] EXCEPT !.stage = to, !.at = jobs[j].at]
    BY <1>4
  <2>3. jobs' = [jobs EXCEPT ![j].stage = to, ![j].at = jobs[j].at]
    BY <2>1, <2>2
  <2> QED
    BY <1>5, <2>1, <2>3
<1>7. \A A : Count(A) \in Nat
  BY JobsFinite
<1>8. CASE Lock(j)
  <2>1. /\ jobs[j].stage = "running" /\ Moved("append")
        /\ UNCHANGED <<elf, wg, q, leaving>>
    BY <1>8, <1>5 DEF Lock
  <2>2. /\ Count(Pending)' = Count(Pending) /\ Count(Working)' = Count(Working)
        /\ Count(Recorded)' = Count(Recorded)
    BY <2>1 DEF Moved, Pending, Working, Recorded
  <2>3. CountInv'
    BY <2>1, <2>2 DEF PoolInv, CountInv
  <2>4. /\ jobs[j].stage \in Working /\ "append" \in Stages \ {"queued"}
        /\ "append" \in Recorded => j \in ToSet(elf')
        /\ ToSet(elf) \subseteq ToSet(elf')
    BY <2>1 DEF Working, Recorded, Stages
  <2> QED
    BY <1>2, <2>1, <2>3, <2>4, PoolMoved DEF Moved
<1>9. CASE Record(j)
  <2>1. /\ jobs[j].stage = "append" /\ Moved("unlock")
        /\ UNCHANGED <<wg, q, leaving>>
        /\ elf' = Append(SubSeq(elf, 1, jobs[j].at), j)
    BY <1>9, <1>6 DEF Record
  <2>2. SubSeq(elf, 1, Len(elf)) = elf
    BY <1>3
  <2>3. elf' = Append(elf, j)
    BY <1>3, <2>1, <2>2
  <2>4. /\ Len(elf') = Len(elf) + 1
        /\ elf'[Len(elf) + 1] = j /\ DOMAIN elf' = 1..(Len(elf) + 1)
        /\ \A i \in 1..Len(elf) : elf'[i] = elf[i]
    BY <1>3, <2>3
  <2>5. ToSet(elf) \subseteq ToSet(elf') /\ j \in ToSet(elf')
    BY <1>3, <2>4 DEF ToSet
  <2>6. /\ Count(Pending)' = Count(Pending) /\ Count(Working)' = Count(Working)
        /\ Count(Recorded)' = Count(Recorded) + 1
    BY <2>1 DEF Moved, Pending, Working, Recorded
  <2>7. CountInv'
    BY <2>1, <2>6, <2>4 DEF PoolInv, CountInv
  <2>8. /\ jobs[j].stage \in Working /\ "unlock" \in Stages \ {"queued"}
        /\ "unlock" \in Recorded => j \in ToSet(elf')
        /\ ToSet(elf) \subseteq ToSet(elf')
    BY <2>1, <2>5 DEF Working, Recorded, Stages
  <2> QED
    BY <1>2, <2>1, <2>7, <2>8, PoolMoved DEF Moved
<1>10. CASE Unlock(j)
  <2>1. /\ jobs[j].stage = "unlock" /\ Moved("done")
        /\ UNCHANGED <<elf, wg, q, leaving>>
    BY <1>10, <1>6 DEF Unlock
  <2>2. /\ Count(Pending)' = Count(Pending) /\ Count(Working)' = Count(Working)
        /\ Count(Recorded)' = Count(Recorded)
    BY <2>1 DEF Moved, Pending, Working, Recorded
  <2>3. CountInv'
    BY <2>1, <2>2 DEF PoolInv, CountInv
  <2>4. /\ jobs[j].stage \in Working /\ "done" \in Stages \ {"queued"}
        /\ "done" \in Recorded => j \in ToSet(elf')
        /\ ToSet(elf) \subseteq ToSet(elf')
    BY <1>3, <2>1 DEF Working, Recorded, Stages
  <2> QED
    BY <1>2, <2>1, <2>3, <2>4, PoolMoved DEF Moved
<1>11. CASE WgDone(j)
  <2>1. /\ jobs[j].stage = "done" /\ Moved("gone")
        /\ UNCHANGED <<elf, q>> /\ wg' = wg - 1 /\ leaving' = leaving + 1
    BY <1>11, <1>6 DEF WgDone
  <2>2. /\ Count(Pending)' = Count(Pending) - 1 /\ Count(Working)' = Count(Working) - 1
        /\ Count(Recorded)' = Count(Recorded)
    BY <2>1 DEF Moved, Pending, Working, Recorded
  <2>3. CountInv'
    BY <1>7, <2>1, <2>2 DEF PoolInv, CountInv
  <2>4. /\ jobs[j].stage \in Working /\ "gone" \in Stages \ {"queued"}
        /\ "gone" \in Recorded => j \in ToSet(elf')
        /\ ToSet(elf) \subseteq ToSet(elf')
    BY <1>3, <2>1 DEF Working, Recorded, Stages
  <2> QED
    BY <1>2, <2>1, <2>3, <2>4, PoolMoved DEF Moved
<1> QED
  BY <1>1, <1>8, <1>9, <1>10, <1>11 DEF Goroutine

(* A token goes back. *)
LEMMA PoolRelease ==
    ASSUME SliceInv, PoolInv, Release
    PROVE  PoolInv'
<1>1. /\ UNCHANGED <<jobs, elf, wg, pc>> /\ leaving > 0
      /\ leaving' = leaving - 1 /\ q' = q - 1
  BY DEF Release, load
<1>2. \A A : InStages(A)' = InStages(A) /\ Count(A)' = Count(A)
  BY <1>1, CountSame
<1>3. CountInv'
  <2>1. Count(Working) \in Nat /\ Slots \in Nat
    BY JobsFinite, BoundsAssumption DEF Slots
  <2> QED
    BY <1>1, <1>2, <2>1 DEF PoolInv, CountInv
<1>4. StageInv' /\ SettledInv'
  BY <1>1, <1>2 DEF PoolInv, StageInv, SettledInv, Settled
<1> QED
  BY <1>3, <1>4 DEF PoolInv

(* The wait group lets the main thread pass when no goroutine is left. *)
LEMMA PoolInclude ==
    ASSUME SliceInv, ControlInv, PoolInv, Include
    PROVE  PoolInv'
<1>1. UNCHANGED <<jobs, elf, wg, q, leaving>> /\ pc # "spawn" /\ pc' # "spawn"
  BY DEF Include, Wait, NextResult, ResultsDone, IncludeMain, IncludeLib, LibsDone, pool,
         Included, IncludeFails, More
<1>2. CASE Wait
  <2>1. Count(Pending) = 0 /\ IsFiniteSet(InStages(Pending))
    BY <1>2, JobsFinite DEF Wait, PoolInv, CountInv
  <2>2. InStages(Pending) = {}
    BY <2>1, FS_EmptySet DEF Count
  <2> QED
    BY <1>1, <2>2, PoolQuiet
<1>3. CASE NextResult \/ ResultsDone
  <2>1. Settled
    BY <1>3 DEF NextResult, ResultsDone, Settled
  <2> QED
    BY <1>1, <2>1, PoolQuiet DEF PoolInv, SettledInv
<1>4. CASE IncludeMain \/ IncludeLib \/ LibsDone
  <2>1. /\ pc \in {"include", "libs"}
        /\ \/ pc' \in {"libs", "include", "failed", "read", "elf"}
           \/ Concurrent /\ pc' = "results"
    BY <1>4 DEF IncludeMain, IncludeLib, LibsDone, Included, IncludeFails, More
  <2>2. Settled' => Settled
    BY <2>1 DEF Settled
  <2> QED
    BY <1>1, <2>2, PoolQuiet DEF PoolInv, SettledInv
<1> QED
  BY <1>2, <1>3, <1>4 DEF Include

LEMMA PoolFiles ==
    ASSUME SliceInv, PoolInv, Files
    PROVE  PoolInv'
<1>1. CASE MergeNext \/ MergeDone \/ OpenFails \/ FilesDone
  <2>1. UNCHANGED <<jobs, elf, wg, q, leaving>> /\ pc # "spawn" /\ pc' # "spawn" /\ Settled
    BY <1>1 DEF MergeNext, MergeDone, OpenFails, FilesDone, pool, load, Settled
  <2> QED
    BY <2>1, PoolQuiet DEF PoolInv, SettledInv
<1>2. CASE OpenFile
  <2>1. /\ jobs' = <<>> /\ elf' = <<>> /\ UNCHANGED <<wg, q, leaving>>
        /\ pc = "open" /\ pc' = "read"
    BY <1>2 DEF OpenFile, NewMap
  <2>2. InStages(Pending) = {}
    BY <2>1 DEF PoolInv, SettledInv, Settled
  <2>3. InStages(Working) = {}
    BY <2>2 DEF InStages, Pending, Working
  <2>4. Count(Pending) = 0 /\ Count(Working) = 0
    BY <2>2, <2>3, FS_EmptySet DEF Count
  <2>5. \A A : InStages(A)' = {}
    BY <2>1 DEF InStages
  <2>6. \A A : Count(A)' = 0
    BY <2>5, FS_EmptySet DEF Count
  <2>7. CountInv'
    BY <2>1, <2>4, <2>6 DEF PoolInv, CountInv
  <2>8. StageInv' /\ SettledInv'
    BY <2>1, <2>5 DEF StageInv, SettledInv
  <2> QED
    BY <2>7, <2>8 DEF PoolInv
<1> QED
  BY <1>1, <1>2 DEF Files

LEMMA PoolStep ==
    ASSUME SliceInv, ControlInv, PoolInv, [Next]_vars
    PROVE  PoolInv'
<1>1. CASE Put \/ Terminated \/ UNCHANGED vars
  <2>1. UNCHANGED <<jobs, elf, wg, q, leaving, pc>>
    BY <1>1 DEF Put, Terminated, vars, pool, load
  <2>2. Settled' = Settled
    BY <2>1 DEF Settled
  <2> QED
    BY <2>1, <2>2, PoolQuiet DEF PoolInv, SettledInv
<1> QED
  BY <1>1, PoolLine, PoolAddElf, PoolSpawn, PoolGoroutine, PoolRelease, PoolInclude,
     PoolFiles DEF Next, MainThread

LEMMA PoolInit ==
    ASSUME Init
    PROVE  SliceInv /\ ControlInv /\ PoolInv
<1>1. SliceInv /\ ControlInv
  BY DEF Init, SliceInv, ControlInv, JobsOK, Values, MasksOK, LockOK, Heaps, IsSlice,
         NilSlice, Cap
<1>2. \A A : InStages(A) = {} /\ Count(A) = 0
  BY CountNone DEF Init, InStages
<1>3. Slots \in Nat
  BY BoundsAssumption DEF Slots
<1>4. CountInv /\ StageInv /\ SettledInv
  BY <1>2, <1>3 DEF Init, CountInv, StageInv, SettledInv
<1> QED
  BY <1>1, <1>4 DEF PoolInv

-----------------------------------------------------------------------------
(* The theorems *)

(* When the results are included, the list holds every job, once. *)
LEMMA AllRecorded ==
    ASSUME SliceInv, PoolInv
    PROVE  NoResultLost
<1>1. SUFFICES ASSUME Concurrent, pc \in {"results", "include", "libs", "merge"}
               PROVE  Len(elf) = Len(jobs) /\ ToSet(elf) = DOMAIN jobs
  BY DEF NoResultLost
<1>2. InStages(Pending) = {}
  BY <1>1 DEF PoolInv, SettledInv, Settled
<1>3. InStages(Recorded) = DOMAIN jobs
  BY <1>2 DEF PoolInv, StageInv, InStages, Pending, Recorded, Stages
<1>4. /\ DOMAIN jobs = 1..Len(jobs) /\ Len(jobs) \in Nat
      /\ elf \in Seq(DOMAIN jobs)
  BY DEF SliceInv, JobsOK, LockOK
<1>5. Cardinality(1..Len(jobs)) = Len(jobs)
  <2> DEFINE n == Len(jobs)
  <2>1. n \in Int
    BY <1>4
  <2> HIDE DEF n
  <2>2. Cardinality(1..n) = IF 1 > n THEN 0 ELSE n - 1 + 1
    BY <2>1, FS_Interval
  <2> QED
    BY <1>4, <2>2 DEF n
<1>6. Len(elf) = Len(jobs)
  BY <1>3, <1>4, <1>5 DEF PoolInv, CountInv, Count
<1>7. \A j \in DOMAIN jobs : j \in ToSet(elf)
  BY <1>3 DEF PoolInv, StageInv, InStages
<1>8. ToSet(elf) \subseteq DOMAIN jobs
  BY <1>4 DEF ToSet
<1> QED
  BY <1>6, <1>7, <1>8

(* No result of a goroutine is lost or included twice, however many there are
   and however their appends interleave (config/map.go:483-492, 505-519). *)
THEOREM ResultsComplete == Spec => []NoResultLost
<1>1. SliceInv /\ ControlInv /\ PoolInv /\ [Next]_vars
        => SliceInv' /\ ControlInv' /\ PoolInv'
  BY NextStep, ControlStep, PoolStep DEF Step
<1> QED
  BY <1>1, PoolInit, AllRecorded, PTL DEF Spec

(* The tokens in q are held by goroutines, over all files, and there are never
   more than Slots (config/map.go:468-473, 479-480, 493). *)
THEOREM TokensBounded == Spec => []WorkersBounded
<1>1. SliceInv /\ ControlInv /\ PoolInv /\ [Next]_vars
        => SliceInv' /\ ControlInv' /\ PoolInv'
  BY NextStep, ControlStep, PoolStep DEF Step
<1>2. SliceInv /\ PoolInv => WorkersBounded
  <2>1. PoolInv => {j \in InFlight : jobs[j].stage # "queued"} = InStages(Working)
    BY DEF PoolInv, StageInv, InFlight, InStages, Working, Stages
  <2> QED
    BY <2>1 DEF PoolInv, CountInv, Count, WorkersBounded
<1> QED
  BY <1>1, <1>2, PoolInit, PTL DEF Spec

(* With -elf.once no source is resolved twice: a line that starts a job is the
   first to reach its source, in this file and in those before it
   (config/map.go:584-599). *)
THEOREM SourcesResolvedOnce == Spec => ResolvedOnce
<1> DEFINE Once1 == Once => /\ elfAdded \subseteq elfAdded'
                            /\ \A j \in DOMAIN jobs' \ DOMAIN jobs :
                                  ElfSrc(jobs'[j].e) \in elfAdded' \ elfAdded
<1>1. ASSUME SliceInv, [Next]_vars PROVE Once1
  <2>1. CASE AddElf
    <3>1. CASE UNCHANGED jobs
      BY <2>1, <3>1 DEF AddElf
    <3>2. CASE ~UNCHANGED jobs
      <4> DEFINE e == Head(todo)
                 src == ElfSrc(e)
                 x == IF ElfExpand THEN Expansion[src] ELSE Unexpanded(src)
      <4>1. /\ NewJob(e, x.path) /\ ~(Once /\ src \in elfAdded)
            /\ elfAdded' = IF Once THEN elfAdded \cup {src} ELSE elfAdded
        BY <2>1, <3>2 DEF AddElf, Inline, pool
      <4> HIDE DEF x
      <4> DEFINE y == [e |-> e, src |-> x.path, mm |-> Snapshot(heap, mm).mm,
                       stage |-> "queued", at |-> 0]
      <4>2. jobs' = Append(jobs, y)
        BY <4>1 DEF NewJob
      <4>3. y.e = e
        OBVIOUS
      <4> HIDE DEF y
      <4>4. jobs \in Seq(Values(jobs) \cup {y}) /\ y \in Values(jobs) \cup {y}
        <5>1. jobs \in [1..Len(jobs) -> Values(jobs) \cup {y}] /\ Len(jobs) \in Nat
          BY <1>1 DEF SliceInv, JobsOK, Values
        <5> QED
          BY <5>1
      <4>5. DOMAIN jobs' = 1..(Len(jobs) + 1) /\ jobs'[Len(jobs) + 1] = y
            /\ DOMAIN jobs = 1..Len(jobs) /\ Len(jobs) \in Nat
        BY <4>2, <4>4
      <4>6. ASSUME NEW j \in DOMAIN jobs' \ DOMAIN jobs PROVE j = Len(jobs) + 1
        BY <4>5
      <4> QED
        BY <4>1, <4>3, <4>5, <4>6
    <3> QED
      BY <3>1, <3>2
  <2>2. CASE OpenFile
    BY <2>2 DEF OpenFile, NewMap
  <2>3. CASE Goroutines \/ Release
    <3>1. elfAdded' = elfAdded
      BY <2>3, GoroutineFrame DEF main
    <3>2. DOMAIN jobs' = DOMAIN jobs
      BY <2>3 DEF Goroutines, Goroutine, Lock, Record, Unlock, WgDone, Stage, Release
    <3> QED
      BY <3>1, <3>2
  <2>4. CASE Spawn
    BY <2>4 DEF Spawn, main
  <2>5. CASE ReadLine
    <3>1. jobs' = jobs
      BY <1>1, <2>5, LineFrame DEF pool
    <3>2. \A r : MaskLine(r) => elfAdded' = elfAdded
      BY DEF MaskLine, main
    <3>3. elfAdded' = elfAdded
      BY <2>5, <3>2 DEF ReadLine, ReadMask, ReadClear, ReadPlain, ReadRegularRel, ReadAuto,
         ReadRecursive, ReadGlob, ReadElf, ReadElfGlob, ReadElfLib, ReadElfPath,
         ReadError, EndOfFile, EntryLine, main
    <3> QED
      BY <3>1, <3>3
  <2>6. CASE Put \/ Include \/ MergeNext \/ MergeDone \/ OpenFails \/ FilesDone
             \/ Terminated \/ UNCHANGED vars
    BY <2>6 DEF Put, Include, Wait, NextResult, ResultsDone, IncludeMain, IncludeLib,
       LibsDone, MergeNext, MergeDone, OpenFails, FilesDone, Terminated, vars, main, pool
  <2> QED
    BY <1>1, <2>1, <2>2, <2>3, <2>4, <2>5, <2>6 DEF Next, MainThread, Files
<1>2. SliceInv /\ ControlInv /\ [Next]_vars => SliceInv' /\ ControlInv'
  BY NextStep, ControlStep DEF Step
<1>3. Init => SliceInv /\ ControlInv
  BY PoolInit
<1> QED
  BY <1>1, <1>2, <1>3, PTL DEF Spec, ResolvedOnce
=============================================================================
