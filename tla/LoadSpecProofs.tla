--------------------------- MODULE LoadSpecProofs ---------------------------
(***************************************************************************)
(* ConfigLoad keeps its types, merges every file whole, puts the results   *)
(* of -elf.concurrent above the other lines' entries, with one place in    *)
(* the channel those of a later line above those of an earlier one,        *)
(* applies renames and implements LoadSpec, for every value of its         *)
(* constants.  LoadInv is the inductive invariant of all (with InTurn for  *)
(* one place, with Unmoved for renames): the                               *)
(* invariants of the slices and of the pool (ConfigLoadProofs), what the   *)
(* slices show, the types of the rest of the state, what the map of all    *)
(* files holds, and what the result that is being included has still to    *)
(* put.                                                                    *)
(***************************************************************************)
EXTENDS ConfigLoadProofs

-----------------------------------------------------------------------------
(* Masks: the slices show the lists of LoadSpec. *)

Cells == Masks \cup {NoMask}

(* What a slice shows. *)
LEMMA EffIs ==
    ASSUME NEW h \in Heaps, NEW s, IsSlice(h, s)
    PROVE  /\ Eff(h, s) \in Seq(Cells)
           /\ Len(Eff(h, s)) = s.len /\ s.len \in Nat
           /\ \A i \in 1..s.len : Eff(h, s)[i] = h[s.arr][i]
<1>1. s.arr \in 0..Len(h) /\ s.len \in Nat /\ s.len <= Cap(h, s)
  BY DEF IsSlice
<1>2. CASE s.arr = 0
  BY <1>1, <1>2 DEF Cap, Eff
<1>3. CASE s.arr # 0
  <2>1. h[s.arr] \in Seq(Cells) /\ s.len <= Len(h[s.arr])
    BY <1>1, <1>3 DEF Heaps, Cells, Cap
  <2> QED
    BY <1>1, <1>3, <2>1 DEF Eff
<1> QED
  BY <1>2, <1>3

(* A list is what its slice shows. *)
LEMMA EffBy ==
    ASSUME NEW h \in Heaps, NEW s, IsSlice(h, s),
           NEW t \in Seq(Masks), Len(t) = s.len,
           \A i \in 1..s.len : h[s.arr][i] = t[i]
    PROVE  Eff(h, s) = t
<1>1. /\ Eff(h, s) \in Seq(Cells) /\ t \in Seq(Cells)
      /\ Len(Eff(h, s)) = Len(t) /\ \A i \in 1..Len(t) : Eff(h, s)[i] = t[i]
  BY EffIs DEF Cells
<1> QED
  BY <1>1

LEMMA AppendShows ==
    ASSUME NEW h \in Heaps, NEW s, IsSlice(h, s), Eff(h, s) \in Seq(Masks),
           NEW k \in Masks, NEW r, r = SliceAppend(h, s, k)
    PROVE  Eff(r.heap, r.mm) = Append(Eff(h, s), k)
<1> DEFINE t == Append(Eff(h, s), k)
<1>1. /\ s.len \in Nat /\ Len(Eff(h, s)) = s.len /\ s.arr \in 0..Len(h) /\ Len(h) \in Nat
      /\ \A i \in 1..s.len : Eff(h, s)[i] = h[s.arr][i]
      /\ s.len <= Cap(h, s) /\ Cap(h, s) \in Nat
  <2>1. /\ s.arr \in 0..Len(h) /\ Len(h) \in Nat /\ s.len <= Cap(h, s)
        /\ Cap(h, s) \in Nat
    BY DEF IsSlice, Heaps, Cap
  <2> QED
    BY <2>1, EffIs
<1>2. /\ t \in Seq(Masks) /\ Len(t) = s.len + 1 /\ t[s.len + 1] = k
      /\ \A i \in 1..s.len : t[i] = h[s.arr][i]
  BY <1>1
<1>3. r.heap \in Heaps /\ IsSlice(r.heap, r.mm)
  BY AppendConfined DEF Confined
<1>4. CASE s.len < Cap(h, s)
  <2>1. /\ s.arr \in 1..Len(h) /\ h[s.arr] \in Seq(Cells) /\ DOMAIN h = 1..Len(h)
        /\ s.len + 1 \in 1..Len(h[s.arr])
    BY <1>1, <1>4 DEF Cap, Heaps, Cells
  <2>2. r.heap[s.arr] = [h[s.arr] EXCEPT ![s.len + 1] = k]
    <3>1. r.heap = [h EXCEPT ![s.arr][s.len + 1] = k]
      BY <1>4 DEF SliceAppend
    <3> QED
      BY <2>1, <3>1
  <2>3. r.mm.arr = s.arr /\ r.mm.len = s.len + 1
    BY <1>4 DEF SliceAppend, IsSlice
  <2>4. \A i \in 1..r.mm.len : r.heap[r.mm.arr][i] = t[i]
    <3> DEFINE row == h[s.arr]
               new == r.heap[s.arr]
               n == s.len
    <3>1. /\ row \in Seq(Cells) /\ n \in Nat /\ n + 1 \in 1..Len(row)
          /\ new = [row EXCEPT ![n + 1] = k]
          /\ t[n + 1] = k /\ \A i \in 1..n : t[i] = row[i]
      BY <1>1, <1>2, <2>1, <2>2
    <3>2. r.mm.len = n + 1 /\ r.heap[r.mm.arr] = new
      BY <2>3
    <3> HIDE DEF row, new, n, t
    <3>3. \A i \in 1..(n + 1) : new[i] = t[i]
      BY <3>1
    <3> QED
      BY <3>2, <3>3
  <2> HIDE DEF t
  <2>5. Eff(r.heap, r.mm) = t
    BY <1>2, <1>3, <2>3, <2>4, EffBy
  <2> QED
    BY <2>5 DEF t
<1>5. CASE ~(s.len < Cap(h, s))
  <2>1. r.mm.arr = Len(h) + 1 /\ r.mm.len = s.len + 1 /\ r.heap = Append(h, Grown(h, s, k))
    BY <1>5 DEF SliceAppend
  <2>2. r.heap[Len(h) + 1] = Grown(h, s, k)
    <3>1. r.heap \in Seq(Seq(Cells)) /\ Len(r.heap) = Len(h) + 1
      BY <1>3, <2>1 DEF Heaps, Cells
    <3> QED
      BY <2>1, <3>1 DEF Heaps
  <2>3. \A i \in 1..(s.len + 1) : Grown(h, s, k)[i] = t[i]
    <3> DEFINE cap == IF Cap(h, s) = 0 THEN 1 ELSE 2 * Cap(h, s)
    <3>1. s.len + 1 <= cap /\ cap \in Nat
      BY <1>1, <1>5
    <3> HIDE DEF cap
    <3>2. Grown(h, s, k) = [i \in 1..cap |-> IF i <= s.len THEN h[s.arr][i]
                                             ELSE IF i = s.len + 1 THEN k ELSE NoMask]
      BY DEF Grown, cap
    <3> HIDE DEF t
    <3> QED
      BY <1>1, <1>2, <3>1, <3>2
  <2> HIDE DEF t
  <2>4. \A i \in 1..r.mm.len : r.heap[r.mm.arr][i] = t[i]
    BY <2>1, <2>2, <2>3
  <2>5. Eff(r.heap, r.mm) = t
    <3> DEFINE H == r.heap
               S == r.mm
    <3>1. /\ H \in Heaps /\ IsSlice(H, S) /\ Len(t) = S.len
          /\ \A i \in 1..S.len : H[S.arr][i] = t[i]
      BY <1>2, <1>3, <2>1, <2>4
    <3> HIDE DEF H, S
    <3>2. Eff(H, S) = t
      BY <1>2, <3>1, EffBy
    <3> QED
      BY <3>2 DEF H, S
  <2> QED
    BY <2>5 DEF t
<1> QED
  BY <1>4, <1>5

(* A mask line does to the slice what Set does to the list. *)
LEMMA SetShows ==
    ASSUME NEW h \in Heaps, NEW s, IsSlice(h, s), Eff(h, s) \in Seq(Masks),
           NEW l \in [mask : Masks, last : BOOLEAN, idx : Int],
           NEW r, r = MaskSet(h, s, l)
    PROVE  /\ Eff(r.heap, r.mm) = Abstract!Set(Eff(h, s), l)
           /\ Eff(r.heap, r.mm) \in Seq(Masks)
<1>1. /\ s.len \in Nat /\ Len(Eff(h, s)) = s.len /\ s.arr \in 0..Len(h) /\ l.idx \in Int
      /\ \A i \in 1..s.len : Eff(h, s)[i] = h[s.arr][i]
      /\ s.len <= Cap(h, s) /\ l.mask \in Masks
  BY EffIs DEF IsSlice
<1>2. CASE l.last \/ l.idx = s.len
  <2>1. r = SliceAppend(h, s, l.mask) /\ Abstract!Set(Eff(h, s), l) = Append(Eff(h, s), l.mask)
    BY <1>1, <1>2 DEF MaskSet, Abstract!Set
  <2>2. Eff(r.heap, r.mm) = Append(Eff(h, s), l.mask)
    BY <1>1, <2>1, AppendShows
  <2> QED
    BY <1>1, <2>1, <2>2
<1>3. CASE ~(l.last \/ l.idx = s.len) /\ (l.idx < 0 \/ l.idx > s.len)
  <2>1. l.idx \notin 0..(s.len - 1)
    BY <1>1, <1>3
  <2> QED
    BY <1>1, <1>3, <2>1 DEF MaskSet, Rejected, Abstract!Set
<1>4. CASE ~(l.last \/ l.idx = s.len) /\ ~(l.idx < 0 \/ l.idx > s.len)
  <2> DEFINE t == [Eff(h, s) EXCEPT ![l.idx + 1] = l.mask]
  <2>1. l.idx \in 0..(s.len - 1) /\ l.idx + 1 \in 1..s.len
    BY <1>1, <1>4
  <2>2. Abstract!Set(Eff(h, s), l) = t
    BY <1>1, <1>4, <2>1 DEF Abstract!Set
  <2>3. /\ s.arr \in 1..Len(h) /\ h[s.arr] \in Seq(Cells) /\ DOMAIN h = 1..Len(h)
        /\ l.idx + 1 \in 1..Len(h[s.arr])
    BY <1>1, <2>1 DEF Cap, Heaps, Cells
  <2>4. r.heap[s.arr] = [h[s.arr] EXCEPT ![l.idx + 1] = l.mask] /\ r.mm = s
    <3>1. r.heap = [h EXCEPT ![s.arr][l.idx + 1] = l.mask] /\ r.mm = s
      BY <1>4 DEF MaskSet
    <3> QED
      BY <2>3, <3>1
  <2>5. r.heap \in Heaps /\ IsSlice(r.heap, r.mm)
    BY SetConfined DEF Confined
  <2>6. t \in Seq(Masks) /\ Len(t) = s.len
        /\ \A i \in 1..s.len : t[i] = IF i = l.idx + 1 THEN l.mask ELSE Eff(h, s)[i]
    BY <1>1, <2>1
  <2> HIDE DEF t
  <2>7. \A i \in 1..s.len : r.heap[s.arr][i] = t[i]
    <3>1. ASSUME NEW i \in 1..s.len PROVE [h[s.arr] EXCEPT ![l.idx + 1] = l.mask][i] = t[i]
      <4>1. i \in 1..Len(h[s.arr]) /\ h[s.arr][i] = Eff(h, s)[i]
        BY <1>1, <2>3 DEF Cap
      <4>2. t[i] = IF i = l.idx + 1 THEN l.mask ELSE h[s.arr][i]
        BY <2>6, <4>1
      <4> QED
        BY <2>3, <4>1, <4>2
    <3> QED
      BY <2>4, <3>1
  <2>8. Eff(r.heap, r.mm) = t
    <3> DEFINE H == r.heap
    <3>1. /\ H \in Heaps /\ IsSlice(H, s) /\ Len(t) = s.len
          /\ \A i \in 1..s.len : H[s.arr][i] = t[i]
      BY <2>4, <2>5, <2>6, <2>7
    <3> HIDE DEF H
    <3>2. Eff(H, s) = t
      BY <2>6, <3>1, EffBy
    <3> QED
      BY <2>4, <3>2 DEF H
  <2> QED
    BY <2>2, <2>8, <2>6
<1> QED
  BY <1>2, <1>3, <1>4

(* The list without its element i + 1. *)
Without(t, i) == SubSeq(t, 1, i) \o SubSeq(t, i + 2, Len(t))

LEMMA CutOut ==
    ASSUME NEW t \in Seq(Masks), NEW n \in Nat, Len(t) = n, NEW i \in Nat, i < n
    PROVE  /\ Without(t, i) \in Seq(Masks) /\ Len(Without(t, i)) = n - 1
           /\ \A j \in 1..(n - 1) : Without(t, i)[j] = IF j <= i THEN t[j] ELSE t[j + 1]
<1> DEFINE a == SubSeq(t, 1, i)
           b == SubSeq(t, i + 2, n)
           k == n - i - 1
<1>1. a \in Seq(Masks) /\ Len(a) = i /\ \A j \in 1..i : a[j] = t[j]
  OBVIOUS
<1>2. b \in Seq(Masks) /\ Len(b) = k
      /\ \A j \in 1..k : b[j] = t[j + i + 1]
  <2>1. CASE i = n - 1
    BY <2>1
  <2>2. CASE i # n - 1
    BY <2>2
  <2> QED
    BY <2>1, <2>2
<1>3. k \in Nat /\ i + k = n - 1
  OBVIOUS
<1>4. Without(t, i) = a \o b
  BY DEF Without
<1> HIDE DEF a, b, k
<1>5. /\ a \o b \in Seq(Masks) /\ Len(a \o b) = i + k
      /\ \A j \in 1..(i + k) : (a \o b)[j] = IF j <= i THEN a[j] ELSE b[j - i]
  BY <1>1, <1>2, <1>3
<1>6. ASSUME NEW j \in 1..(n - 1) PROVE (a \o b)[j] = IF j <= i THEN t[j] ELSE t[j + 1]
  <2>1. CASE j <= i
    BY <1>1, <1>3, <1>5, <2>1
  <2>2. CASE ~(j <= i)
    <3>1. j - i \in 1..k /\ (j - i) + i + 1 = j + 1
      BY <1>3, <2>2
    <3>2. b[j - i] = t[(j - i) + i + 1]
      BY <1>2, <3>1
    <3> QED
      BY <1>3, <1>5, <2>2, <3>1, <3>2
  <2> QED
    BY <2>1, <2>2
<1> QED
  BY <1>3, <1>4, <1>5, <1>6

(* A clear line does to the slice what Clear does to the list. *)
LEMMA ClearShows ==
    ASSUME NEW h \in Heaps, NEW s, IsSlice(h, s), Eff(h, s) \in Seq(Masks),
           NEW l \in [all : BOOLEAN, idx : Int],
           NEW r, r = MaskDel(h, s, l)
    PROVE  /\ Eff(r.heap, r.mm) = Abstract!Clear(Eff(h, s), l)
           /\ Eff(r.heap, r.mm) \in Seq(Masks)
<1> DEFINE old == Eff(h, s)
           H == r.heap
           S == r.mm
<1>1. /\ s.len \in Nat /\ Len(old) = s.len /\ s.arr \in 0..Len(h) /\ l.idx \in Int
      /\ \A i \in 1..s.len : old[i] = h[s.arr][i]
      /\ s.len <= Cap(h, s)
  BY EffIs DEF IsSlice
<1>2. H \in Heaps /\ IsSlice(H, S)
  BY DelConfined DEF Confined
<1>3. CASE H = h /\ S = s /\ Abstract!Clear(old, l) = old
  BY <1>3
<1>4. ASSUME NEW n \in 0..s.len, H = h, S = [s EXCEPT !.len = n],
             Abstract!Clear(old, l) = SubSeq(old, 1, n)
      PROVE  Eff(H, S) = Abstract!Clear(old, l) /\ Eff(H, S) \in Seq(Masks)
  <2> DEFINE t == SubSeq(old, 1, n)
  <2>1. S.arr = s.arr /\ S.len = n
    BY <1>4 DEF IsSlice
  <2>2. t \in Seq(Masks) /\ Len(t) = n /\ \A i \in 1..n : t[i] = old[i]
    BY <1>1
  <2> HIDE DEF H, S, t, old
  <2>3. ASSUME NEW i \in 1..S.len PROVE H[S.arr][i] = t[i]
    <3>1. i \in 1..n /\ i \in 1..s.len
      BY <1>1, <2>1
    <3> QED
      BY <1>1, <1>4, <2>1, <2>2, <3>1
  <2>4. Eff(H, S) = t
    BY <1>2, <2>1, <2>2, <2>3, EffBy
  <2> QED
    BY <1>4, <2>2, <2>4 DEF t, H, S, old
<1>5. CASE l.all
  <2>1. H = h /\ S = [s EXCEPT !.len = 0]
    BY <1>5 DEF MaskDel
  <2>2. Abstract!Clear(old, l) = SubSeq(old, 1, 0)
    BY <1>5 DEF Abstract!Clear
  <2> QED
    BY <1>1, <1>4, <2>1, <2>2
<1>6. CASE ~l.all /\ l.idx < 0
  <2>1. l.idx \notin 0..(Len(old) - 1)
    BY <1>1, <1>6
  <2>2. CASE s.len < 1 \/ s.len + l.idx < 0
    <3>1. H = h /\ S = s
      BY <1>6, <2>2 DEF MaskDel, Rejected
    <3>2. ~(Len(old) + l.idx >= 0)
      BY <1>1, <1>6, <2>2
    <3>3. Abstract!Clear(old, l) = old
      BY <1>6, <2>1, <3>2 DEF Abstract!Clear
    <3> QED
      BY <1>3, <3>1, <3>3
  <2>3. CASE ~(s.len < 1 \/ s.len + l.idx < 0)
    <3>1. H = h /\ S = [s EXCEPT !.len = s.len + l.idx]
      BY <1>6, <2>3 DEF MaskDel
    <3>2. s.len + l.idx \in 0..s.len /\ Len(old) + l.idx >= 0
      BY <1>1, <1>6, <2>3
    <3>3. Abstract!Clear(old, l) = SubSeq(old, 1, s.len + l.idx)
      BY <1>1, <1>6, <2>1, <3>2 DEF Abstract!Clear
    <3> QED
      BY <1>4, <3>1, <3>2, <3>3
  <2> QED
    BY <2>2, <2>3
<1>7. CASE ~l.all /\ l.idx >= s.len
  <2>1. l.idx \notin 0..(Len(old) - 1) /\ ~(l.idx < 0)
    BY <1>1, <1>7
  <2>2. H = h /\ S = s
    BY <1>7, <2>1 DEF MaskDel, Rejected
  <2>3. Abstract!Clear(old, l) = old
    BY <1>7, <2>1 DEF Abstract!Clear
  <2> QED
    BY <1>3, <2>2, <2>3
<1>8. CASE ~l.all /\ ~(l.idx < 0) /\ ~(l.idx >= s.len)
  <2> DEFINE t == Abstract!Clear(old, l)
  <2>1. l.idx \in 0..(Len(old) - 1) /\ l.idx \in Nat /\ l.idx < s.len
    BY <1>1, <1>8
  <2>2. t = Without(old, l.idx)
    BY <1>8, <2>1 DEF Abstract!Clear, Without
  <2>3. /\ t \in Seq(Masks) /\ Len(t) = s.len - 1
        /\ \A j \in 1..(s.len - 1) : t[j] = IF j <= l.idx THEN old[j] ELSE old[j + 1]
    <3> HIDE DEF t
    <3>1. old \in Seq(Masks)
      OBVIOUS
    <3> DEFINE i == l.idx
               n == s.len
    <3>2. n \in Nat /\ Len(old) = n /\ i \in Nat /\ i < n
      BY <1>1, <2>1
    <3> HIDE DEF old, i, n
    <3>3. /\ Without(old, i) \in Seq(Masks) /\ Len(Without(old, i)) = n - 1
          /\ \A j \in 1..(n - 1) : Without(old, i)[j] = IF j <= i THEN old[j] ELSE old[j + 1]
      BY <3>1, <3>2, CutOut
    <3> QED
      BY <2>2, <3>3 DEF i, n
  <2>4. /\ s.arr \in 1..Len(h) /\ DOMAIN h = 1..Len(h) /\ h[s.arr] \in Seq(Cells)
        /\ s.len <= Len(h[s.arr])
    BY <1>1, <2>1 DEF Cap, Heaps, Cells
  <2>5. H = [h EXCEPT ![s.arr] = Shifted(h[s.arr], l.idx + 1, s.len)]
        /\ S = [s EXCEPT !.len = s.len - 1]
    BY <1>8 DEF MaskDel
  <2>6. H[s.arr] = Shifted(h[s.arr], l.idx + 1, s.len)
    BY <2>4, <2>5
  <2>7. S.arr = s.arr /\ S.len = s.len - 1
    BY <2>5 DEF IsSlice
  <2>8. ASSUME NEW j \in 1..(s.len - 1) PROVE H[s.arr][j] = t[j]
    <3> HIDE DEF H, S, t
    <3>1. j \in DOMAIN h[s.arr] /\ j < s.len /\ j \in 1..s.len /\ j + 1 \in 1..s.len
      BY <1>1, <2>4
    <3>2. H[s.arr][j] = IF l.idx + 1 <= j THEN h[s.arr][j + 1] ELSE h[s.arr][j]
      BY <2>6, <3>1 DEF Shifted
    <3>3. l.idx + 1 <= j <=> ~(j <= l.idx)
      BY <2>1
    <3>4. h[s.arr][j] = old[j] /\ h[s.arr][j + 1] = old[j + 1]
      BY <1>1, <3>1
    <3> HIDE DEF old
    <3> QED
      BY <2>3, <3>2, <3>3, <3>4
  <2> HIDE DEF H, S, t, old
  <2>9. \A i \in 1..S.len : H[S.arr][i] = t[i]
    BY <2>7, <2>8
  <2>10. Eff(H, S) = t
    BY <1>2, <2>3, <2>7, <2>9, EffBy
  <2> QED
    BY <2>3, <2>10 DEF t, H, S, old
<1> QED
  BY <1>1, <1>5, <1>6, <1>7, <1>8

-----------------------------------------------------------------------------
(* Types: what the operators of the lines give. *)

(* The entries of ELF lines, whose sources and library paths are looked up. *)
ElfEntry == {e \in Entry : e.src \in Texts /\ e.lib \in LibPaths}
(* The entries that are put: none is of a type that masks leave alone. *)
OwnEntry == {e \in Entry : e.type \notin Exempt}
Queued == [e : OwnEntry, masked : BOOLEAN]
Owner == STRING \cup {NoOwn}

LEMMA MaskKeeps ==
    ASSUME NEW k \in Masks, NEW e \in Entry
    PROVE  /\ MaskFunc(k, e) \in Entry
           /\ e \in ElfEntry => MaskFunc(k, e) \in ElfEntry
<1> DEFINE d == MaskDef[k]
<1>1. /\ d.kind = "mr" => d.to \in [d.re -> Seq(STRING)]
      /\ d.kind = "mm" => d.own \in STRING
      /\ d.kind = "mt" => d.time \in Nat
  BY EntriesAssumption
<1>2. d.kind = "ml" => d.lib \in LibPaths /\ d.lib \in STRING
  BY EntriesAssumption DEF LibPaths
<1> HIDE DEF d
<1>3. \/ MaskFunc(k, e) = e
      \/ e.dst \in d.re /\ d.kind = "mr" /\ MaskFunc(k, e) = [e EXCEPT !.dst = d.to[e.dst]]
      \/ d.kind = "mm" /\ MaskFunc(k, e) = [e EXCEPT !.own = d.own]
      \/ d.kind = "mt" /\ MaskFunc(k, e) = [e EXCEPT !.time = d.time]
      \/ d.kind = "ml" /\ MaskFunc(k, e) = [e EXCEPT !.lib = d.lib]
  BY DEF MaskFunc, d
<1>4. CASE MaskFunc(k, e) = e
  BY <1>4
<1>5. CASE /\ e.dst \in d.re /\ d.kind = "mr"
           /\ MaskFunc(k, e) = [e EXCEPT !.dst = d.to[e.dst]]
  BY <1>1, <1>5 DEF Entry, ElfEntry
<1>6. CASE d.kind = "mm" /\ MaskFunc(k, e) = [e EXCEPT !.own = d.own]
  BY <1>1, <1>6 DEF Entry, ElfEntry
<1>7. CASE d.kind = "mt" /\ MaskFunc(k, e) = [e EXCEPT !.time = d.time]
  BY <1>1, <1>7 DEF Entry, ElfEntry
<1>8. CASE d.kind = "ml" /\ MaskFunc(k, e) = [e EXCEPT !.lib = d.lib]
  BY <1>2, <1>8 DEF Entry, ElfEntry
<1> QED
  BY <1>3, <1>4, <1>5, <1>6, <1>7, <1>8

LEMMA MaskedTyped ==
    ASSUME NEW s \in Seq(Masks), NEW e \in Entry
    PROVE  /\ ApplyMasks(s, e) \in [e : Entry, drop : BOOLEAN]
           /\ e \in ElfEntry => ApplyMasks(s, e) \in [e : ElfEntry, drop : BOOLEAN]
<1>1. ApplyMasks(s, e) \in [e : Entry, drop : BOOLEAN]
  BY MaskKeeps, MasksTyped
<1>2. ASSUME e \in ElfEntry PROVE ApplyMasks(s, e) \in [e : ElfEntry, drop : BOOLEAN]
  <2>1. \A k \in Masks, x \in ElfEntry : MaskFunc(k, x) \in ElfEntry
    BY MaskKeeps DEF ElfEntry
  <2> QED
    BY <1>2, <2>1, MasksTyped
<1> QED
  BY <1>1, <1>2

LEMMA EntryTyped ==
    ASSUME NEW type \in STRING, NEW src \in STRING, NEW dst \in Seq(STRING), NEW own \in STRING
    PROVE  /\ MkEntry(type, src, dst, own) \in Entry
           /\ src \in Texts => MkEntry(type, src, dst, own) \in ElfEntry
BY EntriesAssumption DEF MkEntry, Entry, ElfEntry, LibPaths

(* Masks change no type. *)
LEMMA MaskedType ==
    ASSUME NEW s \in Seq(Masks), NEW e \in Entry
    PROVE  ApplyMasks(s, e).e.type = e.type
<1> DEFINE T == {x \in Entry : x.type = e.type}
<1>1. \A k \in Masks, x \in Entry : MaskFunc(k, x).type = x.type
  BY DEF MaskFunc, Entry
<1>2. \A k \in Masks, x \in T : MaskFunc(k, x) \in T
  BY <1>1, MaskKeeps
<1>3. e \in T
  OBVIOUS
<1> HIDE DEF T
<1>4. ApplyMasks(s, e) \in [e : T, drop : BOOLEAN]
  BY <1>2, <1>3, MasksTyped
<1> QED
  BY <1>4 DEF T

LEMMA OwnSeq == Seq(OwnEntry) \subseteq Seq(Entry) /\ Seq(Queued) \subseteq Seq([e : Entry, masked : BOOLEAN])
<1>1. OwnEntry \subseteq Entry /\ Queued \subseteq [e : Entry, masked : BOOLEAN]
  BY DEF OwnEntry, Queued
<1>2. \A S, T : S \subseteq T => Seq(S) \subseteq Seq(T)
  OBVIOUS
<1> QED
  BY <1>1, <1>2

LEMMA ElementTyped ==
    ASSUME NEW S, NEW s \in Seq(S), NEW i \in DOMAIN s
    PROVE  s[i] \in S
OBVIOUS

LEMMA LinksTyped ==
    ASSUME NEW x \in Followed
    PROVE  Links(x) \in Seq(OwnEntry)
<1> DEFINE ls == x.links
<1>1. ls \in Seq([dst : Seq(STRING), to : STRING])
  BY DEF Followed
<1> HIDE DEF ls
<1>2. ASSUME NEW i \in DOMAIN ls PROVE Link(ls[i]) \in OwnEntry
  <2> DEFINE k == ls[i]
  <2>1. k \in [dst : Seq(STRING), to : STRING]
    BY <1>1, ElementTyped
  <2> HIDE DEF k
  <2>2. k.to \in STRING /\ k.dst \in Seq(STRING)
    BY <2>1
  <2>3. DefaultOwn \in STRING
    BY EntriesAssumption
  <2>4. Link(k) \in Entry
    <3>1. "l" \in STRING
      BY TypesAssumption
    <3>2. \A to \in STRING, dst \in Seq(STRING) : MkEntry("l", to, dst, DefaultOwn) \in Entry
      BY <2>3, <3>1, EntryTyped
    <3> QED
      BY <2>2, <3>2 DEF Link
  <2>5. Link(k).type \notin Exempt
    BY DEF Link, MkEntry, Exempt
  <2> QED
    BY <2>4, <2>5 DEF k, OwnEntry
<1>3. Links(x) \in [1..Len(ls) -> OwnEntry] /\ Len(ls) \in Nat
  BY <1>1, <1>2 DEF Links, ls
<1> QED
  BY <1>3

LEMMA AddedTyped ==
    ASSUME NEW es \in Seq(OwnEntry)
    PROVE  Added(es) \in Seq(Queued)
<1>1. ASSUME NEW i \in DOMAIN es PROVE [e |-> es[i], masked |-> FALSE] \in Queued
  BY DEF Queued
<1>2. Added(es) \in [1..Len(es) -> Queued] /\ Len(es) \in Nat
  BY <1>1 DEF Added
<1> QED
  BY <1>2

LEMMA AutoTyped ==
    ASSUME NEW path \in Texts, NEW dst \in Seq(STRING), NEW own \in Owner, AutoOk(path)
    PROVE  AutoEntry(path, dst, own) \in OwnEntry
<1> DEFINE st == Stat[path]
<1>1. st.kind \in STRING /\ st.own \in STRING /\ st.link \in STRING /\ path \in STRING
  BY SystemAssumption
<1>2. \E type \in STRING, src \in STRING, o \in STRING :
         AutoEntry(path, dst, own) = MkEntry(type, src, dst, o)
  BY <1>1 DEF AutoEntry, Owner
<1>3. AutoEntry(path, dst, own).type \in {"f", "d", "l"}
  BY DEF AutoEntry, MkEntry, AutoOk
<1> QED
  BY <1>2, <1>3, EntryTyped DEF OwnEntry, Exempt

LEMMA UnexpandedTyped ==
    ASSUME NEW path \in Texts
    PROVE  Unexpanded(path) \in Followed
BY DEF Unexpanded, Followed

LEMMA FollowedTyped ==
    ASSUME NEW n \in Texts
    PROVE  /\ Expansion[n] \in Followed /\ Follow[n] \in Followed
           /\ Expansion[n].path \in Texts /\ Follow[n].path \in Texts
           /\ InPrefix[n] \in Texts /\ TrimSrc[n] \in Texts
           /\ CleanDst[n] \in Seq(STRING) /\ TrimDst(n) \in Seq(STRING)
           /\ n \in STRING
<1>1. /\ Expansion[n] \in Followed /\ Follow[n] \in Followed
      /\ InPrefix[n] \in Texts /\ TrimSrc[n] \in Texts
      /\ CleanDst[n] \in Seq(STRING) /\ n \in STRING
  BY SystemAssumption
<1>2. CleanDst[TrimSrc[n]] \in Seq(STRING)
  BY <1>1, SystemAssumption
<1>3. Expansion[n].path \in Texts /\ Follow[n].path \in Texts
  BY <1>1 DEF Followed
<1> QED
  BY <1>1, <1>2, <1>3 DEF TrimDst

LEMMA LookupTyped ==
    ASSUME NEW type, NEW srcs \in Seq(Texts), srcs # <<>>
    PROVE  Lookup(type, srcs) \in [ok : BOOLEAN, none : BOOLEAN, src : Texts]
<1> DEFINE x(i) == IF type \in LookupAsIs THEN Follow[srcs[i]] ELSE Expansion[InPrefix[srcs[i]]]
           found == {i \in DOMAIN srcs : x(i).ok}
           i0 == IF found = {} THEN Len(srcs) ELSE Min(found)
<1>1. DOMAIN srcs = 1..Len(srcs) /\ Len(srcs) \in Nat /\ Len(srcs) # 0
  OBVIOUS
<1>2. i0 \in DOMAIN srcs
  <2>1. found \subseteq DOMAIN srcs /\ found \subseteq Nat
    BY <1>1
  <2>2. CASE found = {}
    BY <1>1, <2>2
  <2>3. CASE found # {}
    <3> HIDE DEF found
    <3>1. Min(found) \in found
      BY <2>1, <2>3, MinIs
    <3> QED
      BY <2>1, <2>3, <3>1
  <2> QED
    BY <2>2, <2>3
<1> HIDE DEF i0
<1>3. srcs[i0] \in Texts
  BY <1>2
<1>4. x(i0) \in Followed
  BY <1>3, FollowedTyped
<1>5. Lookup(type, srcs) = [ok |-> x(i0).ok, none |-> x(i0).none,
                           src |-> IF type \in LookupAsIs THEN x(i0).path
                                   ELSE TrimSrc[x(i0).path]]
  BY DEF Lookup, i0
<1> HIDE DEF x
<1>6. x(i0).ok \in BOOLEAN /\ x(i0).none \in BOOLEAN /\ x(i0).path \in Texts
  BY <1>4 DEF Followed
<1>7. TrimSrc[x(i0).path] \in Texts
  BY <1>6, FollowedTyped
<1> QED
  BY <1>5, <1>6, <1>7

LEMMA SourceTyped ==
    ASSUME NEW l \in SourceLine
    PROVE  Source(l) \in [ok : BOOLEAN, none : BOOLEAN, src : Texts]
<1>1. l.alts \in Seq(Texts) /\ l.src \in Texts
  BY DEF SourceLine
<1>2. <<l.src>> \in Seq(Texts) /\ <<l.src>> # <<>>
  BY <1>1
<1> QED
  BY <1>1, <1>2, LookupTyped DEF Source

LEMMA LineTyped ==
    ASSUME NEW l \in SourceLine, InForce \in Seq(Masks)
    PROVE  /\ Masked(l) \in [e : ElfEntry, drop : BOOLEAN] /\ Masked(l).e.type = l.type
           /\ \E x \in ElfEntry : x.type = l.type /\ Masked(l) = ApplyMasks(InForce, x)
<1> DEFINE src == Source(l).src
           e == [LineEntry(l) EXCEPT !.src = src]
           f == [e EXCEPT !.dst = CleanDst[src]]
<1>1. src \in Texts
  BY SourceTyped
<1>2. LineEntry(l) \in ElfEntry
  <2>1. /\ l.type \in STRING /\ l.src \in Texts /\ l.dst \in Seq(STRING)
        /\ l.own = NoOwn \/ l.own \in STRING
    BY DEF SourceLine
  <2>2. l.src \in STRING /\ DefaultOwn \in STRING
    BY <2>1, SystemAssumption, EntriesAssumption
  <2> QED
    BY <2>1, <2>2, EntryTyped DEF LineEntry
<1>3. CleanDst[src] \in Seq(STRING) /\ src \in STRING
  BY <1>1, FollowedTyped
<1> HIDE DEF src
<1>4. e \in ElfEntry
  BY <1>1, <1>2, <1>3 DEF Entry, ElfEntry
<1>5. f \in ElfEntry
  BY <1>3, <1>4 DEF Entry, ElfEntry
<1>6. Masked(l) = ApplyMasks(InForce, IF l.alts # <<>> /\ ~l.dstSet THEN f ELSE e)
  BY DEF Masked, src
<1>8. e.type = l.type /\ f.type = l.type
  BY DEF LineEntry, MkEntry
<1> HIDE DEF e, f
<1>7. \A x \in ElfEntry : /\ ApplyMasks(InForce, x) \in [e : ElfEntry, drop : BOOLEAN]
                          /\ ApplyMasks(InForce, x).e.type = x.type
  BY MaskedTyped, MaskedType DEF ElfEntry
<1> QED
  BY <1>4, <1>5, <1>6, <1>7, <1>8

-----------------------------------------------------------------------------
(* What becomes of a line. *)

Outcomes == [ok : BOOLEAN, pend : Seq(Queued), todo : Seq(ElfEntry)]

LEMMA FailsTyped == Fails \in Outcomes
BY DEF Fails, Outcomes

LEMMA PutsTyped ==
    ASSUME NEW es \in Seq(Queued)
    PROVE  Puts(es) \in Outcomes
BY DEF Puts, Outcomes

LEMMA PassesOnTyped ==
    ASSUME NEW es \in Seq(ElfEntry)
    PROVE  PassesOn(es) \in Outcomes
BY DEF PassesOn, Outcomes

LEMMA AsIsTyped ==
    ASSUME NEW e \in OwnEntry
    PROVE  AsIs(e) \in Seq(Queued)
BY DEF AsIs, Queued

LEMMA PlainTyped ==
    ASSUME NEW l, NEW e \in ElfEntry, e.type \notin Exempt
    PROVE  Plain(l, e) \in Outcomes
<1>1. e \in OwnEntry
  BY DEF ElfEntry, OwnEntry
<1> QED
  BY <1>1, AsIsTyped, PutsTyped DEF Plain

(* The destination of an expanded file. *)
LEMMA RegularRelTyped ==
    ASSUME NEW l \in SourceLine, NEW e \in ElfEntry
    PROVE  RegularRel(l, e) \in Outcomes
<1> DEFINE p == InPrefix[e.src]
           x == IF FileExpand THEN Expansion[p] ELSE Unexpanded(p)
           dst == IF FileExpand /\ ~l.dstSet THEN TrimDst(x.path) ELSE e.dst
           f == [e EXCEPT !.type = "f", !.src = x.path, !.dst = dst]
<1>1. p \in Texts
  BY FollowedTyped DEF ElfEntry
<1> HIDE DEF p
<1>2. x \in Followed
  BY <1>1, FollowedTyped, UnexpandedTyped
<1> HIDE DEF x
<1>3. x.path \in Texts
  BY <1>2 DEF Followed
<1>4. TrimDst(x.path) \in Seq(STRING) /\ x.path \in STRING
  BY <1>3, FollowedTyped
<1>5. dst \in Seq(STRING)
  BY <1>4 DEF ElfEntry, Entry
<1> HIDE DEF dst
<1>6. f \in Entry
  <2> DEFINE y == [e EXCEPT !.type = "f"]
             z == [y EXCEPT !.src = x.path]
  <2>1. y \in Entry
    <3>1. e \in Entry /\ "f" \in STRING
      BY TypesAssumption DEF ElfEntry
    <3> QED
      BY <3>1 DEF Entry
  <2>2. z \in Entry
    <3> HIDE DEF y
    <3> QED
      BY <1>4, <2>1 DEF Entry
  <2>3. f = [z EXCEPT !.dst = dst]
    OBVIOUS
  <2> HIDE DEF f, y, z
  <2> QED
    BY <1>5, <2>2, <2>3 DEF Entry
<1>10. f.type = "f"
  BY DEF ElfEntry, Entry
<1> HIDE DEF f
<1>11. f \in OwnEntry
  BY <1>6, <1>10 DEF OwnEntry, Exempt
<1>7. AsIs(f) \in Seq(Queued) /\ Added(Links(x)) \in Seq(Queued)
  BY <1>2, <1>11, LinksTyped, AddedTyped, AsIsTyped
<1>8. Added(Links(x)) \o AsIs(f) \in Seq(Queued)
  BY <1>7
<1>9. RegularRel(l, e) = IF x.ok THEN Puts(Added(Links(x)) \o AsIs(f)) ELSE Fails
  BY DEF RegularRel, f, dst, x, p
<1> QED
  BY <1>8, <1>9, PutsTyped, FailsTyped

LEMMA AutoFileTyped ==
    ASSUME NEW l \in SourceLine, NEW e \in ElfEntry
    PROVE  AutoFile(l, e) \in Outcomes
<1> DEFINE rel == l.type = "ar"
           p == IF rel THEN InPrefix[e.src] ELSE e.src
           x == IF rel /\ FileExpand THEN Expansion[p] ELSE Unexpanded(p)
           dst == IF rel /\ FileExpand /\ ~l.dstSet THEN TrimDst(x.path) ELSE e.dst
           f == AutoEntry(x.path, dst, l.own)
<1>1. p \in Texts /\ l.own \in Owner
  BY FollowedTyped DEF ElfEntry, SourceLine, Owner
<1> HIDE DEF p
<1>2. x \in Followed
  BY <1>1, FollowedTyped, UnexpandedTyped
<1> HIDE DEF x
<1>3. x.path \in Texts
  BY <1>2 DEF Followed
<1>4. TrimDst(x.path) \in Seq(STRING)
  BY <1>3, FollowedTyped
<1>5. dst \in Seq(STRING)
  BY <1>4 DEF ElfEntry, Entry
<1> HIDE DEF dst
<1>6. AutoOk(x.path) => f \in OwnEntry
  BY <1>1, <1>3, <1>5, AutoTyped
<1> HIDE DEF f
<1>7. AutoOk(x.path) => Append(Links(x), f) \in Seq(OwnEntry)
  BY <1>2, <1>6, LinksTyped
<1>8. AutoOk(x.path) => Added(Append(Links(x), f)) \in Seq(Queued)
  BY <1>7, AddedTyped
<1>9. AutoFile(l, e) = IF x.ok /\ AutoOk(x.path) THEN Puts(Added(Append(Links(x), f)))
                       ELSE Fails
  BY DEF AutoFile, f, dst, x, p
<1> QED
  BY <1>8, <1>9, PutsTyped, FailsTyped

(* A file of a listing gets a destination below the line's, or its own. *)
LEMMA ListedTyped ==
    ASSUME NEW files \in Listing, NEW i \in DOMAIN files, NEW e \in ElfEntry
    PROVE  /\ files[i].file \in Texts /\ files[i].rel \in Seq(STRING)
           /\ e.dst \o files[i].rel \in Seq(STRING)
<1>1. files[i] \in [file : Texts, rel : Seq(STRING)]
  BY ElementTyped DEF Listing
<1>2. files[i].file \in Texts /\ files[i].rel \in Seq(STRING) /\ e.dst \in Seq(STRING)
  BY <1>1 DEF ElfEntry, Entry
<1> QED
  BY <1>2

LEMMA RecursiveTyped ==
    ASSUME NEW l \in SourceLine, NEW e \in ElfEntry
    PROVE  Recursive(l, e) \in Outcomes
<1> DEFINE x == Expansion[IF l.type = "Rr" THEN InPrefix[e.src] ELSE e.src]
           kids == Walk[x.path]
           dst(k) == IF e.dst = OmitDst THEN k.rel ELSE e.dst \o k.rel
           kid(k) == AutoEntry(k.file, dst(k), l.own)
           es == [i \in DOMAIN kids |-> kid(kids[i])]
<1>1. (IF l.type = "Rr" THEN InPrefix[e.src] ELSE e.src) \in Texts /\ l.own \in Owner
  BY FollowedTyped DEF ElfEntry, SourceLine, Owner
<1>2. x \in Followed
  BY <1>1, FollowedTyped
<1> HIDE DEF x
<1>3. x.path \in Texts
  BY <1>2 DEF Followed
<1>4. kids \in Listing
  BY <1>3, SystemAssumption
<1> HIDE DEF kids
<1> DEFINE Oks == \A i \in DOMAIN kids : AutoOk(kids[i].file)
<1>5. ASSUME Oks, NEW i \in DOMAIN kids PROVE kid(kids[i]) \in OwnEntry
  <2>1. kids[i].file \in Texts /\ dst(kids[i]) \in Seq(STRING) /\ AutoOk(kids[i].file)
    BY <1>4, <1>5, ListedTyped
  <2> HIDE DEF dst
  <2> QED
    BY <1>1, <2>1, AutoTyped
<1> HIDE DEF kid
<1>6. Oks => es \in [1..Len(kids) -> OwnEntry] /\ Len(kids) \in Nat
  BY <1>4, <1>5 DEF Listing
<1>7. Oks => es \in Seq(OwnEntry)
  BY <1>6
<1> HIDE DEF es
<1>8. Oks => Links(x) \o es \in Seq(OwnEntry)
  BY <1>2, <1>7, LinksTyped
<1>9. Oks => Added(Links(x) \o es) \in Seq(Queued)
  BY <1>8, AddedTyped
<1>10. Recursive(l, e) = IF x.ok /\ \A i \in DOMAIN kids : AutoOk(kids[i].file)
                         THEN Puts(Added(Links(x) \o es)) ELSE Fails
  BY DEF Recursive, es, kid, kids, x
<1> QED
  BY <1>9, <1>10, PutsTyped, FailsTyped

LEMMA GlobTyped ==
    ASSUME NEW l \in SourceLine, NEW e \in ElfEntry
    PROVE  Glob(l, e) \in Outcomes
<1> DEFINE rel == l.type = "rr"
           g == Matches[IF rel THEN InPrefix[e.src] ELSE e.src]
           files == g.files
           x(k) == IF rel /\ GlobExpand THEN Expansion[k.file] ELSE Unexpanded(k.file)
           dst(k) == IF e.dst = OmitDst THEN TrimDst(x(k).path) ELSE e.dst \o k.rel
           one(k) == Append(Links(x(k)), AutoEntry(x(k).path, dst(k), l.own))
           ess == [i \in DOMAIN files |-> one(files[i])]
<1>1. (IF rel THEN InPrefix[e.src] ELSE e.src) \in Texts /\ l.own \in Owner
  BY FollowedTyped DEF ElfEntry, SourceLine, Owner
<1>2. g \in [ok : BOOLEAN, files : Listing]
  BY <1>1, SystemAssumption
<1> HIDE DEF g
<1>3. files \in Listing
  BY <1>2
<1> HIDE DEF files
<1> DEFINE Oks == \A i \in DOMAIN files : AutoOk(x(files[i]).path)
<1>4. ASSUME Oks, NEW i \in DOMAIN files PROVE one(files[i]) \in Seq(OwnEntry)
  <2> DEFINE k == files[i]
  <2>1. k.file \in Texts /\ e.dst \o k.rel \in Seq(STRING) /\ AutoOk(x(k).path)
    BY <1>3, <1>4, ListedTyped
  <2> HIDE DEF k
  <2>2. x(k) \in Followed
    BY <2>1, FollowedTyped, UnexpandedTyped
  <2> HIDE DEF x
  <2>3. x(k).path \in Texts
    BY <2>2 DEF Followed
  <2>4. dst(k) \in Seq(STRING)
    BY <2>1, <2>3, FollowedTyped
  <2> HIDE DEF dst
  <2>5. AutoEntry(x(k).path, dst(k), l.own) \in OwnEntry /\ Links(x(k)) \in Seq(OwnEntry)
    BY <1>1, <2>1, <2>2, <2>3, <2>4, AutoTyped, LinksTyped
  <2>6. one(k) \in Seq(OwnEntry)
    BY <2>5
  <2> QED
    BY <2>6 DEF k
<1> HIDE DEF one
<1>5. Oks => ess \in [1..Len(files) -> Seq(OwnEntry)] /\ Len(files) \in Nat
  BY <1>3, <1>4 DEF Listing
<1>6. Oks => ess \in Seq(Seq(OwnEntry))
  BY <1>5
<1> HIDE DEF ess
<1>7. Oks => Added(FlattenSeq(ess)) \in Seq(Queued)
  BY <1>6, FlattenTyped, AddedTyped
<1>8. \/ Oks /\ Glob(l, e) = Puts(Added(FlattenSeq(ess)))
      \/ Glob(l, e) = Fails
  BY DEF Glob, ess, one, files, g
<1> QED
  BY <1>7, <1>8, PutsTyped, FailsTyped

LEMMA ElfGlobTyped ==
    ASSUME NEW l, NEW e \in ElfEntry
    PROVE  ElfGlob(l, e) \in Outcomes
<1> DEFINE g == Matches[InPrefix[e.src]]
           files == g.files
           src(i) == TrimSrc[files[i].file]
           one(i) == [e EXCEPT !.src = src(i), !.dst = CleanDst[src(i)]]
           es == [i \in DOMAIN files |-> one(i)]
<1>1. InPrefix[e.src] \in Texts
  BY FollowedTyped DEF ElfEntry
<1>2. g \in [ok : BOOLEAN, files : Listing]
  BY <1>1, SystemAssumption
<1> HIDE DEF g
<1>3. files \in Listing
  BY <1>2
<1> HIDE DEF files
<1>4. ASSUME NEW i \in DOMAIN files
      PROVE  one(i) \in ElfEntry
  <2>1. src(i) \in Texts
    BY <1>3, ListedTyped, FollowedTyped
  <2> HIDE DEF src
  <2>2. src(i) \in STRING /\ CleanDst[src(i)] \in Seq(STRING)
    BY <2>1, FollowedTyped
  <2> QED
    BY <2>1, <2>2 DEF ElfEntry, Entry
<1> HIDE DEF one, src
<1>5. es \in [1..Len(files) -> ElfEntry] /\ Len(files) \in Nat
  BY <1>3, <1>4 DEF Listing
<1>6. es \in Seq(ElfEntry)
  BY <1>5
<1> HIDE DEF es
<1>7. ElfGlob(l, e) = IF g.ok THEN PassesOn(es) ELSE Fails
  BY DEF ElfGlob, es, one, src, files, g
<1> QED
  BY <1>6, <1>7, PassesOnTyped, FailsTyped

LEMMA ElfLibTyped ==
    ASSUME NEW l, NEW e \in ElfEntry
    PROVE  ElfLib(l, e) \in Outcomes
<1> DEFINE src == FindLib[e.src]
           f == [e EXCEPT !.src = src, !.dst = CleanDst[src]]
<1>1. CASE src = NoFile
  BY <1>1, FailsTyped DEF ElfLib
<1>2. CASE src # NoFile
  <2>1. src \in Texts
    BY <1>2, SystemAssumption DEF ElfEntry
  <2>2. ElfLib(l, e) = PassesOn(<<f>>)
    BY <1>2 DEF ElfLib
  <2> HIDE DEF src
  <2>3. src \in STRING /\ CleanDst[src] \in Seq(STRING)
    BY <2>1, FollowedTyped
  <2>4. f \in ElfEntry
    BY <2>1, <2>3 DEF ElfEntry, Entry
  <2> HIDE DEF f
  <2>5. <<f>> \in Seq(ElfEntry)
    BY <2>4
  <2> QED
    BY <2>2, <2>5, PassesOnTyped
<1> QED
  BY <1>1, <1>2

LEMMA ElfPathTyped ==
    ASSUME NEW l, NEW e \in ElfEntry
    PROVE  ElfPath(l, e) \in Outcomes
<1> DEFINE c == PathFiles[e.src]
           found == {i \in DOMAIN c : Stat[InPrefix[c[i]]].kind # "none"}
           src == c[Min(found)]
           dst == IF e.dst = CleanDst[e.src] THEN CleanDst[src] ELSE e.dst
           f == [e EXCEPT !.src = src, !.dst = dst]
<1>1. c \in Seq(Texts) /\ <<e>> \in Seq(ElfEntry)
  <2>1. e.src \in Texts
    BY DEF ElfEntry
  <2>2. c \in Seq(Texts)
    BY <2>1, SystemAssumption
  <2> QED
    BY <2>2
<1> HIDE DEF c
<1>2. found \subseteq DOMAIN c /\ found \subseteq Nat
  BY <1>1
<1> HIDE DEF found
<1>3. ElfPath(l, e) = IF c = <<>> THEN PassesOn(<<e>>)
                      ELSE IF found = {} THEN Fails ELSE PassesOn(<<f>>)
  BY DEF ElfPath, c, found
<1>4. CASE found # {}
  <2>1. Min(found) \in found
    BY <1>2, <1>4, MinIs
  <2>2. src \in Texts
    BY <1>1, <1>2, <2>1
  <2> HIDE DEF src
  <2>3. src \in STRING /\ dst \in Seq(STRING)
    BY <2>2, FollowedTyped DEF ElfEntry, Entry
  <2> HIDE DEF dst
  <2>4. f \in ElfEntry
    BY <2>2, <2>3 DEF ElfEntry, Entry
  <2> HIDE DEF f
  <2>5. <<f>> \in Seq(ElfEntry)
    BY <2>4
  <2> QED
    BY <1>1, <1>3, <2>5, PassesOnTyped, FailsTyped
<1>5. CASE found = {}
  BY <1>1, <1>3, <1>5, PassesOnTyped, FailsTyped
<1> QED
  BY <1>4, <1>5

LEMMA OutcomeTyped ==
    ASSUME NEW l, NEW then \in Outcomes
    PROVE  Outcome(l, then) \in Outcomes
<1>1. <<>> \in Seq(Queued)
  OBVIOUS
<1> QED
  BY <1>1, PutsTyped, FailsTyped DEF Outcome

(* What a line of the configuration does to the main thread. *)
LineActs(then) == then \in Outcomes /\ \E l \in SourceLine : EntryLine(l, then)

LEMMA LineKinds ==
    ASSUME InForce \in Seq(Masks), ReadLine
    PROVE  \/ \E l \in MaskLines : MaskLine(MaskSet(heap, mm, l))
           \/ \E l \in ClearLines : MaskLine(MaskDel(heap, mm, l))
           \/ \E then : LineActs(then)
           \/ ReadError \/ EndOfFile
<1>1. ASSUME NEW l \in SourceLine PROVE Masked(l).e \in ElfEntry
  <2>1. Masked(l) \in [e : ElfEntry, drop : BOOLEAN]
    BY LineTyped
  <2> QED
    BY <2>1
<1>2. /\ \A S : OfType(EntryLines, S) \subseteq SourceLine
      /\ \A S : OfType(ElfLines, S) \subseteq SourceLine
  BY EntriesAssumption DEF OfType
<1>3. CASE ReadPlain
  <2>1. PICK l \in SourceLine : /\ l.type \in {"f", "d", "l", "c", "cl", "b64"}
                                /\ EntryLine(l, Plain(l, Masked(l).e))
    BY <1>2, <1>3 DEF ReadPlain, OfType
  <2>2. Masked(l).e.type \notin Exempt
    BY <2>1, LineTyped DEF Exempt
  <2> QED
    BY <1>1, <2>1, <2>2, PlainTyped DEF LineActs
<1>4. CASE ReadRegularRel
  <2>1. PICK l \in SourceLine : EntryLine(l, RegularRel(l, Masked(l).e))
    BY <1>2, <1>4 DEF ReadRegularRel
  <2> QED
    BY <1>1, <2>1, RegularRelTyped DEF LineActs
<1>5. CASE ReadAuto
  <2>1. PICK l \in SourceLine : EntryLine(l, AutoFile(l, Masked(l).e))
    BY <1>2, <1>5 DEF ReadAuto
  <2> QED
    BY <1>1, <2>1, AutoFileTyped DEF LineActs
<1>6. CASE ReadRecursive
  <2>1. PICK l \in SourceLine : EntryLine(l, Recursive(l, Masked(l).e))
    BY <1>2, <1>6 DEF ReadRecursive
  <2> QED
    BY <1>1, <2>1, RecursiveTyped DEF LineActs
<1>7. CASE ReadGlob
  <2>1. PICK l \in SourceLine : EntryLine(l, Glob(l, Masked(l).e))
    BY <1>2, <1>7 DEF ReadGlob
  <2> QED
    BY <1>1, <2>1, GlobTyped DEF LineActs
<1>8. CASE ReadElf
  <2>1. PICK l \in SourceLine : EntryLine(l, Elf(l, Masked(l).e))
    BY <1>2, <1>8 DEF ReadElf
  <2> DEFINE e == Masked(l).e
  <2>2. e \in ElfEntry
    BY <1>1
  <2> HIDE DEF e
  <2>3. <<e>> \in Seq(ElfEntry)
    BY <2>2
  <2>4. PassesOn(<<e>>) \in Outcomes
    BY <2>3, PassesOnTyped
  <2> QED
    BY <2>1, <2>4 DEF LineActs, Elf, e
<1>9. CASE ReadElfGlob
  <2>1. PICK l \in SourceLine : EntryLine(l, ElfGlob(l, Masked(l).e))
    BY <1>2, <1>9 DEF ReadElfGlob
  <2> QED
    BY <1>1, <2>1, ElfGlobTyped DEF LineActs
<1>10. CASE ReadElfLib
  <2>1. PICK l \in SourceLine : EntryLine(l, ElfLib(l, Masked(l).e))
    BY <1>2, <1>10 DEF ReadElfLib
  <2> QED
    BY <1>1, <2>1, ElfLibTyped DEF LineActs
<1>11. CASE ReadElfPath
  <2>1. PICK l \in SourceLine : EntryLine(l, ElfPath(l, Masked(l).e))
    BY <1>2, <1>11 DEF ReadElfPath
  <2> QED
    BY <1>1, <2>1, ElfPathTyped DEF LineActs
<1> QED
  BY <1>3, <1>4, <1>5, <1>6, <1>7, <1>8, <1>9, <1>10, <1>11
     DEF ReadLine, ReadMask, ReadClear

(* An entry line leaves what to put, or what to resolve. *)
LEMMA LineLeaves ==
    ASSUME NEW then, LineActs(then)
    PROVE  /\ NextLine /\ pc = "read" /\ pend = <<>>
           /\ pend' \in Seq(Queued) /\ todo' \in Seq(ElfEntry)
           /\ pc' \in {"failed", "read", "elf"}
           /\ pc' = "elf" => todo' # <<>>
           /\ UNCHANGED <<file, map, cfg, masks, pool, incl, elfAdded>>
<1>1. PICK l \in SourceLine : EntryLine(l, then)
  BY DEF LineActs
<1>2. PICK r \in Outcomes : r = Outcome(l, then)
  BY OutcomeTyped DEF LineActs
<1>3. r.pend \in Seq(Queued) /\ r.todo \in Seq(ElfEntry)
  BY DEF Outcomes
<1>4. /\ NextLine /\ pc = "read" /\ pend = <<>>
      /\ pend' = r.pend /\ todo' = r.todo
      /\ pc' = (IF ~r.ok THEN "failed" ELSE IF r.todo # <<>> THEN "elf" ELSE pc)
      /\ UNCHANGED <<file, map, cfg, masks, pool, incl, elfAdded>>
  BY <1>1, <1>2 DEF EntryLine, NextLine, Busy
<1> QED
  BY <1>3, <1>4

-----------------------------------------------------------------------------
(* The invariants *)

(* The masks of every slice in use are masks, none is an empty cell. *)
Shown(s) == Eff(heap, s) \in Seq(Masks)
ShownInv == Shown(mm) /\ Shown(Lines) /\ \A j \in DOMAIN jobs : Shown(jobs[j].mm)

Controls == {"open", "read", "elf", "spawn", "include", "libs", "wait", "results",
             "merge", "done", "failed"}

(* An ELF that is resolved, or will be. *)
IsElf(x) == x.e \in ElfEntry /\ x.src \in Texts

(* The types the main thread's steps rely on; libs and cur are of use only
   while an ELF is included. *)
MainTyped ==
    /\ pc \in Controls /\ file \in 0..MaxFiles /\ line \in 0..MaxLines
    /\ pend \in Seq(Queued) /\ todo \in Seq(ElfEntry)
    /\ pc = "elf" => todo # <<>>
    /\ pc \in {"include", "libs"} => IsElf(cur)
    /\ libs \subseteq Texts
    /\ bad \in BOOLEAN

MapsTyped == map.A \in Seq(Entry) /\ cfg.A \in Seq(Entry)

ElfsTyped == \A j \in DOMAIN jobs : IsElf(jobs[j])

(* Where the jobs append to m.elf, and who holds its lock. *)
LockTyped ==
    /\ \A j \in DOMAIN jobs : jobs[j].at \in 0..Len(elf)
    /\ mu # 0 => mu \in DOMAIN jobs /\ jobs[mu].stage \in {"append", "unlock"}

TypeInv == MainTyped /\ MapsTyped /\ ElfsTyped /\ LockTyped

(* The entry is in the map of all files as it is. *)
Merged(e) == e.dst \in Dsts(cfg) /\ EntryOf(cfg, e.dst) = e

(* How far the merge of the file is. *)
MergeInv ==
    /\ pc \notin {"merge", "failed"} /\ ~Including => next = 0
    /\ pc \in {"merge", "open", "done"} => pend = <<>>
    /\ pc = "merge" => /\ next <= Len(map.A)
                       /\ \A i \in 1..next : Merged(map.A[i])
    /\ pc \in {"open", "done"} => \A i \in DOMAIN map.A : Merged(map.A[i])

-----------------------------------------------------------------------------
(* The types *)

LEMMA TailTyped ==
    ASSUME NEW S, NEW s \in Seq(S), s # <<>>
    PROVE  Head(s) \in S /\ Tail(s) \in Seq(S)
OBVIOUS

(* The ELF entry addElf takes from the line's, and its file. *)
LEMMA AddElfTyped ==
    ASSUME NEW e \in ElfEntry, NEW x,
           x = IF ElfExpand THEN Expansion[ElfSrc(e)] ELSE Unexpanded(ElfSrc(e))
    PROVE  x \in Followed /\ x.path \in Texts /\ Added(Links(x)) \in Seq(Queued)
<1>1. ElfSrc(e) \in Texts
  BY FollowedTyped DEF ElfEntry, ElfSrc
<1>2. x \in Followed
  BY <1>1, FollowedTyped, UnexpandedTyped
<1> QED
  BY <1>2, LinksTyped, AddedTyped DEF Followed

LEMMA ResultTyped ==
    ASSUME NEW c, IsElf(c)
    PROVE  /\ ResultOf(c) \in [err : {"ok", "format", "other"}, libs : SUBSET Texts]
           /\ Added(<<MainEntry(c)>>) \in Seq(Queued)
<1> DEFINE e == c.e
           src == c.src
<1>1. e \in ElfEntry /\ src \in Texts
  BY DEF IsElf
<1>2. e.src \in Texts /\ e.lib \in LibPaths /\ e.dst \in Seq(STRING) /\ e.own \in STRING
  BY <1>1 DEF ElfEntry, Entry
<1>3. Result[<<src, e.lib>>] \in [err : {"ok", "format", "other"}, libs : SUBSET Texts]
  BY <1>1, <1>2, SystemAssumption
<1>4. \E dst \in Seq(STRING) : MainEntry(c) = MkEntry("f", src, dst, e.own)
  BY <1>1, <1>2, FollowedTyped DEF MainEntry
<1>5. src \in STRING /\ "f" \in STRING
  BY <1>1, FollowedTyped, TypesAssumption
<1>6. MainEntry(c) \in Entry
  <2> HIDE DEF src
  <2> DEFINE own == e.own
  <2>1. own \in STRING /\ \E dst \in Seq(STRING) : MainEntry(c) = MkEntry("f", src, dst, own)
    BY <1>2, <1>4
  <2> HIDE DEF own
  <2> QED
    BY <1>5, <2>1, EntryTyped
<1>7. <<MainEntry(c)>> \in Seq(OwnEntry)
  <2>1. MainEntry(c).type \notin Exempt
    BY DEF MainEntry, MkEntry, Exempt
  <2> QED
    BY <1>6, <2>1 DEF OwnEntry
<1>8. Added(<<MainEntry(c)>>) \in Seq(Queued)
  BY <1>7, AddedTyped
<1>9. ResultOf(c) = Result[<<src, e.lib>>]
  BY DEF ResultOf
<1> QED
  BY <1>3, <1>8, <1>9

LEMMA LibTyped ==
    ASSUME NEW c, IsElf(c), NEW v \in Texts, NEW x, x = Expansion[v]
    PROVE  /\ Added(Append(Links(x), LibEntry(c, x.path))) \in Seq(Queued)
           /\ Added(Links(x)) \in Seq(Queued)
<1>1. x \in Followed
  BY FollowedTyped
<1> DEFINE path == x.path
           own == c.e.own
<1>2. path \in Texts /\ own \in STRING
  BY <1>1 DEF Followed, IsElf, ElfEntry, Entry
<1> HIDE DEF path, own
<1>3. path \in STRING /\ TrimDst(path) \in Seq(STRING) /\ "f" \in STRING
  BY <1>2, FollowedTyped, TypesAssumption
<1>4. MkEntry("f", path, TrimDst(path), own) \in Entry
  BY <1>2, <1>3, EntryTyped
<1>5. LibEntry(c, x.path) \in OwnEntry
  <2>1. LibEntry(c, x.path).type \notin Exempt
    BY DEF LibEntry, MkEntry, Exempt
  <2> QED
    BY <1>4, <2>1 DEF LibEntry, path, own, OwnEntry
<1>6. Links(x) \in Seq(OwnEntry)
  BY <1>1, LinksTyped
<1>7. Append(Links(x), LibEntry(c, x.path)) \in Seq(OwnEntry)
  BY <1>5, <1>6
<1> QED
  BY <1>6, <1>7, AddedTyped

(* The main thread keeps to its types. *)
LEMMA LineTypes ==
    ASSUME MainTyped, InForce \in Seq(Masks), ReadLine
    PROVE  MainTyped'
<1>1. NextLine => line' \in 0..MaxLines
  BY BoundsAssumption DEF NextLine, MainTyped
<1>2. ASSUME NEW r, MaskLine(r) PROVE MainTyped'
  <2>1. /\ NextLine /\ pc = "read" /\ pc' \in {"read", "failed"}
        /\ UNCHANGED <<file, pend, todo, libs, bad>>
    BY <1>2 DEF MaskLine, NextLine, main, incl
  <2> QED
    BY <1>1, <2>1 DEF MainTyped, Controls
<1>3. ASSUME NEW then, LineActs(then) PROVE MainTyped'
  <2>1. /\ NextLine /\ pend' \in Seq(Queued) /\ todo' \in Seq(ElfEntry)
        /\ pc' \in {"failed", "read", "elf"}
        /\ pc' = "elf" => todo' # <<>>
        /\ UNCHANGED <<file, incl>>
    BY <1>3, LineLeaves
  <2> QED
    BY <1>1, <2>1 DEF MainTyped, Controls, incl
<1>4. CASE ReadError \/ EndOfFile
  <2>1. /\ pc' \in {"failed", "wait", "merge"}
        /\ UNCHANGED <<file, line, pend, todo, libs, bad>>
    BY <1>4 DEF ReadError, EndOfFile, main, incl
  <2> QED
    BY <2>1 DEF MainTyped, Controls
<1> QED
  BY <1>2, <1>3, <1>4, LineKinds

LEMMA AddElfTypes ==
    ASSUME MainTyped, AddElf
    PROVE  MainTyped'
<1> DEFINE e == Head(todo)
           x == IF ElfExpand THEN Expansion[ElfSrc(e)] ELSE Unexpanded(ElfSrc(e))
<1>1. e \in ElfEntry /\ Tail(todo) \in Seq(ElfEntry)
  BY TailTyped DEF MainTyped, AddElf
<1>2. x \in Followed /\ x.path \in Texts /\ Added(Links(x)) \in Seq(Queued)
  <2> HIDE DEF e
  <2> QED
    BY <1>1, AddElfTyped
<1>3. /\ todo' = Tail(todo) /\ UNCHANGED <<file, line, libs, bad>>
      /\ \/ pc' = More(todo') /\ UNCHANGED pend
         \/ pc' = "failed" /\ UNCHANGED pend
         \/ pc' = "spawn" /\ pend' = Added(Links(x))
         \/ /\ pc' = "include" /\ pend' = Added(Links(x))
            /\ cur' = [e |-> e, src |-> x.path]
  BY DEF AddElf, NewJob, Inline
<1>4. pc' = "include" => IsElf(cur)'
  <2> HIDE DEF e, x
  <2> QED
    BY <1>1, <1>2, <1>3 DEF IsElf, More
<1>5. pend' \in Seq(Queued) /\ todo' \in Seq(ElfEntry)
  <2> HIDE DEF e, x
  <2> QED
    BY <1>1, <1>2, <1>3 DEF MainTyped
<1>6. pc' \in {"read", "elf", "failed", "spawn", "include"} /\ (pc' = "elf" => todo' # <<>>)
  BY <1>3 DEF More
<1> HIDE DEF e, x
<1> QED
  BY <1>3, <1>4, <1>5, <1>6 DEF MainTyped, Controls

LEMMA IncludeTypes ==
    ASSUME SliceInv, ControlInv, MainTyped, ElfsTyped, Include
    PROVE  MainTyped'
<1>1. UNCHANGED <<file, line, todo>>
  BY DEF Include, Wait, NextResult, ResultsDone, IncludeMain, IncludeLib, LibsDone, main
<1>2. CASE Wait
  BY <1>1, <1>2 DEF Wait, main, incl, MainTyped, Controls
<1>3. CASE NextResult
  <2>1. /\ next \in Nat /\ next < Len(elf) /\ elf \in Seq(DOMAIN jobs)
        /\ pc' = "include" /\ UNCHANGED <<pend, libs, bad>>
        /\ cur' = [e |-> jobs[elf[next + 1]].e, src |-> jobs[elf[next + 1]].src]
    BY <1>3 DEF NextResult, SliceInv, LockOK, ControlInv
  <2>2. elf[next + 1] \in DOMAIN jobs
    BY <2>1
  <2>3. IsElf(cur)'
    BY <2>1, <2>2 DEF ElfsTyped, IsElf
  <2> QED
    BY <1>1, <2>1, <2>3 DEF MainTyped, Controls
<1>4. CASE ResultsDone
  BY <1>1, <1>4 DEF ResultsDone, MainTyped, Controls
<1>5. Included \/ IncludeFails => /\ pc' \in {"results", "read", "elf", "failed"}
                                  /\ pc' = "elf" => todo # <<>>
                                  /\ bad' \in BOOLEAN
  BY DEF Included, IncludeFails, More, MainTyped
<1>6. CASE IncludeMain
  <2>1. /\ ResultOf(cur).libs \subseteq Texts /\ Added(<<MainEntry(cur)>>) \in Seq(Queued)
        /\ IsElf(cur)
    <3>1. IsElf(cur)
      BY <1>6 DEF IncludeMain, MainTyped
    <3> QED
      BY <3>1, ResultTyped
  <2>2. /\ libs' \in {libs, ResultOf(cur).libs \ {cur.src}} /\ cur' = cur
        /\ pend' \in {pend, Added(<<MainEntry(cur)>>)}
        /\ \/ Included \/ IncludeFails
           \/ pc' = "libs" /\ bad' = bad
    BY <1>6 DEF IncludeMain
  <2> QED
    BY <1>1, <1>5, <2>1, <2>2 DEF MainTyped, Controls, IsElf
<1>7. CASE IncludeLib
  <2>1. /\ pc = "libs" /\ cur' = cur
        /\ \E v \in libs :
             /\ libs' = libs \ {v}
             /\ \/ /\ pend' = Added(Append(Links(Expansion[v]), LibEntry(cur, Expansion[v].path)))
                   /\ UNCHANGED <<pc, bad>>
                \/ pend' = Added(Links(Expansion[v])) /\ IncludeFails
    BY <1>7 DEF IncludeLib
  <2>2. IsElf(cur)
    BY <2>1 DEF MainTyped
  <2>3. \A v \in libs :
           /\ Added(Append(Links(Expansion[v]), LibEntry(cur, Expansion[v].path))) \in Seq(Queued)
           /\ Added(Links(Expansion[v])) \in Seq(Queued)
    BY <2>2, LibTyped DEF MainTyped
  <2>4. pend' \in Seq(Queued) /\ libs' \subseteq Texts
    BY <2>1, <2>3 DEF MainTyped
  <2>5. (pc' = "libs" /\ bad' = bad) \/ IncludeFails
    BY <2>1
  <2> QED
    BY <1>1, <1>5, <2>1, <2>2, <2>4, <2>5 DEF MainTyped, Controls, IsElf
<1>8. CASE LibsDone
  BY <1>1, <1>5, <1>8 DEF LibsDone, MainTyped, Controls
<1> QED
  BY <1>2, <1>3, <1>4, <1>6, <1>7, <1>8 DEF Include

LEMMA MainStep ==
    ASSUME SliceInv, ControlInv, MainTyped, ElfsTyped, InForce \in Seq(Masks), [Next]_vars
    PROVE  MainTyped'
<1>1. CASE Put
  <2>1. UNCHANGED <<load, todo, incl>> /\ pend # <<>> /\ pend' = Tail(pend)
    BY <1>1 DEF Put, Busy
  <2>2. pend' \in Seq(Queued)
    BY <2>1, TailTyped DEF MainTyped
  <2> QED
    BY <2>1, <2>2 DEF MainTyped, IsElf, load, incl
<1>2. CASE Spawn
  <2>1. /\ pc' = More(todo) /\ UNCHANGED <<file, line, main>>
    BY <1>2 DEF Spawn
  <2>2. pc' \in {"read", "elf"} /\ (pc' = "elf" => todo # <<>>)
    BY <2>1 DEF More
  <2> QED
    BY <2>1, <2>2 DEF MainTyped, Controls, main, incl
<1>3. CASE MergeNext \/ MergeDone \/ OpenFails \/ FilesDone
  <2>1. /\ pc' \in {"merge", "open", "failed", "done"}
        /\ UNCHANGED <<file, line, pend, todo, libs, bad>>
    BY <1>3 DEF MergeNext, MergeDone, OpenFails, FilesDone, load, main, incl
  <2> QED
    BY <2>1 DEF MainTyped, Controls
<1>4. CASE OpenFile
  <2>1. /\ pc' = "read" /\ UNCHANGED <<pend, todo, libs, bad>>
        /\ file < MaxFiles /\ file' = file + 1 /\ line' = 0
    BY <1>4 DEF OpenFile
  <2>2. file' \in 0..MaxFiles /\ line' \in 0..MaxLines
    BY <2>1, BoundsAssumption DEF MainTyped
  <2> QED
    BY <2>1, <2>2 DEF MainTyped, Controls
<1>5. CASE UNCHANGED <<load, main>>
  BY <1>5 DEF MainTyped, IsElf, load, main, incl
<1>6. Goroutines \/ Release \/ Terminated \/ UNCHANGED vars => UNCHANGED <<load, main>>
  BY GoroutineFrame DEF Terminated, vars, main
<1> QED
  BY <1>1, <1>2, <1>3, <1>4, <1>5, <1>6, LineTypes, AddElfTypes, IncludeTypes
     DEF Next, MainThread, Files

-----------------------------------------------------------------------------
(* The entries in the maps *)

LEMMA PutTyped ==
    ASSUME NEW mp, WellFormed(mp), mp.A \in Seq(Entry), NEW e \in Entry
    PROVE  PutEntry(mp, e).A \in Seq(Entry)
<1> DEFINE A == mp.A
           i == mp.m[e.dst]
<1>1. CASE e.dst \in Dsts(mp)
  <2>1. i \in DOMAIN A /\ mp = [A |-> mp.A, m |-> mp.m]
    BY <1>1 DEF WellFormed, IsMap, Indexed
  <2>2. PutEntry(mp, e).A = [A EXCEPT ![i] = e]
    BY <1>1, <2>1 DEF PutEntry
  <2> HIDE DEF A, i
  <2> QED
    BY <2>1, <2>2 DEF A
<1>2. CASE e.dst \notin Dsts(mp)
  BY <1>2 DEF PutEntry
<1> QED
  BY <1>1, <1>2

(* The entry Put takes, after its masks. *)
Next1 == LET p == Head(pend) IN
         IF p.masked THEN [e |-> p.e, drop |-> FALSE] ELSE ApplyMasks(InForce, p.e)

LEMMA Next1Typed ==
    ASSUME pend \in Seq(Queued), pend # <<>>, InForce \in Seq(Masks)
    PROVE  Next1 \in [e : Entry, drop : BOOLEAN]
<1> DEFINE p == Head(pend)
<1>1. p \in Queued
  BY TailTyped
<1> HIDE DEF p
<1>2. p.e \in Entry /\ p.masked \in BOOLEAN
  BY <1>1 DEF Queued, OwnEntry
<1>3. Next1 = IF p.masked THEN [e |-> p.e, drop |-> FALSE] ELSE ApplyMasks(InForce, p.e)
  BY DEF Next1, p
<1>4. \A x \in Entry : ApplyMasks(InForce, x) \in [e : Entry, drop : BOOLEAN]
  BY MaskedTyped
<1> QED
  BY <1>2, <1>3, <1>4

LEMMA MapsTypes ==
    ASSUME MapInv, ControlInv, MainTyped, MapsTyped, InForce \in Seq(Masks), [Next]_vars
    PROVE  MapsTyped'
<1>1. CASE Put
  <2>1. /\ pend # <<>> /\ cfg' = cfg
        /\ map' = IF Next1.drop THEN map ELSE PutEntry(map, Next1.e)
    BY <1>1 DEF Put, Busy, Next1
  <2>2. Next1.e \in Entry
    BY <2>1, Next1Typed DEF MainTyped
  <2>3. PutEntry(map, Next1.e).A \in Seq(Entry)
    BY <2>2, PutTyped DEF MapInv, MapsTyped
  <2> QED
    BY <2>1, <2>3 DEF MapsTyped
<1>2. CASE MergeNext
  <2> DEFINE e == map.A[next + 1]
  <2>1. /\ map' = map /\ cfg' = PutEntry(cfg, e) /\ next < Len(map.A)
        /\ map.A \in Seq(Entry) /\ next \in Nat
    BY <1>2 DEF MergeNext, MapsTyped, ControlInv
  <2>2. e \in Entry
    BY <2>1
  <2> HIDE DEF e
  <2>3. PutEntry(cfg, e).A \in Seq(Entry)
    BY <2>2, PutTyped DEF MapInv, MapsTyped
  <2> QED
    BY <2>1, <2>3 DEF MapsTyped
<1>3. CASE OpenFile
  <2>1. map'.A = <<>> /\ cfg' = cfg
    BY <1>3 DEF OpenFile, NewMap, EmptyMap
  <2> QED
    BY <2>1 DEF MapsTyped
<1>4. CASE UNCHANGED <<map, cfg>>
  BY <1>4 DEF MapsTyped
<1> QED
  BY <1>1, <1>2, <1>3, <1>4, MapsFrame

-----------------------------------------------------------------------------
(* The jobs *)

(* A goroutine is started: it has its own copy of the masks in force, and no
   other slice is changed. *)
LEMMA JobAdded ==
    ASSUME SliceInv, ~Including, NEW e, NEW src, NewJob(e, src), mm' = mm,
           NEW n, n = Len(jobs)
    PROVE  /\ n \in Nat /\ DOMAIN jobs = 1..n /\ DOMAIN jobs' = 1..(n + 1)
           /\ \A j \in 1..n : /\ jobs'[j] = jobs[j]
                              /\ Eff(heap', jobs'[j].mm) = Eff(heap, jobs[j].mm)
           /\ jobs'[n + 1].e = e /\ jobs'[n + 1].src = src
           /\ jobs'[n + 1].stage = "queued" /\ jobs'[n + 1].at = 0
           /\ Eff(heap', jobs'[n + 1].mm) = Eff(heap, mm)
           /\ Eff(heap', mm) = Eff(heap, mm)
           /\ UNCHANGED <<elf, mu>>
<1> DEFINE s == Snapshot(heap, mm)
           x == [e |-> e, src |-> src, mm |-> s.mm, stage |-> "queued", at |-> 0]
<1>1. heap' = s.heap /\ jobs' = Append(jobs, x) /\ elf' = elf /\ mu' = mu
  BY DEF NewJob
<1>2. /\ heap \in Heaps /\ IsSlice(heap, mm)
      /\ \A j \in DOMAIN jobs : IsSlice(heap, jobs[j].mm)
      /\ jobs \in Seq(Values(jobs)) /\ n \in Nat /\ DOMAIN jobs = 1..n
  BY DEF SliceInv, MasksOK, JobsOK
<1>3. Confined(heap, NilSlice, s) /\ Eff(s.heap, s.mm) = Eff(heap, mm)
  BY <1>2, SnapshotFresh
<1>4. ASSUME NEW t, IsSlice(heap, t) PROVE Eff(heap', t) = Eff(heap, t)
  <2>1. NilSlice.arr = 0
    BY DEF NilSlice
  <2> HIDE DEF s
  <2> QED
    BY <1>1, <1>2, <1>3, <1>4, <2>1, OthersKept
<1>5. x.mm = s.mm /\ x.stage = "queued" /\ x.at = 0 /\ x.e = e /\ x.src = src
  OBVIOUS
<1> HIDE DEF s, x
<1>6. /\ DOMAIN jobs' = 1..(n + 1)
      /\ \A j \in 1..n : jobs'[j] = jobs[j]
      /\ jobs'[n + 1] = x
  <2>1. jobs \in Seq(Values(jobs) \cup {x}) /\ x \in Values(jobs) \cup {x}
    <3>1. jobs \in [1..n -> Values(jobs) \cup {x}]
      BY <1>2 DEF Values
    <3> QED
      BY <1>2, <3>1
  <2> QED
    BY <1>1, <1>2, <2>1
<1> QED
  BY <1>1, <1>2, <1>3, <1>4, <1>5, <1>6

(* The jobs' records, without the stage and the place. *)
SameJob(j) == jobs'[j].e = jobs[j].e /\ jobs'[j].src = jobs[j].src

(* All other steps but OpenFile start no job. *)
LEMMA JobsFrame ==
    ASSUME SliceInv, [Next]_vars
    PROVE  \/ \E e, src : AddElf /\ NewJob(e, src)
           \/ OpenFile
           \/ /\ DOMAIN jobs' = DOMAIN jobs
              /\ \A j \in DOMAIN jobs : SameJob(j)
<1>1. UNCHANGED jobs => DOMAIN jobs' = DOMAIN jobs /\ \A j \in DOMAIN jobs : SameJob(j)
  BY DEF SameJob
<1>2. ASSUME NEW j \in DOMAIN jobs, NEW to, jobs' = [jobs EXCEPT ![j].stage = to]
      PROVE  DOMAIN jobs' = DOMAIN jobs /\ \A i \in DOMAIN jobs : SameJob(i)
  BY <1>2 DEF SameJob
<1>3. CASE Goroutines
  <2>1. PICK j \in DOMAIN jobs : Goroutine(j)
    BY <1>3 DEF Goroutines
  <2>2. CASE Lock(j)
    BY <2>2 DEF Lock, SameJob
  <2>3. CASE Record(j) \/ Unlock(j) \/ WgDone(j)
    <3>1. \E to : jobs' = [jobs EXCEPT ![j].stage = to]
      BY <2>3 DEF Record, Unlock, WgDone, Stage
    <3> QED
      BY <1>2, <3>1
  <2> QED
    BY <2>1, <2>2, <2>3 DEF Goroutine
<1>4. CASE Spawn
  BY <1>4 DEF Spawn, SameJob
<1>5. CASE AddElf
  BY <1>1, <1>5 DEF AddElf, Inline, pool
<1>6. ReadLine \/ Include => UNCHANGED jobs
  BY LineFrame
     DEF Include, Wait, NextResult, ResultsDone, IncludeMain, IncludeLib, LibsDone, pool
<1>7. Put \/ MergeNext \/ MergeDone \/ OpenFails \/ FilesDone => UNCHANGED jobs
  BY DEF Put, MergeNext, MergeDone, OpenFails, FilesDone, pool
<1>8. Release \/ Terminated \/ UNCHANGED vars => UNCHANGED jobs
  BY DEF Release, Terminated, vars, pool
<1> QED
  BY <1>1, <1>3, <1>4, <1>5, <1>6, <1>7, <1>8 DEF Next, MainThread, Files

LEMMA StageSet ==
    ASSUME SliceInv, NEW j \in DOMAIN jobs, NEW to,
           jobs' = [jobs EXCEPT ![j].stage = to]
    PROVE  /\ DOMAIN jobs' = DOMAIN jobs
           /\ jobs'[j].stage = to /\ jobs'[j].at = jobs[j].at
           /\ \A i \in DOMAIN jobs : i # j => jobs'[i] = jobs[i]
<1>1. PICK e, src, s, st, a :
             jobs[j] = [e |-> e, src |-> src, mm |-> s, stage |-> st, at |-> a]
  BY DEF SliceInv, JobsOK
<1>2. jobs'[j] = [jobs[j] EXCEPT !.stage = to]
  OBVIOUS
<1>3. jobs'[j] = [e |-> e, src |-> src, mm |-> s, stage |-> to, at |-> a]
  BY <1>1, <1>2
<1> QED
  BY <1>1, <1>3

LEMMA LockGoroutine ==
    ASSUME SliceInv, LockTyped, Goroutines
    PROVE  LockTyped'
<1>1. PICK j \in DOMAIN jobs : Goroutine(j)
  BY DEF Goroutines
<1>2. /\ elf \in Seq(DOMAIN jobs) /\ Len(elf) \in Nat /\ DOMAIN jobs \subseteq Nat \ {0}
      /\ jobs[j].stage = "append" => jobs[j].at = Len(elf)
      /\ jobs[j].stage \in {"append", "unlock"} => mu = j
      /\ \A i \in DOMAIN jobs : jobs[i].at \in Nat /\ jobs[i].at <= Len(elf)
  <2>1. Len(elf) \in Nat
    BY DEF SliceInv, LockOK
  <2> QED
    BY <2>1 DEF SliceInv, LockOK, JobsOK, LockTyped
<1>3. CASE Lock(j)
  <2>1. /\ mu = 0 /\ mu' = j /\ elf' = elf
        /\ jobs' = [jobs EXCEPT ![j].stage = "append", ![j].at = Len(elf)]
    BY <1>3 DEF Lock
  <2>2. UNCHANGED masks /\ Lines' = Lines
    BY GoroutineFrame DEF load, masks, Lines, Including
  <2>3. /\ DOMAIN jobs' = DOMAIN jobs
        /\ jobs'[j].stage = "append" /\ jobs'[j].at = Len(elf)
        /\ \A i \in DOMAIN jobs : i # j => jobs'[i] = jobs[i]
    BY <2>1, <2>2, JobStep
  <2>4. \A i \in DOMAIN jobs : jobs'[i].at \in 0..Len(elf)
    BY <1>2, <2>3
  <2> QED
    BY <2>1, <2>3, <2>4 DEF LockTyped
<1>4. ASSUME NEW from, NEW to, Stage(j, from, to)
      PROVE  /\ DOMAIN jobs' = DOMAIN jobs
             /\ jobs[j].stage = from
             /\ jobs'[j].stage = to /\ jobs'[j].at = jobs[j].at
             /\ \A i \in DOMAIN jobs : i # j => jobs'[i] = jobs[i]
             /\ \A i \in DOMAIN jobs : jobs'[i].at = jobs[i].at
  <2>1. jobs' = [jobs EXCEPT ![j].stage = to] /\ jobs[j].stage = from
    BY <1>4 DEF Stage
  <2> QED
    BY <2>1, StageSet
<1>5. CASE Record(j)
  <2>1. Stage(j, "append", "unlock") /\ mu' = mu
        /\ elf' = Append(SubSeq(elf, 1, jobs[j].at), j)
    BY <1>5 DEF Record
  <2>2. jobs[j].at = Len(elf) /\ mu = j
    BY <1>2, <1>4, <2>1
  <2>3. SubSeq(elf, 1, Len(elf)) \in Seq(DOMAIN jobs) /\ Len(SubSeq(elf, 1, Len(elf))) = Len(elf)
    BY <1>2
  <2>4. Len(elf') = Len(elf) + 1
    BY <2>1, <2>2, <2>3
  <2>5. \A i \in DOMAIN jobs : jobs'[i].at \in 0..Len(elf')
    <3>1. \A i \in DOMAIN jobs : jobs'[i].at = jobs[i].at
      BY <1>4, <2>1
    <3> QED
      BY <1>2, <2>4, <3>1
  <2> QED
    BY <1>4, <2>1, <2>2, <2>5 DEF LockTyped
<1>6. CASE Unlock(j)
  <2>1. Stage(j, "unlock", "done") /\ mu' = 0 /\ elf' = elf
    BY <1>6 DEF Unlock
  <2> QED
    BY <1>4, <2>1 DEF LockTyped
<1>7. CASE WgDone(j)
  <2>1. Stage(j, "done", "gone") /\ mu' = mu /\ elf' = elf
    BY <1>7 DEF WgDone
  <2> QED
    BY <1>4, <2>1 DEF LockTyped
<1> QED
  BY <1>1, <1>3, <1>5, <1>6, <1>7 DEF Goroutine

LEMMA LockStep ==
    ASSUME SliceInv, PoolInv, LockTyped, [Next]_vars
    PROVE  LockTyped'
<1>1. CASE UNCHANGED <<jobs, elf, mu>>
  BY <1>1 DEF LockTyped
<1>2. CASE AddElf
  <2>1. CASE \E e, src : NewJob(e, src)
    <3>1. PICK e, src : NewJob(e, src)
      BY <2>1
    <3>2. ~Including /\ mm' = mm
      BY <1>2 DEF AddElf, Including
    <3> DEFINE n == Len(jobs)
    <3>3. /\ n \in Nat /\ DOMAIN jobs = 1..n /\ DOMAIN jobs' = 1..(n + 1)
          /\ \A j \in 1..n : jobs'[j] = jobs[j]
          /\ jobs'[n + 1].at = 0
          /\ UNCHANGED <<elf, mu>>
      BY <3>1, <3>2, JobAdded
    <3> HIDE DEF n
    <3>4. Len(elf) \in Nat
      BY DEF SliceInv, LockOK
    <3>5. \A j \in 1..(n + 1) : j \in 1..n \/ j = n + 1
      BY <3>3
    <3> QED
      BY <3>3, <3>4, <3>5 DEF LockTyped
  <2>2. CASE ~\E e, src : NewJob(e, src)
    BY <1>1, <1>2, <2>2 DEF AddElf, Inline, pool
  <2> QED
    BY <2>1, <2>2
<1>3. CASE Spawn
  <2> DEFINE n == Len(jobs)
  <2>1. /\ pc = "spawn" /\ elf' = elf /\ mu' = mu
        /\ jobs' = [jobs EXCEPT ![n].stage = "running"]
    BY <1>3 DEF Spawn
  <2>2. n \in DOMAIN jobs /\ jobs[n].stage = "queued"
    <3>1. DOMAIN jobs = 1..n /\ n \in Nat /\ jobs \in Seq(Values(jobs)) /\ jobs # <<>>
      BY <2>1 DEF SliceInv, JobsOK, PoolInv, StageInv
    <3>2. n \in DOMAIN jobs
      BY <3>1
    <3> QED
      BY <2>1, <3>2 DEF PoolInv, StageInv
  <2> HIDE DEF n
  <2>3. /\ DOMAIN jobs' = DOMAIN jobs /\ jobs'[n].at = jobs[n].at
        /\ \A i \in DOMAIN jobs : i # n => jobs'[i] = jobs[i]
    BY <2>1, <2>2, StageSet
  <2> QED
    BY <2>1, <2>2, <2>3 DEF LockTyped
<1>4. CASE OpenFile
  <2>1. InStages(Pending) = {}
    BY <1>4 DEF OpenFile, PoolInv, SettledInv, Settled
  <2>2. mu = 0
    BY <2>1 DEF LockTyped, InStages, Pending
  <2>3. jobs' = <<>> /\ mu' = mu
    BY <1>4 DEF OpenFile, NewMap
  <2> QED
    BY <2>2, <2>3 DEF LockTyped
<1>5. ReadLine \/ Include => UNCHANGED <<jobs, elf, mu>>
  BY LineFrame
     DEF Include, Wait, NextResult, ResultsDone, IncludeMain, IncludeLib, LibsDone, pool
<1>6. Put \/ MergeNext \/ MergeDone \/ OpenFails \/ FilesDone => UNCHANGED <<jobs, elf, mu>>
  BY DEF Put, MergeNext, MergeDone, OpenFails, FilesDone, pool
<1>7. Release \/ Terminated \/ UNCHANGED vars => UNCHANGED <<jobs, elf, mu>>
  BY DEF Release, Terminated, vars, pool
<1> QED
  BY <1>1, <1>2, <1>3, <1>4, <1>5, <1>6, <1>7, LockGoroutine DEF Next, MainThread, Files

LEMMA ElfsStep ==
    ASSUME SliceInv, MainTyped, ElfsTyped, [Next]_vars
    PROVE  ElfsTyped'
<1>1. CASE \E e, src : AddElf /\ NewJob(e, src)
  <2>1. PICK e, src : AddElf /\ NewJob(e, src)
    BY <1>1
  <2>2. ~Including /\ mm' = mm /\ todo # <<>>
    BY <2>1 DEF AddElf, Including, MainTyped
  <2> DEFINE e1 == Head(todo)
             x == IF ElfExpand THEN Expansion[ElfSrc(e1)] ELSE Unexpanded(ElfSrc(e1))
  <2>3. e1 \in ElfEntry
    BY <2>2, TailTyped DEF MainTyped
  <2>4. x.path \in Texts
    <3> HIDE DEF e1
    <3> QED
      BY <2>3, AddElfTyped
  <2>5. NewJob(e1, x.path)
    BY <2>1 DEF AddElf, Inline, NewJob, pool
  <2> HIDE DEF e1, x
  <2>6. PICK y \in ElfEntry, path \in Texts : NewJob(y, path)
    BY <2>3, <2>4, <2>5
  <2>7. PICK n \in Nat :
             /\ DOMAIN jobs = 1..n /\ DOMAIN jobs' = 1..(n + 1)
             /\ \A j \in 1..n : jobs'[j] = jobs[j]
             /\ jobs'[n + 1].e = y /\ jobs'[n + 1].src = path
    <3> DEFINE k == Len(jobs)
    <3>1. k = Len(jobs)
      OBVIOUS
    <3> HIDE DEF k
    <3>2. /\ k \in Nat /\ DOMAIN jobs = 1..k /\ DOMAIN jobs' = 1..(k + 1)
          /\ \A j \in 1..k : /\ jobs'[j] = jobs[j]
                             /\ Eff(heap', jobs'[j].mm) = Eff(heap, jobs[j].mm)
          /\ jobs'[k + 1].e = y /\ jobs'[k + 1].src = path
      BY <2>2, <2>6, <3>1, JobAdded
    <3> QED
      BY <3>2
  <2>8. \A j \in 1..(n + 1) : j \in 1..n \/ j = n + 1
    BY <2>7
  <2> QED
    BY <2>3, <2>6, <2>7, <2>8 DEF ElfsTyped, IsElf
<1>2. CASE OpenFile
  BY <1>2 DEF OpenFile, NewMap, ElfsTyped
<1>3. CASE DOMAIN jobs' = DOMAIN jobs /\ \A j \in DOMAIN jobs : SameJob(j)
  BY <1>3 DEF ElfsTyped, IsElf, SameJob
<1> QED
  BY <1>1, <1>2, <1>3, JobsFrame

-----------------------------------------------------------------------------
(* The dictionaries: an entry put into a map overrides that of its
   destination, and no other. *)

LEMMA PutContent ==
    ASSUME NEW mp, WellFormed(mp), NEW e
    PROVE  /\ Content(PutEntry(mp, e)) = Abstract!Override(Content(mp), e)
           /\ Dsts(PutEntry(mp, e)) = Dsts(mp) \cup {e.dst}
           /\ EntryOf(PutEntry(mp, e), e.dst) = e
           /\ \A d \in Dsts(mp) : d # e.dst =>
                 EntryOf(PutEntry(mp, e), d) = EntryOf(mp, d)
<1> DEFINE A == mp.A
           m == mp.m
           D == DOMAIN m
           np == PutEntry(mp, e)
<1>1. /\ mp = [A |-> A, m |-> m] /\ A \in Seq(Values(A))
      /\ DOMAIN A = 1..Len(A) /\ Len(A) \in Nat
      /\ \A d \in D : m[d] \in 1..Len(A) /\ A[m[d]].dst = d
  BY DEF WellFormed, IsMap, Indexed, EntryOf, Dsts
<1>2. /\ Dsts(np) = D \cup {e.dst}
      /\ EntryOf(np, e.dst) = e
      /\ \A d \in D : d # e.dst => EntryOf(np, d) = A[m[d]]
  <2>1. CASE e.dst \in D
    <3> DEFINE B == [A EXCEPT ![m[e.dst]] = e]
    <3>1. np = [A |-> B, m |-> m]
      BY <1>1, <2>1 DEF PutEntry, Dsts
    <3>2. B[m[e.dst]] = e /\ \A i \in DOMAIN A : i # m[e.dst] => B[i] = A[i]
      BY <1>1, <2>1
    <3>3. \A d \in D : d # e.dst => m[d] # m[e.dst]
      BY <1>1, <2>1
    <3> HIDE DEF A, m, B, np
    <3> QED
      BY <1>1, <2>1, <3>1, <3>2, <3>3 DEF Dsts, EntryOf
  <2>2. CASE e.dst \notin D
    <3> DEFINE B == Append(A, e)
               k == [d \in D \cup {e.dst} |-> IF d = e.dst THEN Len(A) + 1 ELSE m[d]]
    <3>1. np = [A |-> B, m |-> k]
      BY <2>2 DEF PutEntry, Dsts
    <3>2. A \in Seq(Values(A) \cup {e}) /\ e \in Values(A) \cup {e}
      <4>1. A \in [1..Len(A) -> Values(A) \cup {e}]
        BY <1>1 DEF Values
      <4> QED
        BY <1>1, <4>1
    <3>3. B[Len(A) + 1] = e /\ \A i \in 1..Len(A) : B[i] = A[i]
      <4> HIDE DEF A
      <4> QED
        BY <1>1, <3>2
    <3>4. k[e.dst] = Len(A) + 1 /\ DOMAIN k = D \cup {e.dst} /\ \A d \in D : k[d] = m[d]
      BY <2>2
    <3> HIDE DEF A, m, D, B, k, np
    <3> QED
      BY <1>1, <2>2, <3>1, <3>3, <3>4 DEF Dsts, EntryOf
  <2> QED
    BY <2>1, <2>2
<1> HIDE DEF np
<1>3. Content(np) = [d \in D \cup {e.dst} |-> IF d = e.dst THEN e ELSE Content(mp)[d]]
  <2>1. \A d \in D : Content(mp)[d] = A[m[d]]
    BY DEF Content, Dsts, EntryOf
  <2>2. Content(np) = [d \in Dsts(np) |-> EntryOf(np, d)]
    BY DEF Content
  <2> HIDE DEF A, m, D
  <2>3. \A d \in Dsts(np) : EntryOf(np, d) = IF d = e.dst THEN e ELSE Content(mp)[d]
    BY <1>2, <2>1
  <2> QED
    BY <1>2, <2>2, <2>3
<1>4. DOMAIN Content(mp) = D /\ Dsts(mp) = D /\ \A d \in D : EntryOf(mp, d) = A[m[d]]
  BY DEF Content, Dsts, EntryOf
<1> HIDE DEF A, m, D
<1> QED
  BY <1>2, <1>3, <1>4 DEF Abstract!Override, np

LEMMA EmptyContent == Content(EmptyMap) = << >>
<1>1. Dsts(EmptyMap) = {}
  BY DEF EmptyMap, Dsts
<1> QED
  BY <1>1 DEF Content

-----------------------------------------------------------------------------
(* The merge *)

LEMMA MergeOne ==
    ASSUME MapInv, MapsTyped, ControlInv, MergeInv, MergeNext
    PROVE  MergeInv'
<1>1. PICK A, n, e :
         A \in Seq(Entry) /\ n \in Nat /\ A = map.A /\ n = next /\ e = A[n + 1]
  BY DEF MapsTyped, ControlInv
<1>2. /\ pc = "merge" /\ pc' = pc /\ pend = <<>> /\ pend' = <<>>
      /\ map'.A = A /\ cfg' = PutEntry(cfg, e) /\ next' = n + 1
      /\ n < Len(A)
      /\ \A i \in 1..n : Merged(A[i])
  BY <1>1 DEF MergeNext, MergeInv, Busy, load
<1>3. DOMAIN A = 1..Len(A) /\ Len(A) \in Nat /\ n + 1 \in DOMAIN A /\ n + 1 <= Len(A)
  <2>1. n \in Nat /\ n < Len(A) /\ A \in Seq(Entry)
    BY <1>1, <1>2
  <2> QED
    BY <2>1
<1>4. \A i \in DOMAIN A : i # n + 1 => A[i].dst # e.dst
  BY <1>1, <1>3 DEF MapInv, WellFormed, Indexed
<1>5. /\ Dsts(cfg') = Dsts(cfg) \cup {e.dst}
      /\ EntryOf(cfg', e.dst) = e
      /\ \A d \in Dsts(cfg) : d # e.dst => EntryOf(cfg', d) = EntryOf(cfg, d)
  BY <1>2, PutContent DEF MapInv
<1>6. Merged(e)'
  BY <1>5 DEF Merged
<1>7. ASSUME NEW i \in 1..(n + 1) PROVE Merged(A[i])'
  <2>1. CASE i = n + 1
    BY <1>1, <1>6, <2>1
  <2>2. CASE i # n + 1
    <3>1. i \in 1..n /\ i \in DOMAIN A
      <4>1. n \in Nat
        BY <1>1
      <4> QED
        BY <1>3, <2>2, <4>1
    <3>2. A[i].dst # e.dst /\ Merged(A[i])
      BY <1>2, <1>4, <2>2, <3>1
    <3> QED
      BY <1>5, <3>2 DEF Merged
  <2> QED
    BY <2>1, <2>2
<1> QED
  BY <1>2, <1>3, <1>7 DEF MergeInv, Including

LEMMA MergeStep ==
    ASSUME SliceInv, MapInv, MapsTyped, ControlInv, MergeInv, [Next]_vars
    PROVE  MergeInv'
<1> USE DEF Including, Busy
<1>1. CASE Put
  BY <1>1 DEF Put, MergeInv, load, incl
<1>2. CASE ReadLine
  <2>1. UNCHANGED <<map, cfg>> /\ next' = next /\ pc = "read"
    <3>1. ASSUME NEW r, MaskLine(r) PROVE next' = next
      BY <3>1 DEF MaskLine, main, incl
    <3>2. next' = next
      BY <1>2, <3>1 DEF ReadLine, ReadMask, ReadClear, ReadPlain, ReadRegularRel, ReadAuto,
         ReadRecursive, ReadGlob, ReadElf, ReadElfGlob, ReadElfLib, ReadElfPath,
         ReadError, EndOfFile, EntryLine, main, incl
    <3> QED
      BY <1>2, <3>2, LineFrame, LineControl
  <2>2. next = 0
    BY <2>1 DEF MergeInv
  <2>3. CASE pc' \in {"read", "elf", "failed", "wait"}
    BY <2>1, <2>2, <2>3 DEF MergeInv
  <2>4. CASE pc' = "merge"
    <3>1. pend' = <<>>
      <4>1. ASSUME NEW r, MaskLine(r) PROVE pc' # "merge"
        BY <4>1 DEF MaskLine, NextLine
      <4>2. ASSUME NEW l, NEW then, EntryLine(l, then) PROVE pc' # "merge"
        BY <4>2 DEF EntryLine, NextLine
      <4>3. ReadError \/ EndOfFile
        BY <1>2, <2>4, <4>1, <4>2 DEF ReadLine, ReadMask, ReadClear, ReadPlain,
           ReadRegularRel, ReadAuto, ReadRecursive, ReadGlob, ReadElf, ReadElfGlob,
           ReadElfLib, ReadElfPath
      <4> QED
        BY <4>3 DEF ReadError, EndOfFile, main
    <3>2. Len(map.A) \in Nat
      BY DEF MapsTyped
    <3> QED
      BY <2>1, <2>2, <2>4, <3>1, <3>2 DEF MergeInv
  <2> QED
    BY <1>2, <2>3, <2>4, LineControl
<1>3. CASE AddElf
  <2>1. /\ pc = "elf" /\ next' = next
        /\ \/ pc' \in {"read", "elf", "failed", "spawn"}
           \/ pc' = "include" /\ ~Concurrent
    BY <1>3 DEF AddElf, NewJob, Inline, More
  <2> QED
    BY <2>1 DEF MergeInv
<1>4. CASE Spawn
  BY <1>4 DEF Spawn, More, MergeInv, main, incl
<1>5. CASE Wait
  BY <1>5 DEF Wait, MergeInv, main, incl, ControlInv
<1>6. CASE NextResult
  BY <1>6 DEF NextResult, MergeInv, ControlInv
<1>7. CASE ResultsDone
  <2>1. Len(map.A) \in Nat
    BY DEF MapsTyped
  <2> QED
    BY <1>7, <2>1 DEF ResultsDone, MergeInv
<1>8. CASE IncludeMain \/ IncludeLib \/ LibsDone
  <2>1. /\ pc \in {"include", "libs"} /\ next' = next
        /\ \/ Included \/ IncludeFails
           \/ pc' \in {"include", "libs"}
    BY <1>8 DEF IncludeMain, IncludeLib, LibsDone
  <2>2. /\ pc' \notin {"merge", "open", "done"}
        /\ Concurrent => pc' \in {"results", "include", "libs"}
    BY <2>1 DEF Included, IncludeFails, More
  <2> QED
    BY <2>1, <2>2 DEF MergeInv
<1>9. CASE MergeDone
  <2>1. DOMAIN map.A = 1..Len(map.A)
    BY DEF MapsTyped
  <2> QED
    BY <1>9, <2>1 DEF MergeDone, MergeInv, Merged
<1>10. CASE OpenFile
  BY <1>10 DEF OpenFile, MergeInv
<1>11. CASE OpenFails \/ FilesDone
  BY <1>11 DEF OpenFails, FilesDone, MergeInv, main, incl, Merged
<1>12. CASE UNCHANGED <<load, main>>
  BY <1>12 DEF load, main, incl, MergeInv, Merged
<1>13. Goroutines \/ Release \/ Terminated \/ UNCHANGED vars => UNCHANGED <<load, main>>
  BY GoroutineFrame DEF Terminated, vars, main
<1> QED
  BY <1>1, <1>2, <1>3, <1>4, <1>5, <1>6, <1>7, <1>8, <1>9, <1>10, <1>11, <1>12, <1>13,
     MergeOne DEF Next, MainThread, Include, Files

LEMMA MergedWhole ==
    ASSUME MapInv, MergeInv
    PROVE  FileMerged
<1>1. SUFFICES ASSUME pc \in {"open", "done"}, NEW d \in Dsts(map)
               PROVE  d \in Dsts(cfg) /\ EntryOf(cfg, d) = EntryOf(map, d)
  BY DEF FileMerged
<1>2. map.m[d] \in DOMAIN map.A /\ EntryOf(map, d).dst = d
      /\ EntryOf(map, d) = map.A[map.m[d]]
  BY DEF MapInv, WellFormed, Indexed, EntryOf
<1>3. Merged(EntryOf(map, d))
  BY <1>1, <1>2 DEF MergeInv
<1> QED
  BY <1>2, <1>3 DEF Merged

-----------------------------------------------------------------------------
(* The refinement: the values of LoadSpec's variables, and its actions in
   terms of them. *)

InLines == Eff(heap, Lines)
Deferred == [j \in DOMAIN jobs |-> Eff(heap, jobs[j].mm)]
Dicts == <<Content(map), Content(cfg)>>

Stutters == UNCHANGED <<InLines, InForce, Deferred, Taken, pend, Dicts>>

(* LoadSpec masks an entry as the code does. *)
LEMMA AbstractMasks ==
    ASSUME NEW s, NEW e
    PROVE  Abstract!ApplyMasks(s, e) = ApplyMasks(s, e)
BY DEF Abstract!ApplyMasks, Abstract!MaskStep, Abstract!MaskFunc, Abstract!Drops,
       Abstract!Exempt, Abstract!ElfTypes, Abstract!FoldLeft, Abstract!MapThenFoldSet,
       Abstract!Max, ApplyMasks, MaskStep, MaskFunc, Drops, Exempt, ElfTypes, FoldLeft,
       MapThenFoldSet, Max

LEMMA AbstractStutters ==
    ASSUME Stutters
    PROVE  UNCHANGED Abstract!vars
BY DEF Stutters, Abstract!vars, InLines, Lines, Deferred, Dicts

LEMMA AbstractSet ==
    ASSUME NEW l \in MaskLines, InForce = InLines,
           InLines' = Abstract!Set(InLines, l), InForce' = InLines',
           Taken = 0, UNCHANGED <<Deferred, Taken, pend, Dicts>>
    PROVE  Abstract!ChangeMasks
BY DEF Abstract!ChangeMasks, Abstract!NewMasks, InLines, Lines, Deferred, Dicts

LEMMA AbstractClear ==
    ASSUME NEW l \in ClearLines, InForce = InLines,
           InLines' = Abstract!Clear(InLines, l), InForce' = InLines',
           Taken = 0, UNCHANGED <<Deferred, Taken, pend, Dicts>>
    PROVE  Abstract!ChangeMasks
BY DEF Abstract!ChangeMasks, Abstract!NewMasks, InLines, Lines, Deferred, Dicts

LEMMA AbstractCall ==
    ASSUME pend = <<>>, pend' \in Seq(Queued),
           UNCHANGED <<InLines, InForce, Deferred, Taken, Dicts>>
    PROVE  Abstract!Call
BY OwnSeq DEF Abstract!Call, Abstract!Entry, Entry, InLines, Lines, Deferred, Dicts

LEMMA AbstractDefer ==
    ASSUME pend = <<>>, pend' \in Seq(Queued), InForce = InLines,
           Deferred' = Append(Deferred, InLines),
           Taken = 0, UNCHANGED <<InLines, InForce, Taken, Dicts>>
    PROVE  Abstract!Defer
BY OwnSeq DEF Abstract!Defer, Abstract!Entry, Entry, InLines, Lines, Deferred, Dicts

LEMMA AbstractPut ==
    ASSUME pend # <<>>, pend' = Tail(pend),
           Content(map)' = IF Next1.drop THEN Content(map)
                           ELSE Abstract!Override(Content(map), Next1.e),
           UNCHANGED <<InLines, InForce, Deferred, Taken, Content(cfg)>>
    PROVE  Abstract!Put
BY AbstractMasks DEF Abstract!Put, Abstract!Filter, Next1, InLines, Lines, Deferred

LEMMA AbstractTakeUp ==
    ASSUME pend = <<>>, NEW j \in DOMAIN jobs, Taken' = j,
           InForce' = Eff(heap, jobs[j].mm),
           UNCHANGED <<InLines, Deferred, pend, Dicts>>
    PROVE  Abstract!TakeUp
BY DEF Abstract!TakeUp, InLines, Lines, Deferred, Dicts

LEMMA AbstractLeave ==
    ASSUME pend = <<>>, Taken' = 0, InForce' = InLines,
           UNCHANGED <<InLines, Deferred, pend, Dicts>>
    PROVE  Abstract!Leave
BY DEF Abstract!Leave, InLines, Lines, Deferred, Dicts

LEMMA AbstractMerge ==
    ASSUME pend = <<>>, NEW d \in Dsts(map),
           Content(cfg)' = Abstract!Override(Content(cfg), EntryOf(map, d)),
           UNCHANGED <<InLines, InForce, Deferred, Taken, pend, Content(map)>>
    PROVE  Abstract!Merge
<1>1. d \in DOMAIN Content(map) /\ Content(map)[d] = EntryOf(map, d)
  BY DEF Content
<1> QED
  BY <1>1 DEF Abstract!Merge, InLines, Lines, Deferred

LEMMA AbstractNewFile ==
    ASSUME pend = <<>>, pend' = pend,
           \A d \in Dsts(map) : d \in Dsts(cfg) /\ EntryOf(cfg, d) = EntryOf(map, d),
           InLines' = <<>>, InForce' = <<>>, Deferred' = <<>>, Taken = 0, Taken' = 0,
           Content(map)' = << >>, Content(cfg)' = Content(cfg)
    PROVE  Abstract!NewFile
<1>1. \A d \in DOMAIN Content(map) : /\ d \in DOMAIN Content(cfg)
                                    /\ Content(cfg)[d] = Content(map)[d]
  BY DEF Content
<1> QED
  BY <1>1 DEF Abstract!NewFile, Abstract!Nothing, InLines, Lines, Deferred

-----------------------------------------------------------------------------
(* Every step of the code is a step of LoadSpec, or none. *)

Refines == Abstract!Next \/ Stutters

LEMMA DeferredKept ==
    ASSUME SameMasks, file' = file, DOMAIN jobs' = DOMAIN jobs
    PROVE  Deferred' = Deferred
BY DEF SameMasks, Deferred

(* Masks and scope stay while the slices do and the loop over the results goes
   on, or does not. *)
LEMMA ListsKept ==
    ASSUME UNCHANGED <<heap, mm, saved>>, Including' <=> Including
    PROVE  UNCHANGED <<InLines, InForce>>
BY DEF InLines, InForce, Lines

(* No result is included while the loop over them is not entered. *)
LEMMA NoneTaken ==
    /\ ~Including => Taken = 0
    /\ ~Including' => Taken' = 0
BY DEF Taken

LEMMA RefineLine ==
    ASSUME SliceInv, ShownInv, MainTyped', ReadLine
    PROVE  Refines
<1>1. /\ UNCHANGED <<file, saved, jobs, Dicts>>
      /\ ~Including /\ ~Including'
      /\ Lines = mm /\ Lines' = mm'
  BY LineFrame DEF pool, Lines, Dicts
<1>2. InForce = InLines /\ InForce' = InLines' /\ Taken = 0 /\ Taken' = 0
  BY <1>1, NoneTaken DEF InForce, InLines
<1>3. Deferred' = Deferred
  BY <1>1, LineStep, DeferredKept DEF Step
<1>4. heap \in Heaps /\ IsSlice(heap, mm) /\ Eff(heap, mm) \in Seq(Masks)
  BY DEF SliceInv, MasksOK, ShownInv, Shown
<1>5. ASSUME NEW l \in MaskLines, MaskLine(MaskSet(heap, mm, l)) PROVE Refines
  <2>1. PICK r : r = MaskSet(heap, mm, l)
    OBVIOUS
  <2>2. Eff(r.heap, r.mm) = Abstract!Set(Eff(heap, mm), l)
    BY <1>4, <2>1, SetShows, LinesAssumption
  <2>3. heap' = r.heap /\ mm' = r.mm /\ pend' = pend
    BY <1>5, <2>1 DEF MaskLine, main
  <2>4. InLines' = Abstract!Set(InLines, l)
    BY <1>1, <2>2, <2>3 DEF InLines
  <2> QED
    BY <1>1, <1>2, <1>3, <2>3, <2>4, AbstractSet DEF Refines, Abstract!Next
<1>6. ASSUME NEW l \in ClearLines, MaskLine(MaskDel(heap, mm, l)) PROVE Refines
  <2>1. PICK r : r = MaskDel(heap, mm, l)
    OBVIOUS
  <2>2. Eff(r.heap, r.mm) = Abstract!Clear(Eff(heap, mm), l)
    BY <1>4, <2>1, ClearShows, LinesAssumption
  <2>3. heap' = r.heap /\ mm' = r.mm /\ pend' = pend
    BY <1>6, <2>1 DEF MaskLine, main
  <2>4. InLines' = Abstract!Clear(InLines, l)
    BY <1>1, <2>2, <2>3 DEF InLines
  <2> QED
    BY <1>1, <1>2, <1>3, <2>3, <2>4, AbstractClear DEF Refines, Abstract!Next
<1>7. ASSUME NEW then, LineActs(then) PROVE Refines
  <2>1. pend = <<>> /\ pend' \in Seq(Queued) /\ UNCHANGED <<heap, mm, saved>>
    BY <1>7, LineLeaves DEF masks
  <2> QED
    BY <1>1, <1>2, <1>3, <2>1, ListsKept, AbstractCall DEF Refines, Abstract!Next
<1>8. CASE ReadError \/ EndOfFile
  <2>1. UNCHANGED <<heap, mm, saved, pend>>
    BY <1>8 DEF ReadError, EndOfFile, main, masks
  <2> QED
    BY <1>1, <1>2, <1>3, <2>1, ListsKept DEF Refines, Stutters
<1>9. InForce \in Seq(Masks)
  BY <1>4 DEF InForce
<1> QED
  BY <1>5, <1>6, <1>7, <1>8, <1>9, LineKinds

LEMMA SeqAppended ==
    ASSUME NEW n \in Nat, NEW S, NEW s \in Seq(S), Len(s) = n, NEW x \in S
    PROVE  [j \in 1..(n + 1) |-> IF j = n + 1 THEN x ELSE s[j]] = Append(s, x)
<1> DEFINE a == Append(s, x)
<1>1. a \in Seq(S) /\ Len(a) = n + 1 /\ a[n + 1] = x /\ \A j \in 1..n : a[j] = s[j]
  OBVIOUS
<1>2. a = [j \in 1..(n + 1) |-> a[j]]
  <2> HIDE DEF a
  <2> QED
    BY <1>1
<1>3. \A j \in 1..(n + 1) : a[j] = IF j = n + 1 THEN x ELSE s[j]
  <2> HIDE DEF a
  <2> QED
    BY <1>1
<1> HIDE DEF a
<1>4. a = [j \in 1..(n + 1) |-> IF j = n + 1 THEN x ELSE s[j]]
  BY <1>2, <1>3
<1> QED
  BY <1>4 DEF a

LEMMA RefineAddElf ==
    ASSUME SliceInv, MainTyped', AddElf
    PROVE  Refines
<1>1. /\ UNCHANGED <<file, mm, saved, Dicts>> /\ pend = <<>> /\ pend' \in Seq(Queued)
      /\ ~Including /\ Lines = mm
  BY DEF AddElf, Busy, Including, Lines, Dicts, MainTyped
<1>2. InForce = InLines /\ Taken = 0
  BY <1>1, NoneTaken DEF InForce, InLines
<1>3. ASSUME NEW e, NEW src, NewJob(e, src) PROVE Refines
  <2>1. PICK n : n = Len(jobs)
    OBVIOUS
  <2>2. /\ n \in Nat /\ DOMAIN jobs = 1..n /\ DOMAIN jobs' = 1..(n + 1)
        /\ \A j \in 1..n : /\ jobs'[j] = jobs[j]
                           /\ Eff(heap', jobs'[j].mm) = Eff(heap, jobs[j].mm)
        /\ Eff(heap', jobs'[n + 1].mm) = Eff(heap, mm)
        /\ Eff(heap', mm) = Eff(heap, mm)
    BY <1>1, <1>3, <2>1, JobAdded
  <2>3. ~Including' /\ Lines' = mm
    BY <1>1, <1>3 DEF NewJob, Including, Lines
  <2>4. UNCHANGED <<InLines, InForce, Taken>>
    BY <1>1, <1>2, <2>2, <2>3, NoneTaken DEF InLines, InForce
  <2>5. PICK old : old = Deferred
    OBVIOUS
  <2>6. PICK top : top = Eff(heap, mm)
    OBVIOUS
  <2>7. old = [j \in 1..n |-> Eff(heap, jobs[j].mm)]
    BY <2>2, <2>5 DEF Deferred
  <2>8. Deferred' = [j \in 1..(n + 1) |-> IF j = n + 1 THEN top ELSE old[j]]
    <3>1. \A j \in 1..(n + 1) : j \in 1..n \/ j = n + 1
      BY <2>2
    <3>2. \A j \in 1..(n + 1) : Eff(heap', jobs'[j].mm) = IF j = n + 1 THEN top ELSE old[j]
      BY <2>2, <2>6, <2>7, <3>1
    <3>3. Deferred' = [j \in 1..(n + 1) |-> Eff(heap', jobs'[j].mm)]
      BY <2>2 DEF Deferred
    <3> QED
      BY <3>2, <3>3
  <2>9. [j \in 1..(n + 1) |-> IF j = n + 1 THEN top ELSE old[j]] = Append(old, top)
    <3>1. /\ old \in Seq(Values(old) \cup {top}) /\ Len(old) = n
          /\ top \in Values(old) \cup {top}
      <4>1. old \in [1..n -> Values(old) \cup {top}]
        BY <2>7 DEF Values
      <4> QED
        BY <2>2, <4>1
    <3> QED
      BY <2>2, <3>1, SeqAppended
  <2>10. Deferred' = Append(Deferred, InLines)
    BY <1>1, <2>5, <2>6, <2>8, <2>9 DEF InLines
  <2> QED
    BY <1>1, <1>2, <2>4, <2>10, AbstractDefer DEF Refines, Abstract!Next
<1>4. CASE ~\E e, src : NewJob(e, src)
  <2>1. UNCHANGED <<heap, jobs>> /\ ~Including'
    BY <1>4 DEF AddElf, Inline, pool, Including, More
  <2>2. UNCHANGED <<InLines, InForce, Deferred, Taken>>
    <3>1. UNCHANGED <<InLines, InForce>>
      BY <1>1, <2>1, ListsKept
    <3> QED
      BY <1>2, <2>1, <3>1, NoneTaken DEF Deferred
  <2> QED
    BY <1>1, <2>2, AbstractCall DEF Refines, Abstract!Next
<1> QED
  BY <1>3, <1>4

LEMMA RefineInclude ==
    ASSUME SliceInv, ControlInv, MergeInv, MainTyped', Include
    PROVE  Refines
<1>1. UNCHANGED <<file, heap, jobs, elf, Deferred, Dicts>>
  <2>1. UNCHANGED <<file, heap, jobs, elf, map, cfg>>
    BY DEF Include, Wait, NextResult, ResultsDone, IncludeMain, IncludeLib, LibsDone,
       masks, pool, main
  <2> QED
    BY <2>1 DEF Deferred, Dicts
<1>2. pend' \in Seq(Queued)
  BY DEF MainTyped
<1>3. CASE Wait
  <2>1. UNCHANGED <<mm, pend>> /\ saved' = mm /\ ~Including
    BY <1>3 DEF Wait, main, Including
  <2>2. UNCHANGED <<InLines, InForce, Taken>>
    <3>1. next = 0 /\ next' = 0
      BY <1>3, <2>1 DEF Wait, main, incl, MergeInv
    <3> QED
      BY <1>1, <2>1, <3>1 DEF InLines, InForce, Lines, Taken
  <2> QED
    BY <1>1, <2>1, <2>2 DEF Refines, Stutters
<1>4. CASE NextResult
  <2>1. /\ pend = <<>> /\ pend' = pend /\ saved' = saved /\ Including /\ Including'
        /\ next \in Nat /\ next < Len(elf)
        /\ elf \in Seq(DOMAIN jobs)
        /\ mm' = jobs[elf[next + 1]].mm
    BY <1>4 DEF NextResult, Busy, Including, ControlInv, SliceInv, LockOK
  <2>2. elf[next + 1] \in DOMAIN jobs
    BY <2>1
  <2>3. PICK j \in DOMAIN jobs : mm' = jobs[j].mm /\ j = elf[next + 1]
    BY <2>1, <2>2
  <2>4. InForce' = Eff(heap, jobs[j].mm) /\ InLines' = InLines
    BY <1>1, <2>1, <2>3 DEF InForce, InLines, Lines
  <2>5. Taken' = j
    <3>1. next' = next + 1
      BY <1>4 DEF NextResult
    <3> QED
      BY <1>1, <2>1, <2>3, <3>1 DEF Taken
  <2> QED
    BY <1>1, <2>1, <2>4, <2>5, AbstractTakeUp DEF Refines, Abstract!Next
<1>5. CASE ResultsDone
  <2>1. /\ pend = <<>> /\ pend' = pend /\ saved' = saved /\ mm' = saved
        /\ Including /\ ~Including'
    BY <1>5 DEF ResultsDone, Busy, Including, ControlInv
  <2>2. InForce' = InLines /\ InLines' = InLines
    BY <1>1, <2>1 DEF InForce, InLines, Lines
  <2> QED
    BY <1>1, <2>1, <2>2, NoneTaken, AbstractLeave DEF Refines, Abstract!Next
<1>6. CASE IncludeMain \/ IncludeLib \/ LibsDone
  <2>1. UNCHANGED <<mm, saved, next>> /\ pend = <<>> /\ pc \in {"include", "libs"}
    BY <1>6 DEF IncludeMain, IncludeLib, LibsDone, masks, Busy
  <2>2. Included \/ IncludeFails \/ pc' \in {"include", "libs"}
    BY <1>6 DEF IncludeMain, IncludeLib, LibsDone
  <2>3. Including' <=> Including
    BY <2>1, <2>2 DEF Included, IncludeFails, More, Including
  <2>4. UNCHANGED <<InLines, InForce, Taken>>
    BY <1>1, <2>1, <2>3, ListsKept DEF Taken
  <2> QED
    BY <1>1, <1>2, <2>1, <2>4, AbstractCall DEF Refines, Abstract!Next
<1> QED
  BY <1>3, <1>4, <1>5, <1>6 DEF Include

LEMMA RefinePut ==
    ASSUME MapInv, MainTyped, ShownInv, Put
    PROVE  Refines
<1>1. /\ pend # <<>> /\ pend' = Tail(pend) /\ cfg' = cfg
      /\ UNCHANGED <<heap, mm, saved, jobs, elf, next>> /\ (Including' <=> Including)
      /\ map' = IF Next1.drop THEN map ELSE PutEntry(map, Next1.e)
  BY DEF Put, Busy, Next1, load, masks, pool, incl, Including
<1>2. UNCHANGED <<InLines, InForce, Deferred, Taken>>
  <2>1. UNCHANGED <<InLines, InForce>>
    BY <1>1, ListsKept
  <2> QED
    BY <1>1, <2>1 DEF Deferred, Taken
<1>3. Content(map)' = IF Next1.drop THEN Content(map)
                      ELSE Abstract!Override(Content(map), Next1.e)
  <2>1. Content(PutEntry(map, Next1.e)) = Abstract!Override(Content(map), Next1.e)
    BY PutContent DEF MapInv
  <2> QED
    BY <1>1, <2>1
<1> QED
  BY <1>1, <1>2, <1>3, AbstractPut DEF Refines, Abstract!Next

LEMMA RefineFiles ==
    ASSUME SliceInv, MapInv, MapsTyped, ControlInv, MergeInv, Files
    PROVE  Refines
<1> UNCHANGED Taken /\ Taken = 0
  <2>1. ~Including /\ ~Including'
    BY DEF Files, MergeNext, MergeDone, OpenFile, OpenFails, FilesDone, NewMap, Including, load
  <2> QED
    BY <2>1, NoneTaken
<1>1. CASE MergeNext
  <2>1. /\ pend = <<>> /\ UNCHANGED <<heap, mm, saved, jobs, pend, map>>
        /\ (Including' <=> Including)
        /\ next < Len(map.A) /\ next \in Nat /\ map.A \in Seq(Entry)
        /\ cfg' = PutEntry(cfg, map.A[next + 1])
    BY <1>1 DEF MergeNext, Busy, load, masks, pool, Including, ControlInv, MapsTyped
  <2>2. PICK e : e = map.A[next + 1]
    OBVIOUS
  <2>3. next + 1 \in DOMAIN map.A
    BY <2>1
  <2>4. e.dst \in Dsts(map) /\ EntryOf(map, e.dst) = e
    BY <2>2, <2>3 DEF MapInv, WellFormed, Indexed, EntryOf
  <2>5. Content(cfg)' = Abstract!Override(Content(cfg), e)
    <3>1. Content(PutEntry(cfg, e)) = Abstract!Override(Content(cfg), e)
      BY PutContent DEF MapInv
    <3> QED
      BY <2>1, <2>2, <3>1
  <2>6. PICK d \in Dsts(map) : EntryOf(map, d) = e
    BY <2>4
  <2>7. UNCHANGED <<InLines, InForce>>
    BY <2>1, ListsKept
  <2>8. UNCHANGED <<Deferred, Content(map)>>
    BY <2>1 DEF Deferred
  <2> QED
    BY <2>1, <2>5, <2>6, <2>7, <2>8, AbstractMerge DEF Refines, Abstract!Next
<1>2. CASE OpenFile
  <2>1. /\ pend = <<>> /\ pend' = pend /\ cfg' = cfg /\ map' = EmptyMap
        /\ heap' = <<>> /\ mm' = NilSlice /\ saved' = NilSlice /\ jobs' = <<>>
    BY <1>2 DEF OpenFile, NewMap, MergeInv
  <2>2. \A d \in Dsts(map) : d \in Dsts(cfg) /\ EntryOf(cfg, d) = EntryOf(map, d)
    BY <1>2, MergedWhole DEF OpenFile, FileMerged
  <2>3. InLines' = <<>> /\ InForce' = <<>> /\ Deferred' = <<>>
    BY <2>1 DEF InLines, InForce, Lines, Eff, NilSlice, Deferred
  <2>4. Content(map)' = << >> /\ Content(cfg)' = Content(cfg)
    BY <2>1, EmptyContent
  <2> QED
    BY <2>1, <2>2, <2>3, <2>4, AbstractNewFile DEF Refines, Abstract!Next
<1>3. CASE MergeDone \/ OpenFails \/ FilesDone
  <2>1. UNCHANGED <<heap, mm, saved, jobs, pend, map, cfg>> /\ (Including' <=> Including)
    BY <1>3 DEF MergeDone, OpenFails, FilesDone, masks, pool, main, Including
  <2>2. UNCHANGED <<InLines, InForce>>
    BY <2>1, ListsKept
  <2> QED
    BY <2>1, <2>2 DEF Refines, Stutters, Deferred, Dicts
<1> QED
  BY <1>1, <1>2, <1>3 DEF Files

(* The goroutines and the tokens show in no variable of LoadSpec. *)
LEMMA RefineOther ==
    ASSUME SliceInv, PoolInv, ControlInv,
           Spawn \/ Goroutines \/ Release \/ Terminated \/ UNCHANGED vars
    PROVE  Refines
<1>1. UNCHANGED <<masks, main>> /\ (Including' <=> Including)
  BY GoroutineFrame DEF Spawn, More, Terminated, vars, load, main, Including
<1>2. file' = file
  BY GoroutineFrame DEF Spawn, Terminated, vars, load
<1>3. SameMasks
  BY NextStep DEF Step, Next, MainThread
<1>4. DOMAIN jobs' = DOMAIN jobs
  BY DEF Spawn, Goroutines, Goroutine, Lock, Record, Unlock, WgDone, Stage, Release,
     Terminated, vars, pool
<1>5. Deferred' = Deferred
  BY <1>2, <1>3, <1>4, DeferredKept
<1>6. UNCHANGED <<InLines, InForce>>
  BY <1>1, ListsKept DEF masks
<1>7. Taken' = Taken
  <2>1. CASE ~Including
    BY <1>1, <2>1, NoneTaken
  <2>2. CASE Including
    <3>1. InStages(Pending) = {}
      BY <2>2 DEF Including, PoolInv, SettledInv, Settled
    <3>2. ~Goroutines
      BY <3>1 DEF InStages, Pending, Goroutines, Goroutine, Lock, Record, Unlock, WgDone, Stage
    <3>3. elf' = elf
      BY <3>2 DEF Spawn, Release, Terminated, vars, pool
    <3> QED
      BY <1>1, <3>3 DEF Taken, main, incl
  <2> QED
    BY <2>1, <2>2
<1> QED
  BY <1>1, <1>5, <1>6, <1>7 DEF Refines, Stutters, Dicts, main

LEMMA RefineStep ==
    ASSUME SliceInv, PoolInv, ControlInv, MapInv, ShownInv, MainTyped, MainTyped',
           MapsTyped, MergeInv, [Next]_vars
    PROVE  Refines
BY RefineLine, RefineAddElf, RefineInclude, RefinePut, RefineFiles, RefineOther
   DEF Next, MainThread

-----------------------------------------------------------------------------
(* The lists of LoadSpec hold masks, so the slices show none but masks. *)

LEMMA ListTyped ==
    ASSUME NEW s \in Seq(Masks)
    PROVE  /\ \A l \in MaskLines : Abstract!Set(s, l) \in Seq(Masks)
           /\ \A l \in ClearLines : Abstract!Clear(s, l) \in Seq(Masks)
<1>1. ASSUME NEW l \in MaskLines PROVE Abstract!Set(s, l) \in Seq(Masks)
  <2>1. l.mask \in Masks /\ l.idx \in Int
    BY LinesAssumption
  <2> QED
    BY <2>1 DEF Abstract!Set
<1>2. ASSUME NEW l \in ClearLines PROVE Abstract!Clear(s, l) \in Seq(Masks)
  <2> DEFINE i == l.idx
             n == Len(s)
  <2>1. i \in Int /\ n \in Nat
    BY LinesAssumption
  <2>2. i \in 0..(n - 1) => Without(s, i) \in Seq(Masks)
    <3>1. n = Len(s)
      OBVIOUS
    <3> HIDE DEF i, n
    <3> QED
      BY <2>1, <3>1, CutOut
  <2>3. i < 0 /\ n + i >= 0 => SubSeq(s, 1, n + i) \in Seq(Masks)
    <3> HIDE DEF i
    <3> QED
      BY <2>1
  <2>4. \/ Abstract!Clear(s, l) = <<>>
        \/ i \in 0..(n - 1) /\ Abstract!Clear(s, l) = Without(s, i)
        \/ i < 0 /\ n + i >= 0 /\ Abstract!Clear(s, l) = SubSeq(s, 1, n + i)
        \/ Abstract!Clear(s, l) = s
    BY DEF Abstract!Clear, Without
  <2>5. <<>> \in Seq(Masks) /\ s \in Seq(Masks)
    OBVIOUS
  <2> DEFINE new == Abstract!Clear(s, l)
             cut == Without(s, i)
             front == SubSeq(s, 1, n + i)
  <2>6. /\ i \in 0..(n - 1) => cut \in Seq(Masks)
        /\ i < 0 /\ n + i >= 0 => front \in Seq(Masks)
        /\ \/ new = <<>>
           \/ i \in 0..(n - 1) /\ new = cut
           \/ i < 0 /\ n + i >= 0 /\ new = front
           \/ new = s
    BY <2>2, <2>3, <2>4
  <2> HIDE DEF i, n, new, cut, front
  <2>7. new \in Seq(Masks)
    BY <2>5, <2>6
  <2> QED
    BY <2>7 DEF new
<1> QED
  BY <1>1, <1>2

DeferredTyped == \A j \in DOMAIN Deferred : Deferred[j] \in Seq(Masks)

LEMMA ShownStep ==
    ASSUME ShownInv, Refines
    PROVE  ShownInv'
<1>1. InForce \in Seq(Masks) /\ InLines \in Seq(Masks) /\ DeferredTyped
  BY DEF ShownInv, Shown, InForce, InLines, DeferredTyped, Deferred
<1>2. InForce' \in Seq(Masks) /\ InLines' \in Seq(Masks) /\ DeferredTyped' => ShownInv'
  BY DEF ShownInv, Shown, InForce, InLines, DeferredTyped, Deferred
<1>3. CASE Stutters
  BY <1>1, <1>2, <1>3 DEF Stutters, DeferredTyped
<1>4. CASE Abstract!ChangeMasks
  <2>1. /\ \/ \E l \in MaskLines : InLines' = Abstract!Set(InLines, l)
           \/ \E l \in ClearLines : InLines' = Abstract!Clear(InLines, l)
        /\ InForce' = InLines' /\ Deferred' = Deferred
    BY <1>4 DEF Abstract!ChangeMasks, Abstract!NewMasks, InLines, Lines, Deferred
  <2> QED
    BY <1>1, <1>2, <2>1, ListTyped DEF DeferredTyped
<1>5. CASE Abstract!Call \/ Abstract!Put \/ Abstract!Merge
  <2>1. InLines' = InLines /\ InForce' = InForce /\ Deferred' = Deferred
    BY <1>5 DEF Abstract!Call, Abstract!Put, Abstract!Merge, InLines, Lines, Deferred
  <2> QED
    BY <1>1, <1>2, <2>1 DEF DeferredTyped
<1>6. CASE Abstract!Defer
  <2>1. /\ Deferred' = Append(Deferred, InLines)
        /\ InLines' = InLines /\ InForce' = InForce
    BY <1>6 DEF Abstract!Defer, InLines, Lines, Deferred
  <2>2. DeferredTyped'
    BY <1>1, <2>1 DEF DeferredTyped
  <2> QED
    BY <1>1, <1>2, <2>1, <2>2
<1>7. CASE Abstract!TakeUp
  <2>1. /\ \E j \in DOMAIN Deferred : InForce' = Deferred[j]
        /\ InLines' = InLines /\ Deferred' = Deferred
    BY <1>7 DEF Abstract!TakeUp, InLines, Lines, Deferred
  <2> QED
    BY <1>1, <1>2, <2>1 DEF DeferredTyped
<1>8. CASE Abstract!Leave
  <2>1. InForce' = InLines /\ InLines' = InLines /\ Deferred' = Deferred
    BY <1>8 DEF Abstract!Leave, InLines, Lines, Deferred
  <2> QED
    BY <1>1, <1>2, <2>1 DEF DeferredTyped
<1>9. CASE Abstract!NewFile
  <2>1. InForce' = <<>> /\ InLines' = <<>> /\ Deferred' = <<>>
    BY <1>9 DEF Abstract!NewFile, InLines, Lines, Deferred
  <2> QED
    BY <1>2, <2>1 DEF DeferredTyped
<1> QED
  BY <1>3, <1>4, <1>5, <1>6, <1>7, <1>8, <1>9 DEF Refines, Abstract!Next

-----------------------------------------------------------------------------
(* The results of -elf.concurrent *)

(* What job j resolves, and what it adds for library v. *)
Work(j) == [e |-> jobs[j].e, src |-> jobs[j].src]
LibAdds(c, v) == ToSet(Links(Expansion[v])) \cup {LibEntry(c, Expansion[v].path)}

(* The results that are included, and what those from the i-th on produced. *)
Reached == IF Including THEN next ELSE Len(elf)
Since(i) == UNION {Produced(elf[k]) : k \in i..Reached}

(* The destination of p, of the i-th result, has p or what a result replaced it
   by that is not before it in the list. *)
Placed(i, p) == p.dst \in Dsts(map) /\ EntryOf(map, p.dst) \in Since(i)

(* What the masks of job j leave of e. *)
MaskedBy(j, e) == ApplyMasks(Eff(heap, jobs[j].mm), e)
Placing(i, e) ==
    LET r == MaskedBy(elf[i], e) IN ~r.drop => Placed(i, r.e)

(* What is still to be put of the result that is included. *)
PendSet == {pend[k].e : k \in DOMAIN pend}
Left == PendSet \cup (IF pc = "include" THEN Adds(cur)
                      ELSE IF pc = "libs" THEN UNION {LibAdds(cur, v) : v \in libs}
                      ELSE {})

(* The masks and the entries at hand are those of the job the loop is at. *)
ResultNow ==
    /\ next \in 0..Len(elf)
    /\ next > 0 => mm = jobs[elf[next]].mm /\ Left \subseteq Adds(Work(elf[next]))
    /\ next = 0 => pend = <<>>
    /\ pc \in {"include", "libs"} => next > 0 /\ cur = Work(elf[next])
    /\ \A k \in DOMAIN pend : ~pend[k].masked

(* What the jobs before add is placed, and of this one what is not left. *)
ResultsSoFar ==
    \A i \in 1..next : \A e \in Adds(Work(elf[i])) :
        Placing(i, e) \/ (i = next /\ e \in Left)

ResultInv ==
    /\ pc = "wait" => pend = <<>>
    /\ Including => ResultNow /\ (~bad => ResultsSoFar)
    /\ Concurrent /\ pc = "merge" /\ next = 0 =>
         \A i \in 1..Len(elf) : \A e \in Adds(Work(elf[i])) : Placing(i, e)

LEMMA ProducedIs ==
    ASSUME NEW j
    PROVE  /\ \A e \in Adds(Work(j)) : ~MaskedBy(j, e).drop => MaskedBy(j, e).e \in Produced(j)
           /\ \A p \in Produced(j) :
                 \E e \in Adds(Work(j)) : ~MaskedBy(j, e).drop /\ p = MaskedBy(j, e).e
BY DEF Produced, Filtered, Work, MaskedBy

(* What is placed stays so when the result that is included puts an entry, and
   when the next one is taken up. *)
LEMMA PlacedKept ==
    ASSUME MapInv, UNCHANGED <<heap, jobs, elf>>,
           Reached \in Nat, Reached' \in Nat, Reached <= Reached',
           map' = map \/ \E e \in Produced(elf[Reached']) : map' = PutEntry(map, e)
    PROVE  /\ \A j : Work(j)' = Work(j)
           /\ \A j, e : MaskedBy(j, e)' = MaskedBy(j, e)
           /\ \A j : Produced(j)' = Produced(j)
           /\ \A i \in 1..Reached : \A e : Placing(i, e) => Placing(i, e)'
<1>1. \A j : Produced(j)' = Produced(j)
  BY DEF Produced
<1>2. \A j : Work(j)' = Work(j)
  BY DEF Work
<1>3. \A j, e : MaskedBy(j, e)' = MaskedBy(j, e)
  BY DEF MaskedBy
<1>4. ASSUME NEW i \in 1..Reached
      PROVE  /\ Since(i) \subseteq Since(i)'
             /\ Produced(elf[Reached']) \subseteq Since(i)'
  <2>1. PICK m, n : m = Reached /\ n = Reached'
    OBVIOUS
  <2>2. i..m \subseteq i..n /\ n \in i..n
    BY <2>1
  <2>3. /\ Since(i) = UNION {Produced(elf[k]) : k \in i..m}
        /\ Since(i)' = UNION {Produced(elf[k]) : k \in i..n}
    BY <1>1, <2>1 DEF Since
  <2> QED
    BY <2>1, <2>2, <2>3
<1>5. ASSUME NEW i \in 1..Reached, NEW p, Placed(i, p)
      PROVE  p.dst \in Dsts(map') /\ EntryOf(map', p.dst) \in Since(i)'
  <2>1. CASE map' = map
    BY <1>4, <1>5, <2>1 DEF Placed
  <2>2. CASE \E e \in Produced(elf[Reached']) : map' = PutEntry(map, e)
    <3>1. PICK e \in Produced(elf[Reached']) : map' = PutEntry(map, e)
      BY <2>2
    <3>2. /\ Dsts(map') = Dsts(map) \cup {e.dst} /\ EntryOf(map', e.dst) = e
          /\ \A d \in Dsts(map) : d # e.dst => EntryOf(map', d) = EntryOf(map, d)
      BY <3>1, PutContent DEF MapInv
    <3> QED
      BY <1>4, <1>5, <3>1, <3>2 DEF Placed
  <2> QED
    BY <2>1, <2>2
<1>6. \A i \in 1..Reached : \A p : Placed(i, p) => Placed(i, p)'
  BY <1>5 DEF Placed
<1>7. ASSUME NEW i \in 1..Reached, NEW e, Placing(i, e)
      PROVE  Placing(i, e)'
  BY <1>3, <1>6, <1>7 DEF Placing
<1> QED
  BY <1>1, <1>2, <1>3, <1>7

LEMMA AddedSet ==
    ASSUME NEW es
    PROVE  /\ {Added(es)[k].e : k \in DOMAIN Added(es)} = ToSet(es)
           /\ \A k \in DOMAIN Added(es) : ~Added(es)[k].masked
<1>1. DOMAIN Added(es) = DOMAIN es
      /\ \A k \in DOMAIN es : Added(es)[k] = [e |-> es[k], masked |-> FALSE]
  BY DEF Added
<1> QED
  BY <1>1 DEF ToSet

LEMMA AppendSet ==
    ASSUME NEW S, NEW s \in Seq(S), NEW x \in S
    PROVE  ToSet(Append(s, x)) = ToSet(s) \cup {x}
<1> DEFINE t == Append(s, x)
           n == Len(s)
<1>1. /\ DOMAIN t = 1..(n + 1) /\ DOMAIN s = 1..n /\ n \in Nat
      /\ t[n + 1] = x /\ \A i \in 1..n : t[i] = s[i]
  OBVIOUS
<1> HIDE DEF t, n
<1>2. \A i : i \in 1..(n + 1) <=> i \in 1..n \/ i = n + 1
  BY <1>1
<1> QED
  BY <1>1, <1>2 DEF ToSet, t

(* A step that puts nothing and goes on with the same job. *)
LEMMA ResultQuiet ==
    ASSUME MapInv, ResultNow, ~bad => ResultsSoFar,
           UNCHANGED <<heap, mm, map, jobs, elf, next, cur>>, Including, Including',
           pc' \in {"include", "libs"} => pc \in {"include", "libs"},
           Left' \subseteq Left,
           ~bad' => ~bad /\ Left \subseteq Left',
           \A k \in DOMAIN pend' : ~pend'[k].masked,
           next = 0 => pend' = <<>>
    PROVE  ResultNow' /\ (~bad' => ResultsSoFar')
<1>1. /\ \A j : Work(j)' = Work(j)
      /\ \A i \in 1..next : \A e : Placing(i, e) => Placing(i, e)'
  <2>1. Reached = next /\ Reached' = next /\ next \in Nat /\ next <= next
    BY DEF Reached, ResultNow
  <2> QED
    BY <2>1, PlacedKept
<1>2. ResultNow'
  BY <1>1 DEF ResultNow
<1>3. ~bad' => ResultsSoFar'
  BY <1>1 DEF ResultsSoFar
<1> QED
  BY <1>2, <1>3

(* An entry of the job is put, after the job's masks. *)
LEMMA ResultPut ==
    ASSUME MapInv, LockOK, MainTyped, ResultInv, Including, Put
    PROVE  ResultInv'
<1>1. /\ pend # <<>> /\ pend \in Seq(Queued) /\ pend' = Tail(pend)
      /\ UNCHANGED <<pc, next, heap, mm, jobs, elf, cur, libs, bad>>
      /\ ResultNow /\ (~bad => ResultsSoFar) /\ Including'
  BY DEF Put, Busy, MainTyped, ResultInv, load, masks, pool, incl, Including
<1>2. PICK p, j, r : p = Head(pend) /\ j = elf[next] /\ r = MaskedBy(j, p.e)
  OBVIOUS
<1>3. next > 0 /\ next \in 1..Len(elf) /\ j \in DOMAIN jobs /\ mm = jobs[j].mm
  <2>1. next > 0 /\ next \in 1..Len(elf)
    BY <1>1 DEF ResultNow
  <2>2. elf \in Seq(DOMAIN jobs)
    BY DEF LockOK
  <2> QED
    BY <1>1, <1>2, <2>1, <2>2 DEF ResultNow
<1>4. /\ p = pend[1] /\ 1 \in DOMAIN pend
      /\ \A k \in DOMAIN pend : k = 1 \/ (k - 1 \in DOMAIN pend' /\ pend'[k - 1] = pend[k])
      /\ \A k \in DOMAIN pend' : k + 1 \in DOMAIN pend /\ pend'[k] = pend[k + 1]
  <2> DEFINE s == pend
             n == Len(s)
             t == Tail(s)
  <2>1. /\ n \in Nat /\ n > 0 /\ DOMAIN s = 1..n /\ DOMAIN t = 1..(n - 1)
        /\ Head(s) = s[1] /\ \A k \in 1..(n - 1) : t[k] = s[k + 1]
    BY <1>1
  <2>2. pend' = t /\ p = Head(s)
    BY <1>1, <1>2
  <2> HIDE DEF n, t
  <2>3. \A k \in 1..n : k = 1 \/ (k - 1 \in 1..(n - 1) /\ t[k - 1] = s[k])
    <3>1. ASSUME NEW k \in 1..n, k # 1 PROVE k - 1 \in 1..(n - 1) /\ t[k - 1] = s[k]
      <4>1. k - 1 \in 1..(n - 1) /\ (k - 1) + 1 = k
        BY <2>1, <3>1
      <4> QED
        BY <2>1, <4>1
    <3> QED
      BY <3>1
  <2>4. \A k \in 1..(n - 1) : k + 1 \in 1..n
    BY <2>1
  <2> QED
    BY <2>1, <2>2, <2>3, <2>4
<1>5. PendSet \subseteq PendSet' \cup {p.e} /\ PendSet' \subseteq PendSet /\ p.e \in PendSet
  BY <1>4 DEF PendSet
<1>6. /\ Left \subseteq Left' \cup {p.e} /\ Left' \subseteq Left /\ p.e \in Left
  BY <1>1, <1>5 DEF Left
<1>7. p.e \in Adds(Work(j)) /\ ~p.masked
  BY <1>1, <1>2, <1>3, <1>4, <1>6 DEF ResultNow
<1>8. map' = IF r.drop THEN map ELSE PutEntry(map, r.e)
  BY <1>2, <1>3, <1>7 DEF Put, MaskedBy, InForce
<1>9. ~r.drop => r.e \in Produced(j)
  BY <1>2, <1>3, <1>7, ProducedIs
<1>10. /\ \A i : Work(i)' = Work(i)
       /\ \A i \in 1..next : \A e : Placing(i, e) => Placing(i, e)'
       /\ \A i : Produced(i)' = Produced(i)
       /\ \A i, e : MaskedBy(i, e)' = MaskedBy(i, e)
       /\ Reached' = next
  <2>1. Reached = next /\ Reached' = next /\ next \in Nat /\ next <= next
    BY <1>1, <1>3 DEF Reached
  <2>2. map' = map \/ \E e \in Produced(elf[Reached']) : map' = PutEntry(map, e)
    BY <1>2, <1>8, <1>9, <2>1
  <2>3. UNCHANGED <<heap, jobs, elf>>
    BY <1>1
  <2> QED
    BY <2>1, <2>2, <2>3, PlacedKept
<1>11. Placing(next, p.e)'
  <2>1. MaskedBy(elf[next], p.e)' = r
    BY <1>1, <1>2, <1>10
  <2>2. ASSUME ~r.drop PROVE Placed(next, r.e)'
    <3>1. r.e.dst \in Dsts(map') /\ EntryOf(map', r.e.dst) = r.e
      BY <1>8, <2>2, PutContent DEF MapInv
    <3>2. \A n \in Int : n \in n..n
      OBVIOUS
    <3>3. Produced(j) \subseteq Since(next)'
      BY <1>1, <1>2, <1>3, <1>10, <3>2 DEF Since
    <3> QED
      BY <1>1, <1>9, <2>2, <3>1, <3>3 DEF Placed
  <2> QED
    BY <1>1, <2>1, <2>2 DEF Placing
<1>12. \A k \in DOMAIN pend' : ~pend'[k].masked
  BY <1>1, <1>4 DEF ResultNow
<1>13. ResultNow'
  BY <1>1, <1>3, <1>6, <1>10, <1>12 DEF ResultNow
<1>14. ~bad' => ResultsSoFar'
  BY <1>1, <1>2, <1>6, <1>10, <1>11 DEF ResultsSoFar
<1>15. pc \notin {"wait", "merge"}
  BY DEF Including
<1> QED
  BY <1>1, <1>13, <1>14, <1>15 DEF ResultInv

(* The loop goes on with the next job: all it adds is left. *)
LEMMA ResultNext ==
    ASSUME MapInv, LockOK, MainTyped, ResultInv, Including, NextResult
    PROVE  ResultInv'
<1>1. PICK n, list : n = next /\ list = elf
  OBVIOUS
<1>2. /\ pc = "results" /\ pc' = "include" /\ pend = <<>> /\ pend' = <<>>
      /\ n < Len(list) /\ next' = n + 1 /\ elf' = list
      /\ UNCHANGED <<heap, map, jobs, bad>>
      /\ mm' = jobs[list[n + 1]].mm /\ cur' = Work(list[n + 1])
      /\ ResultNow /\ (~bad => ResultsSoFar)
  BY <1>1 DEF NextResult, Busy, ResultInv, pool, Work
<1>3. n \in Nat /\ Len(list) \in Nat
  BY <1>1 DEF ResultNow, ResultInv, LockOK
<1>4. /\ \A i : Work(i)' = Work(i)
      /\ \A i \in 1..n : \A e : Placing(i, e) => Placing(i, e)'
  <2>1. Including'
    BY <1>2 DEF NextResult, Including
  <2>2. Reached = n /\ Reached' = n + 1 /\ n + 1 \in Nat /\ n <= n + 1
    BY <1>1, <1>2, <1>3, <2>1 DEF Reached
  <2> QED
    BY <1>1, <1>2, <1>3, <2>2, PlacedKept
<1>5. Left = {} /\ Left' = Adds(Work(list[n + 1]))
  BY <1>2 DEF Left, PendSet
<1>6. ResultNow'
  <2>1. /\ n + 1 \in 0..Len(list) /\ n + 1 > 0 /\ n + 1 # 0
    BY <1>2, <1>3
  <2> QED
    BY <1>2, <1>4, <1>5, <2>1 DEF ResultNow
<1>7. ASSUME ~bad, NEW i \in 1..(n + 1), NEW e \in Adds(Work(list[i])), i # n + 1
      PROVE  Placing(i, e)'
  <2>1. i \in 1..n
    BY <1>3, <1>7
  <2>2. Placing(i, e)
    BY <1>1, <1>2, <1>5, <1>7, <2>1 DEF ResultsSoFar
  <2> QED
    BY <1>4, <2>1, <2>2
<1>8. ~bad' => ResultsSoFar'
  BY <1>2, <1>4, <1>5, <1>7 DEF ResultsSoFar
<1> QED
  BY <1>2, <1>6, <1>8 DEF ResultInv

(* The loop ends: of no job anything is left. *)
LEMMA ResultLast ==
    ASSUME MapInv, SliceInv, ResultInv, Including, ResultsDone
    PROVE  ResultInv'
<1>1. /\ pc = "results" /\ pend = <<>> /\ next = Len(elf)
      /\ pc' = (IF bad THEN "failed" ELSE "merge")
      /\ UNCHANGED <<heap, map, jobs, elf>>
      /\ ResultNow /\ (~bad => ResultsSoFar)
  BY DEF ResultsDone, Busy, ResultInv, pool
<1>2. CASE bad
  BY <1>1, <1>2 DEF ResultInv, Including
<1>3. CASE ~bad
  <2>1. /\ \A i : Work(i)' = Work(i)
        /\ \A i \in 1..next : \A e : Placing(i, e) => Placing(i, e)'
    <3>1. /\ Reached = next /\ Reached' = next /\ next \in Nat /\ next <= next
      BY <1>1, <1>3 DEF Reached, Including, SliceInv, LockOK
    <3> QED
      BY <1>1, <3>1, PlacedKept
  <2>2. Left = {}
    BY <1>1 DEF Left, PendSet
  <2>3. \A i \in 1..Len(elf) : \A e \in Adds(Work(elf[i])) : Placing(i, e)
    BY <1>1, <1>3, <2>2 DEF ResultsSoFar
  <2> QED
    BY <1>1, <1>3, <2>1, <2>3 DEF ResultInv, Including
<1> QED
  BY <1>2, <1>3

(* includeElf puts what the job adds, in its turns. *)
LEMMA ResultMain ==
    ASSUME MapInv, ResultInv, Including, IncludeMain
    PROVE  ResultInv'
<1> DEFINE r == ResultOf(cur)
           m == MainEntry(cur)
<1>1. /\ pc = "include" /\ pend = <<>> /\ Concurrent
      /\ UNCHANGED <<heap, mm, map, jobs, elf, next, cur>>
      /\ ResultNow /\ (~bad => ResultsSoFar)
  BY DEF IncludeMain, Busy, ResultInv, Including, pool, masks
<1>2. Left = Adds(cur) /\ next # 0
  BY <1>1 DEF Left, PendSet, ResultNow
<1>3. /\ {Added(<<m>>)[k].e : k \in DOMAIN Added(<<m>>)} = {m}
      /\ \A k \in DOMAIN Added(<<m>>) : ~Added(<<m>>)[k].masked
  <2>1. ToSet(<<m>>) = {m}
    BY DEF ToSet
  <2> QED
    BY <2>1, AddedSet
<1>4. /\ Left' \subseteq Left
      /\ ~bad' => ~bad /\ Left \subseteq Left'
      /\ \A k \in DOMAIN pend' : ~pend'[k].masked
      /\ pc' \in {"results", "libs"}
  <2>1. CASE r.err = "other"
    <3>1. pc' = "results" /\ bad' = TRUE /\ pend' = <<>>
      BY <1>1, <2>1 DEF IncludeMain, IncludeFails
    <3> QED
      BY <3>1 DEF Left, PendSet
  <2>2. CASE r.err = "format"
    <3>1. /\ pc' = "results" /\ pend' = Added(<<m>>) /\ (bad => bad')
      BY <1>1, <2>2 DEF IncludeMain, IncludeFails, Included
    <3>2. Left = {m}
      BY <1>2, <2>2 DEF Adds
    <3>3. Left' = {m}
      BY <1>3, <3>1 DEF Left, PendSet
    <3> QED
      BY <1>3, <3>1, <3>2, <3>3
  <2>3. CASE r.err = "ok"
    <3>1. /\ pc' = "libs" /\ pend' = Added(<<m>>) /\ bad' = bad
          /\ libs' = r.libs \ {cur.src} /\ cur' = cur
      BY <1>1, <2>3 DEF IncludeMain
    <3>2. Left = {m} \cup UNION {LibAdds(cur, v) : v \in r.libs \ {cur.src}}
      BY <1>2, <2>3 DEF Adds, LibAdds
    <3>3. Left' = {m} \cup UNION {LibAdds(cur, v) : v \in libs'}
      BY <1>3, <3>1 DEF Left, PendSet, LibAdds
    <3> QED
      BY <1>3, <3>1, <3>2, <3>3
  <2> QED
    BY <2>1, <2>2, <2>3 DEF IncludeMain
<1>5. ResultNow' /\ (~bad' => ResultsSoFar')
  <2>1. Including'
    BY <1>1, <1>4 DEF Including
  <2> QED
    BY <1>1, <1>2, <1>4, <2>1, ResultQuiet
<1> QED
  BY <1>4, <1>5 DEF ResultInv

LEMMA ResultLib ==
    ASSUME MapInv, MainTyped, ResultInv, Including, IncludeLib
    PROVE  ResultInv'
<1>1. /\ pc = "libs" /\ pend = <<>> /\ Concurrent
      /\ UNCHANGED <<heap, mm, map, jobs, elf, next, cur>>
      /\ ResultNow /\ (~bad => ResultsSoFar)
  BY DEF IncludeLib, Busy, ResultInv, Including, pool, masks
<1>2. PICK v \in libs :
        /\ libs' = libs \ {v}
        /\ \/ /\ pend' = Added(Append(Links(Expansion[v]), LibEntry(cur, Expansion[v].path)))
              /\ UNCHANGED <<pc, bad>>
           \/ pend' = Added(Links(Expansion[v])) /\ IncludeFails
  BY DEF IncludeLib
<1> DEFINE links == Links(Expansion[v])
           lib == LibEntry(cur, Expansion[v].path)
<1>3. links \in Seq(Entry)
  BY <1>2, FollowedTyped, LinksTyped, OwnSeq DEF MainTyped
<1>4. Left = UNION {LibAdds(cur, x) : x \in libs} /\ next # 0
  BY <1>1 DEF Left, PendSet, ResultNow
<1>5. LibAdds(cur, v) = ToSet(links) \cup {lib} /\ LibAdds(cur, v) \subseteq Left
  BY <1>2, <1>4 DEF LibAdds
<1>6. /\ Left' \subseteq Left
      /\ ~bad' => ~bad /\ Left \subseteq Left'
      /\ \A k \in DOMAIN pend' : ~pend'[k].masked
      /\ pc' \in {"results", "libs"}
  <2>1. CASE pend' = Added(Append(links, lib)) /\ UNCHANGED <<pc, bad>>
    <3>1. ToSet(Append(links, lib)) = LibAdds(cur, v)
      <4>1. links \in Seq(Entry \cup {lib}) /\ lib \in Entry \cup {lib}
        BY <1>3
      <4> HIDE DEF links, lib
      <4>2. ToSet(Append(links, lib)) = ToSet(links) \cup {lib}
        BY <4>1, AppendSet
      <4> QED
        BY <1>5, <4>2
    <3>2. /\ PendSet' = LibAdds(cur, v)
          /\ \A k \in DOMAIN pend' : ~pend'[k].masked
      BY <2>1, <3>1, AddedSet DEF PendSet
    <3>3. Left' = LibAdds(cur, v) \cup UNION {LibAdds(cur, x) : x \in libs \ {v}}
      BY <1>1, <1>2, <2>1, <3>2 DEF Left, LibAdds
    <3>4. Left' = Left
      BY <1>2, <1>4, <3>3
    <3> QED
      BY <1>1, <2>1, <3>2, <3>4
  <2>2. CASE pend' = Added(links) /\ IncludeFails
    <3>1. pc' = "results" /\ bad' = TRUE
      BY <1>1, <2>2 DEF IncludeFails
    <3>2. /\ PendSet' = ToSet(links)
          /\ \A k \in DOMAIN pend' : ~pend'[k].masked
      BY <2>2, AddedSet DEF PendSet
    <3>3. Left' = ToSet(links)
      BY <3>1, <3>2 DEF Left
    <3> QED
      BY <1>5, <3>1, <3>2, <3>3
  <2> QED
    BY <1>2, <2>1, <2>2
<1>7. ResultNow' /\ (~bad' => ResultsSoFar')
  <2>1. Including'
    BY <1>1, <1>6 DEF Including
  <2> QED
    BY <1>1, <1>4, <1>6, <2>1, ResultQuiet
<1> QED
  BY <1>6, <1>7 DEF ResultInv

LEMMA ResultLibsDone ==
    ASSUME MapInv, ResultInv, Including, LibsDone
    PROVE  ResultInv'
<1>1. /\ pc = "libs" /\ pc' = "results" /\ pend = <<>> /\ pend' = <<>> /\ libs = {} /\ bad' = bad
      /\ UNCHANGED <<heap, mm, map, jobs, elf, next, cur>>
      /\ ResultNow /\ (~bad => ResultsSoFar)
  BY DEF LibsDone, Busy, ResultInv, Including, Included, pool, masks
<1>2. Left = {} /\ Left' = {}
  BY <1>1 DEF Left, PendSet
<1>3. ResultNow' /\ (~bad' => ResultsSoFar')
  <2>1. Including'
    BY <1>1 DEF Including
  <2> QED
    BY <1>1, <1>2, <2>1, ResultQuiet
<1> QED
  BY <1>1, <1>3 DEF ResultInv

(* The goroutines are gone while the results are included, and after. *)
LEMMA ResultRest ==
    ASSUME MapInv, SliceInv, PoolInv, ControlInv, ResultInv,
           Goroutines \/ Release \/ Terminated \/ UNCHANGED vars
    PROVE  ResultInv'
<1>1. UNCHANGED <<pc, next, pend, libs, bad, cur, heap, mm, map>>
  BY GoroutineFrame DEF Terminated, vars, load, masks, main, incl
<1>2. CASE Including \/ pc = "merge"
  <2>1. InStages(Pending) = {}
    BY <1>2 DEF Including, PoolInv, SettledInv, Settled
  <2>2. ~Goroutines
    BY <2>1 DEF InStages, Pending, Goroutines, Goroutine, Lock, Record, Unlock, WgDone, Stage
  <2>3. UNCHANGED <<jobs, elf>>
    BY <2>2 DEF Release, Terminated, vars, pool
  <2>4. /\ \A i : Work(i)' = Work(i)
        /\ \A i \in 1..Reached : \A e : Placing(i, e) => Placing(i, e)'
    <3>1. Reached \in Nat /\ Reached' = Reached /\ Reached <= Reached
      BY <1>1, <2>3 DEF Reached, Including, ControlInv, SliceInv, LockOK
    <3> QED
      BY <1>1, <2>3, <3>1, PlacedKept
  <2>5. Left' = Left
    BY <1>1 DEF Left, PendSet
  <2>6. ASSUME Including PROVE ResultNow' /\ (~bad' => ResultsSoFar')
    <3>1. Including' /\ ResultNow /\ (~bad => ResultsSoFar)
      BY <1>1, <2>6 DEF Including, ResultInv
    <3>2. /\ UNCHANGED <<pend, bad, heap, mm, map, jobs, elf, next, cur>>
          /\ \A k \in DOMAIN pend' : ~pend'[k].masked
          /\ next = 0 => pend' = <<>>
      BY <1>1, <2>3, <3>1 DEF ResultNow
    <3> QED
      BY <1>1, <2>5, <2>6, <3>1, <3>2, ResultQuiet
  <2>7. pc = "merge" => Reached = Len(elf)
    BY DEF Reached, Including
  <2> QED
    BY <1>1, <2>3, <2>4, <2>6, <2>7 DEF ResultInv, Including
<1>3. CASE ~Including /\ pc # "merge"
  BY <1>1, <1>3 DEF ResultInv, Including
<1> QED
  BY <1>2, <1>3

LEMMA ResultStep ==
    ASSUME SliceInv, MapInv, PoolInv, ControlInv, MainTyped, MergeInv, ResultInv, [Next]_vars
    PROVE  ResultInv'
<1> USE DEF Including
<1>1. CASE Including /\ Put
  BY <1>1, ResultPut DEF SliceInv
<1>2. CASE ~Including /\ Put
  <2>1. pend # <<>> /\ UNCHANGED <<pc, next>>
    BY <1>2 DEF Put, Busy, load, incl
  <2>2. pc \notin {"wait", "merge"}
    BY <2>1 DEF ResultInv, MergeInv
  <2> QED
    BY <1>2, <2>1, <2>2 DEF ResultInv
<1>3. CASE ReadLine
  <2>1. ~Including' /\ ~(Concurrent /\ pc' = "merge")
    BY <1>3, LineFrame, LineControl
  <2>2. pc' = "wait" => pend' = <<>>
    <3>1. ASSUME NEW r, MaskLine(r) PROVE pc' # "wait"
      BY <3>1 DEF MaskLine, NextLine
    <3>2. ASSUME NEW l, NEW then, EntryLine(l, then) PROVE pc' # "wait"
      BY <3>2 DEF EntryLine, NextLine
    <3>3. CASE ReadError \/ EndOfFile
      BY <3>3 DEF ReadError, EndOfFile, main, Busy
    <3> QED
      BY <1>3, <3>1, <3>2, <3>3 DEF ReadLine, ReadMask, ReadClear, ReadPlain,
         ReadRegularRel, ReadAuto, ReadRecursive, ReadGlob, ReadElf, ReadElfGlob,
         ReadElfLib, ReadElfPath
  <2> QED
    BY <2>1, <2>2 DEF ResultInv
<1>4. CASE AddElf
  <2>1. pc' \in {"read", "elf", "failed", "spawn"} \/ (pc' = "include" /\ ~Concurrent)
    BY <1>4 DEF AddElf, NewJob, Inline, More
  <2> QED
    BY <2>1 DEF ResultInv
<1>5. CASE Spawn
  BY <1>5 DEF Spawn, More, ResultInv
<1>6. CASE Wait
  <2>1. pc = "wait" /\ pc' = "results" /\ next = 0 /\ UNCHANGED <<next, elf, pend>> /\ pend = <<>>
    BY <1>6 DEF Wait, MergeInv, ResultInv, main, incl, pool
  <2>2. Len(elf) \in Nat
    BY DEF SliceInv, LockOK
  <2>3. ResultNow' /\ ResultsSoFar'
    BY <2>1, <2>2 DEF ResultNow, ResultsSoFar
  <2> QED
    BY <2>1, <2>3 DEF ResultInv
<1>7. CASE NextResult
  BY <1>7, ResultNext DEF NextResult, ControlInv, SliceInv
<1>8. CASE ResultsDone
  BY <1>8, ResultLast DEF ResultsDone, ControlInv
<1>9. CASE Concurrent /\ (IncludeMain \/ IncludeLib \/ LibsDone)
  BY <1>9, ResultMain, ResultLib, ResultLibsDone DEF IncludeMain, IncludeLib, LibsDone
<1>10. CASE ~Concurrent /\ (IncludeMain \/ IncludeLib \/ LibsDone)
  <2>1. pc' \in {"include", "libs", "read", "elf", "failed"}
    BY <1>10 DEF IncludeMain, IncludeLib, LibsDone, Included, IncludeFails, More
  <2> QED
    BY <1>10, <2>1 DEF ResultInv
<1>11. CASE MergeNext
  <2>1. pc = "merge" /\ pc' = "merge" /\ next' # 0
    BY <1>11 DEF MergeNext, load, ControlInv
  <2> QED
    BY <2>1 DEF ResultInv
<1>12. CASE MergeDone \/ OpenFile \/ OpenFails \/ FilesDone
  <2>1. pc' \in {"open", "read", "failed", "done"}
    BY <1>12 DEF MergeDone, OpenFile, OpenFails, FilesDone
  <2> QED
    BY <2>1 DEF ResultInv
<1> QED
  BY <1>1, <1>2, <1>3, <1>4, <1>5, <1>6, <1>7, <1>8, <1>9, <1>10, <1>11, <1>12, ResultRest
     DEF Next, MainThread, Include, Files

(* When they are included, what a result produced is placed, and if something
   stands in its place it is from a result that is not before it in the list. *)
LEMMA InListOrder ==
    ASSUME ResultInv, Concurrent, pc = "merge", next = 0,
           NEW i \in 1..Len(elf), NEW p \in Produced(elf[i])
    PROVE  /\ p.dst \in Dsts(map)
           /\ \E k \in i..Len(elf) : EntryOf(map, p.dst) \in Produced(elf[k])
<1>1. PICK e \in Adds(Work(elf[i])) :
         ~MaskedBy(elf[i], e).drop /\ p = MaskedBy(elf[i], e).e
  BY ProducedIs
<1>2. Placing(i, e)
  BY DEF ResultInv
<1>3. Reached = Len(elf)
  BY DEF Reached, Including
<1> QED
  BY <1>1, <1>2, <1>3 DEF Placing, Placed, Since

LEMMA ResultPlaced ==
    ASSUME SliceInv, PoolInv, ResultInv
    PROVE  ElfResultsLast
<1> SUFFICES ASSUME Concurrent, pc = "merge", next = 0,
                    NEW j \in DOMAIN jobs, NEW p \in Produced(j)
             PROVE  /\ p.dst \in Dsts(map)
                    /\ EntryOf(map, p.dst) \in UNION {Produced(i) : i \in DOMAIN jobs}
  BY DEF ElfResultsLast
<1>1. ToSet(elf) = DOMAIN jobs
  BY AllRecorded DEF NoResultLost
<1>2. DOMAIN elf = 1..Len(elf) /\ Len(elf) \in Nat /\ elf \in Seq(DOMAIN jobs)
  BY DEF SliceInv, LockOK
<1>3. PICK i \in 1..Len(elf) : elf[i] = j
  BY <1>1, <1>2 DEF ToSet
<1>4. /\ p.dst \in Dsts(map)
      /\ \E k \in i..Len(elf) : EntryOf(map, p.dst) \in Produced(elf[k])
  BY <1>3, InListOrder
<1>5. \A k \in i..Len(elf) : elf[k] \in DOMAIN jobs
  BY <1>2
<1> QED
  BY <1>4, <1>5

-----------------------------------------------------------------------------
(* One place in the channel *)

(* The jobs before one that has its token are gone, and the list of results
   has the order of the lines. *)
InTurn ==
    /\ \A j \in DOMAIN jobs :
          jobs[j].stage # "queued" => \A i \in 1..(j - 1) : jobs[i].stage = "gone"
    /\ \A k \in 1..Len(elf) : elf[k] = k

LEMMA TurnQuiet ==
    ASSUME InTurn, UNCHANGED <<jobs, elf>>
    PROVE  InTurn'
BY DEF InTurn

(* A new job waits for its token. *)
LEMMA TurnAddElf ==
    ASSUME SliceInv, InTurn, AddElf
    PROVE  InTurn'
<1>1. CASE UNCHANGED jobs
  BY <1>1, TurnQuiet DEF AddElf, NewJob, Inline, pool
<1>2. CASE ~UNCHANGED jobs
  <2>1. PICK y : jobs' = Append(jobs, y) /\ y.stage = "queued" /\ elf' = elf
    <3> DEFINE e == Head(todo)
               x == IF ElfExpand THEN Expansion[ElfSrc(e)] ELSE Unexpanded(ElfSrc(e))
    <3>1. NewJob(e, x.path)
      BY <1>2 DEF AddElf, Inline, pool
    <3> HIDE DEF e, x
    <3>2. PICK y : y = [e |-> e, src |-> x.path, mm |-> Snapshot(heap, mm).mm,
                        stage |-> "queued", at |-> 0]
      OBVIOUS
    <3>3. jobs' = Append(jobs, y) /\ elf' = elf
      BY <3>1, <3>2 DEF NewJob
    <3>4. y.stage = "queued"
      BY <3>2
    <3> QED
      BY <3>3, <3>4
  <2>2. PICK n : n = Len(jobs)
    OBVIOUS
  <2>3. jobs \in Seq(Values(jobs) \cup {y}) /\ y \in Values(jobs) \cup {y}
    <3>1. jobs \in [1..Len(jobs) -> Values(jobs) \cup {y}] /\ Len(jobs) \in Nat
      BY DEF SliceInv, JobsOK, Values
    <3> QED
      BY <3>1
  <2>4. /\ n \in Nat /\ DOMAIN jobs = 1..n /\ DOMAIN jobs' = 1..(n + 1)
        /\ jobs'[n + 1] = y /\ \A j \in 1..n : jobs'[j] = jobs[j]
    BY <2>1, <2>2, <2>3
  <2>5. ASSUME NEW j \in 1..(n + 1), jobs'[j].stage # "queued", NEW i \in 1..(j - 1)
        PROVE  jobs'[i].stage = "gone"
    <3>1. j \in 1..n /\ i \in 1..n
      BY <2>1, <2>4, <2>5
    <3> QED
      BY <2>4, <2>5, <3>1 DEF InTurn
  <2> QED
    BY <2>1, <2>4, <2>5 DEF InTurn
<1> QED
  BY <1>1, <1>2

(* A job gets the one token when nobody has it. *)
LEMMA TurnSpawn ==
    ASSUME Slots = 1, SliceInv, PoolInv, InTurn, Spawn
    PROVE  InTurn'
<1>1. PICK n : n = Len(jobs)
  OBVIOUS
<1>2. /\ pc = "spawn" /\ q < 1 /\ elf' = elf
      /\ jobs' = [jobs EXCEPT ![n].stage = "running"]
  BY <1>1 DEF Spawn
<1>3. n \in Nat /\ DOMAIN jobs = 1..n /\ DOMAIN jobs' = 1..n
  BY <1>1, <1>2 DEF SliceInv, JobsOK
<1>4. InStages(Working) = {}
  <2>1. Count(Working) = 0 /\ IsFiniteSet(InStages(Working))
    BY <1>2, JobsFinite DEF PoolInv, CountInv
  <2> QED
    BY <2>1, FS_EmptySet DEF Count
<1>5. ASSUME NEW i \in 1..n, i # n PROVE jobs[i].stage = "gone" /\ jobs'[i] = jobs[i]
  <2>1. jobs[i].stage \in Stages /\ jobs[i].stage # "queued"
    BY <1>1, <1>2, <1>3, <1>5 DEF PoolInv, StageInv
  <2> QED
    BY <1>2, <1>3, <1>4, <1>5, <2>1 DEF InStages, Working, Stages
<1>6. ASSUME NEW j \in 1..n, NEW i \in 1..(j - 1) PROVE jobs'[i].stage = "gone"
  <2>1. i \in 1..n /\ i # n
    BY <1>3, <1>6
  <2> QED
    BY <1>5, <2>1
<1> QED
  BY <1>2, <1>3, <1>6 DEF InTurn

(* Of two jobs one has not its token yet, or the other is gone; so the one that
   appends its result is the first that is not in the list. *)
LEMMA TurnGoroutine ==
    ASSUME SliceInv, PoolInv, InTurn, Goroutines
    PROVE  InTurn'
<1>1. PICK j \in DOMAIN jobs : Goroutine(j)
  BY DEF Goroutines
<1>2. PICK n : n = Len(jobs) /\ n \in Nat /\ DOMAIN jobs = 1..n
  BY DEF SliceInv, JobsOK
<1>3. /\ DOMAIN jobs' = 1..n
      /\ \A i \in 1..n : i # j => jobs'[i] = jobs[i]
      /\ jobs[j].stage \in Working
  BY <1>1, <1>2 DEF Goroutine, Lock, Record, Unlock, WgDone, Stage, Working
<1>4. /\ \A i \in 1..(j - 1) : jobs[i].stage = "gone"
      /\ \A i \in 1..n : j < i => jobs[i].stage = "queued"
  <2>1. jobs[j].stage \notin {"queued", "gone"}
    BY <1>3 DEF Working
  <2>2. \A i \in 1..n : j < i => j \in 1..(i - 1)
    BY <1>1, <1>2
  <2> QED
    BY <1>1, <1>2, <2>1, <2>2 DEF InTurn
<1>5. ASSUME NEW i \in 1..n, jobs'[i].stage # "queued", NEW k \in 1..(i - 1)
      PROVE  jobs'[k].stage = "gone"
  <2>1. i <= j
    BY <1>1, <1>2, <1>3, <1>4, <1>5
  <2>2. k \in 1..(j - 1) /\ k \in 1..n /\ k # j
    BY <1>1, <1>2, <2>1
  <2> QED
    BY <1>3, <1>4, <2>2
<1>6. CASE ~Record(j)
  <2>1. elf' = elf
    BY <1>1, <1>6 DEF Goroutine, Lock, Unlock, WgDone
  <2> QED
    BY <1>2, <1>3, <1>5, <2>1 DEF InTurn
<1>7. CASE Record(j)
  <2>1. /\ jobs[j].stage = "append" /\ jobs[j].at = Len(elf)
        /\ elf' = Append(SubSeq(elf, 1, Len(elf)), j)
    BY <1>1, <1>7 DEF Record, Stage, SliceInv, LockOK
  <2>2. elf \in Seq(DOMAIN jobs)
    BY DEF SliceInv, LockOK
  <2>3. PICK m : m = Len(elf) /\ m \in Nat
    BY <2>2
  <2>4. elf' = Append(elf, j)
    BY <2>1, <2>2
  <2>5. /\ Len(elf') = m + 1 /\ elf'[m + 1] = j
        /\ \A k \in 1..m : elf'[k] = elf[k]
    BY <1>1, <2>2, <2>3, <2>4
  <2>6. InStages(Recorded) = 1..(j - 1)
    <3>1. \A i \in 1..n : i < j => jobs[i].stage \in Recorded
      BY <1>1, <1>2, <1>4 DEF Recorded
    <3>2. \A i \in 1..n : ~(i < j) => jobs[i].stage \notin Recorded
      BY <1>1, <1>2, <1>4, <2>1 DEF Recorded
    <3>3. \A i : i \in 1..(j - 1) <=> i \in 1..n /\ i < j
      BY <1>1, <1>2
    <3> QED
      BY <1>2, <3>1, <3>2, <3>3 DEF InStages
  <2>7. m = j - 1
    <3>1. PICK k : k = j - 1 /\ k \in Nat
      BY <1>1, <1>2
    <3>2. 1 \in Int /\ k \in Int
      BY <3>1
    <3>3. Cardinality(1..k) = IF 1 > k THEN 0 ELSE k - 1 + 1
      BY <3>2, FS_Interval
    <3> QED
      BY <2>3, <2>6, <3>1, <3>3 DEF PoolInv, CountInv, Count
  <2>8. \A k \in 1..(m + 1) : elf'[k] = k
    <3>1. \A k \in 1..(m + 1) : k = m + 1 \/ k \in 1..m
      BY <2>3
    <3> QED
      BY <1>1, <1>2, <2>3, <2>5, <2>7, <3>1 DEF InTurn
  <2> QED
    BY <1>2, <1>3, <1>5, <2>5, <2>8 DEF InTurn
<1> QED
  BY <1>6, <1>7

LEMMA TurnStep ==
    ASSUME Slots = 1, SliceInv, PoolInv, InTurn, [Next]_vars
    PROVE  InTurn'
<1>1. CASE ReadLine
  BY <1>1, LineFrame, TurnQuiet DEF pool
<1>2. CASE OpenFile
  <2>1. jobs' = <<>> /\ elf' = <<>>
    BY <1>2 DEF OpenFile, NewMap
  <2> QED
    BY <2>1 DEF InTurn
<1>3. CASE \/ Put \/ Include \/ MergeNext \/ MergeDone \/ OpenFails \/ FilesDone
           \/ Release \/ Terminated \/ UNCHANGED vars
  <2>1. UNCHANGED <<jobs, elf>>
    BY <1>3 DEF Put, Include, Wait, NextResult, ResultsDone, IncludeMain, IncludeLib,
       LibsDone, MergeNext, MergeDone, OpenFails, FilesDone, Release, Terminated, vars,
       main, pool
  <2> QED
    BY <2>1, TurnQuiet
<1> QED
  BY <1>1, <1>2, <1>3, TurnAddElf, TurnSpawn, TurnGoroutine DEF Next, MainThread, Files

-----------------------------------------------------------------------------
(* Renames *)

(* After a mask an entry is at a destination that the mask leaves alone, and so
   do the masks that left the old one alone. *)
LEMMA RenamedOnce ==
    ASSUME RenamesEnd, NEW k \in Masks, NEW e \in OwnEntry
    PROVE  /\ ~RenamesBy(k, MaskFunc(k, e).dst)
           /\ \A x \in Masks : ~RenamesBy(x, e.dst) => ~RenamesBy(x, MaskFunc(k, e).dst)
<1> DEFINE d == MaskDef[k]
           f == MaskFunc(k, e)
<1>1. e \in Entry /\ e.type \notin Exempt
  BY DEF OwnEntry
<1>2. \/ e.dst \in d.re /\ d.kind = "mr" /\ f.dst = d.to[e.dst]
      \/ f.dst = e.dst /\ (e.dst \notin d.re \/ d.kind # "mr")
  BY <1>1 DEF MaskFunc, Entry
<1>3. CASE e.dst \in d.re /\ d.kind = "mr" /\ f.dst = d.to[e.dst]
  BY <1>3 DEF RenamesEnd
<1>4. CASE f.dst = e.dst /\ (e.dst \notin d.re \/ d.kind # "mr")
  BY <1>4 DEF RenamesBy
<1> QED
  BY <1>2, <1>3, <1>4

(* After all masks: the sets of entries that the first masks leave alone. *)
LEMMA MasksRename ==
    ASSUME RenamesEnd, NEW s \in Seq(Masks), NEW e \in OwnEntry, ~ApplyMasks(s, e).drop
    PROVE  ~Renames(s, ApplyMasks(s, e).e.dst)
<1> DEFINE r == [e |-> e, drop |-> FALSE]
           n == Len(s)
           iter == CHOOSE it : IsIter(it, s, r, n)
           Free(x, k) == x.drop \/ \A i \in 1..k : ~RenamesBy(s[i], x.e.dst)
           R == [e : OwnEntry, drop : BOOLEAN]
           good == {k \in Nat : k \in 0..n => iter[1..k] \in R /\ Free(iter[1..k], k)}
<1>1. n \in Nat /\ DOMAIN s = 1..n /\ \A i \in 1..n : s[i] \in Masks
  OBVIOUS
<1>2. IsIter(iter, s, r, n)
  BY <1>1, IterExists
<1>3. ApplyMasks(s, e) = iter[1..n]
  BY <1>1 DEF ApplyMasks, FoldLeft, MapThenFoldSet, IsIter
<1>4. ASSUME NEW x \in R, NEW k \in 0..n-1, Free(x, k)
      PROVE  MaskStep(x, s[k + 1]) \in R /\ Free(MaskStep(x, s[k + 1]), k + 1)
  <2> DEFINE m == s[k + 1]
  <2>1. m \in Masks /\ \A i \in 1..k + 1 : s[i] \in Masks /\ (i = k + 1 \/ i \in 1..k)
    BY <1>1
  <2>2. x = [e |-> x.e, drop |-> x.drop] /\ x.e \in OwnEntry /\ x.drop \in BOOLEAN
    OBVIOUS
  <2>3. CASE x.drop
    BY <2>2, <2>3 DEF MaskStep
  <2>4. CASE ~x.drop /\ Drops(m, x.e)
    BY <2>2, <2>4 DEF MaskStep
  <2>5. CASE ~x.drop /\ ~Drops(m, x.e)
    <3> DEFINE f == MaskFunc(m, x.e)
    <3>1. MaskStep(x, m) = [e |-> f, drop |-> FALSE]
      BY <2>2, <2>5 DEF MaskStep
    <3>2. f \in OwnEntry
      <4>1. x.e \in Entry /\ f \in Entry
        BY <2>1, <2>2, MaskKeeps DEF OwnEntry
      <4>2. f.type = x.e.type
        BY <4>1 DEF MaskFunc, Entry
      <4> QED
        BY <2>2, <4>1, <4>2 DEF OwnEntry
    <3>3. ~RenamesBy(m, f.dst) /\ \A y \in Masks : ~RenamesBy(y, x.e.dst) => ~RenamesBy(y, f.dst)
      BY <2>1, <2>2, RenamedOnce
    <3> HIDE DEF f
    <3>4. \A i \in 1..k + 1 : ~RenamesBy(s[i], f.dst)
      BY <1>4, <2>1, <2>5, <3>3
    <3> QED
      BY <3>1, <3>2, <3>4
  <2> QED
    BY <2>2, <2>3, <2>4, <2>5
<1> HIDE DEF iter, Free
<1>5. 0 \in good
  <2>1. 1..0 = {}
    OBVIOUS
  <2>2. iter[{}] = r
    BY <1>2 DEF IsIter
  <2>3. r \in R /\ Free(r, 0)
    BY DEF Free
  <2>4. iter[1..0] \in R /\ Free(iter[1..0], 0)
    BY <2>1, <2>2, <2>3
  <2> HIDE DEF R
  <2> QED
    BY <2>4
<1>6. ASSUME NEW k \in Nat, k \in good PROVE k + 1 \in good
  <2>1. SUFFICES ASSUME k + 1 \in 0..n
                 PROVE  iter[1..(k + 1)] \in R /\ Free(iter[1..(k + 1)], k + 1)
    OBVIOUS
  <2> DEFINE S == 1..(k + 1)
  <2>2. S \in SUBSET (1..n) /\ S # {} /\ k + 1 \in S /\ k \in 0..n /\ k \in 0..n-1
    <3>1. k + 1 \in 1..n /\ k + 1 \in S /\ k \in 0..n /\ k \in 0..n-1
      BY <1>1, <2>1
    <3>2. \A i \in S : i \in 1..n
      BY <1>1, <3>1
    <3> HIDE DEF S
    <3> QED
      BY <3>1, <3>2
  <2>3. Max(S) = k + 1
    BY <2>2, MaxLast
  <2>4. S \ {k + 1} = 1..k
    OBVIOUS
  <2>5. iter[S] = MaskStep(iter[S \ {Max(S)}], s[Max(S)])
    <3>1. \A U \in SUBSET (1..n) :
             iter[U] = IF U = {} THEN r ELSE MaskStep(iter[U \ {Max(U)}], s[Max(U)])
      BY <1>2 DEF IsIter
    <3> HIDE DEF S
    <3> QED
      BY <2>2, <3>1
  <2>6. iter[1..k] \in R /\ Free(iter[1..k], k)
    BY <1>6, <2>2
  <2>7. iter[S] = MaskStep(iter[1..k], s[k + 1])
    BY <2>3, <2>4, <2>5
  <2> HIDE DEF R
  <2> QED
    BY <1>4, <2>2, <2>6, <2>7
<1>7. Nat \subseteq good
  <2> HIDE DEF good
  <2> QED
    BY <1>5, <1>6, SetInduction
<1>8. Free(ApplyMasks(s, e), n)
  BY <1>1, <1>3, <1>7
<1>9. \A k \in ToSet(s) : ~RenamesBy(k, ApplyMasks(s, e).e.dst)
  BY <1>1, <1>8 DEF Free, ToSet
<1> QED
  BY <1>9 DEF Renames

(* An entry that add has masked has its destination from the masks in force, or
   from its file. *)
Unmoved ==
    \A k \in DOMAIN pend :
        pend[k].masked => OfFile(pend[k]) \/ ~Renames(InForce, pend[k].e.dst)

(* What a line puts is unmoved when it is to be masked yet, or has the
   destination of its file or the one the masks gave the line. *)
UnmovedBy(l, then) ==
    \A k \in DOMAIN then.pend :
        then.pend[k].masked =>
            \/ OfFile(then.pend[k])
            \/ l.type \notin Exempt /\ then.pend[k].e.dst = Masked(l).e.dst

LEMMA UnmovedOutcome ==
    ASSUME RenamesEnd, InForce \in Seq(Masks), NEW l \in SourceLine, NEW then,
           EntryLine(l, then), UnmovedBy(l, then)
    PROVE  Unmoved'
<1>1. InForce' = InForce
  BY DEF EntryLine, InForce, masks
<1>2. pend' = <<>> \/ (pend' = then.pend /\ ~Masked(l).drop)
  BY DEF EntryLine, Outcome, Puts, Fails
<1>3. ASSUME NEW k \in DOMAIN then.pend, then.pend[k].masked, ~Masked(l).drop
      PROVE  OfFile(then.pend[k]) \/ ~Renames(InForce, then.pend[k].e.dst)
  <2> SUFFICES ASSUME ~OfFile(then.pend[k])
               PROVE  ~Renames(InForce, then.pend[k].e.dst)
    OBVIOUS
  <2>1. l.type \notin Exempt /\ then.pend[k].e.dst = Masked(l).e.dst
    BY <1>3 DEF UnmovedBy
  <2>2. PICK x \in ElfEntry : x.type = l.type /\ Masked(l) = ApplyMasks(InForce, x)
    BY LineTyped
  <2>3. x \in OwnEntry
    BY <2>1, <2>2 DEF ElfEntry, OwnEntry
  <2> QED
    BY <1>3, <2>1, <2>2, <2>3, MasksRename
<1>4. \A p : OfFile(p)' = OfFile(p)
  BY DEF OfFile
<1> QED
  BY <1>1, <1>2, <1>3, <1>4 DEF Unmoved

LEMMA UnmaskedUnmoved ==
    ASSUME NEW l, NEW then, NEW es, then = Fails \/ then = Puts(Added(es))
    PROVE  UnmovedBy(l, then)
<1>1. \A k \in DOMAIN Added(es) : ~Added(es)[k].masked
  BY DEF Added
<1> QED
  BY <1>1 DEF UnmovedBy, Fails, Puts

LEMMA PassedUnmoved ==
    ASSUME NEW l, NEW then, NEW es, then = Fails \/ then = PassesOn(es)
    PROVE  UnmovedBy(l, then)
BY DEF UnmovedBy, Fails, PassesOn

LEMMA PlainUnmoved ==
    ASSUME NEW l, l.type \notin Exempt
    PROVE  UnmovedBy(l, Plain(l, Masked(l).e))
<1> DEFINE e == Masked(l).e
<1> HIDE DEF e
<1>1. \A k \in DOMAIN AsIs(e) : AsIs(e)[k].e = e
  BY DEF AsIs
<1> QED
  BY <1>1 DEF UnmovedBy, Plain, Puts, e

(* The destination of an fr line stays as the masks made it, or is the one of
   its file. *)
LEMMA RegularRelUnmoved ==
    ASSUME NEW l, l.type \notin Exempt, Masked(l).e \in ElfEntry
    PROVE  UnmovedBy(l, RegularRel(l, Masked(l).e))
<1> DEFINE e == Masked(l).e
           p == InPrefix[e.src]
           x == IF FileExpand THEN Expansion[p] ELSE Unexpanded(p)
           dst == IF FileExpand /\ ~l.dstSet THEN TrimDst(x.path) ELSE e.dst
           f == [e EXCEPT !.type = "f", !.src = x.path, !.dst = dst]
           a == Added(Links(x))
           b == AsIs(f)
           r == RegularRel(l, e)
<1>1. e \in Entry /\ p \in Texts
  BY FollowedTyped DEF ElfEntry
<1>2. r = Fails \/ r = Puts(a \o b)
  BY DEF RegularRel
<1>3. x \in Followed
  BY <1>1, FollowedTyped, UnexpandedTyped
<1>4. Links(x) \in Seq(OwnEntry)
  BY <1>3, LinksTyped
<1>5. f.type = "f" /\ f.src = x.path /\ f.dst = dst
  BY <1>1 DEF Entry
<1>6. (FileExpand /\ f.dst = TrimDst(f.src)) \/ f.dst = e.dst
  BY <1>5
<1> HIDE DEF p, x, dst, f
<1>7. /\ b = <<b[1]>> /\ b[1].e = f /\ b[1].masked
  BY DEF AsIs
<1>8. OfFile(b[1]) \/ b[1].e.dst = e.dst
  BY <1>5, <1>6, <1>7 DEF OfFile
<1>9. a \in Seq(Queued) /\ \A k \in 1..Len(a) : ~a[k].masked
  <2>1. a \in Seq(Queued)
    BY <1>4, AddedTyped
  <2>2. \A k \in DOMAIN a : ~a[k].masked
    BY DEF Added
  <2> QED
    BY <2>1, <2>2
<1> HIDE DEF a, b, e, r
<1>10. \A k \in DOMAIN (a \o b) : (k \in 1..Len(a) /\ (a \o b)[k] = a[k]) \/ (a \o b)[k] = b[1]
  <2> DEFINE v == b[1]
  <2>1. b = <<v>> /\ a \in Seq(Queued) /\ Len(a) \in Nat
    BY <1>7, <1>9
  <2> HIDE DEF v
  <2>2. a \o <<v>> = Append(a, v)
    BY <2>1
  <2>3. /\ DOMAIN Append(a, v) = 1..Len(a) + 1
        /\ \A k \in 1..Len(a) : Append(a, v)[k] = a[k]
        /\ Append(a, v)[Len(a) + 1] = v
    BY <2>1
  <2>4. \A k \in 1..Len(a) + 1 : k \in 1..Len(a) \/ k = Len(a) + 1
    BY <2>1
  <2>5. a \o b = Append(a, v)
    BY <2>1, <2>2
  <2> QED
    BY <2>3, <2>4, <2>5 DEF v
<1>11. \A k \in DOMAIN (a \o b) :
          (a \o b)[k].masked => OfFile((a \o b)[k]) \/ (a \o b)[k].e.dst = e.dst
  BY <1>8, <1>9, <1>10
<1>12. Puts(a \o b).pend = a \o b /\ Fails.pend = <<>>
  BY DEF Puts, Fails
<1>13. \A k \in DOMAIN r.pend : r.pend[k].masked => OfFile(r.pend[k]) \/ r.pend[k].e.dst = e.dst
  BY <1>2, <1>11, <1>12
<1> QED
  BY <1>13 DEF UnmovedBy, e, r

LEMMA LineUnmoved ==
    ASSUME RenamesEnd, Unmoved, InForce \in Seq(Masks), ReadLine
    PROVE  Unmoved'
<1>1. CASE ReadMask \/ ReadClear \/ ReadError \/ EndOfFile
  <2>1. pend = <<>> /\ pend' = pend
    BY <1>1 DEF ReadMask, ReadClear, ReadError, EndOfFile, MaskLine, NextLine, Busy, main
  <2> QED
    BY <2>1 DEF Unmoved
<1>2. CASE ~(ReadMask \/ ReadClear \/ ReadError \/ EndOfFile)
  <2>1. /\ \A S : OfType(EntryLines, S) = {l \in EntryLines : l.type \in S}
        /\ EntryLines \subseteq SourceLine /\ ElfLines \subseteq SourceLine
        /\ \A S : OfType(ElfLines, S) = {l \in ElfLines : l.type \in S}
    BY EntriesAssumption DEF OfType
  <2>2. \A l \in SourceLine : Masked(l).e \in ElfEntry
    BY LineTyped
  <2>3. \E then : \E l \in SourceLine : EntryLine(l, then) /\ UnmovedBy(l, then)
    <3>1. CASE ReadPlain
      <4>1. PICK l \in SourceLine : l.type \notin Exempt /\ EntryLine(l, Plain(l, Masked(l).e))
        BY <2>1, <3>1 DEF ReadPlain, Exempt
      <4> QED
        BY <4>1, PlainUnmoved
    <3>2. CASE ReadRegularRel
      <4>1. PICK l \in SourceLine : l.type \notin Exempt /\ EntryLine(l, RegularRel(l, Masked(l).e))
        BY <2>1, <3>2 DEF ReadRegularRel, Exempt
      <4> QED
        BY <2>2, <4>1, RegularRelUnmoved
    <3>3. CASE ReadAuto
      <4>1. PICK l \in SourceLine : EntryLine(l, AutoFile(l, Masked(l).e))
        BY <2>1, <3>3 DEF ReadAuto
      <4>2. \E es : AutoFile(l, Masked(l).e) \in {Fails, Puts(Added(es))}
        BY DEF AutoFile
      <4> QED
        BY <4>1, <4>2, UnmaskedUnmoved
    <3>4. CASE ReadRecursive
      <4>1. PICK l \in SourceLine : EntryLine(l, Recursive(l, Masked(l).e))
        BY <2>1, <3>4 DEF ReadRecursive
      <4>2. \E es : Recursive(l, Masked(l).e) \in {Fails, Puts(Added(es))}
        BY DEF Recursive
      <4> QED
        BY <4>1, <4>2, UnmaskedUnmoved
    <3>5. CASE ReadGlob
      <4>1. PICK l \in SourceLine : EntryLine(l, Glob(l, Masked(l).e))
        BY <2>1, <3>5 DEF ReadGlob
      <4>2. \E es : Glob(l, Masked(l).e) \in {Fails, Puts(Added(es))}
        BY DEF Glob
      <4> QED
        BY <4>1, <4>2, UnmaskedUnmoved
    <3>6. CASE ReadElf \/ ReadElfGlob \/ ReadElfLib \/ ReadElfPath
      <4>1. PICK l \in SourceLine :
              \E then \in {Elf(l, Masked(l).e), ElfGlob(l, Masked(l).e),
                           ElfLib(l, Masked(l).e), ElfPath(l, Masked(l).e)} : EntryLine(l, then)
        BY <2>1, <3>6 DEF ReadElf, ReadElfGlob, ReadElfLib, ReadElfPath
      <4>2. PICK then \in {Elf(l, Masked(l).e), ElfGlob(l, Masked(l).e),
                           ElfLib(l, Masked(l).e), ElfPath(l, Masked(l).e)} : EntryLine(l, then)
        BY <4>1
      <4>3. \E es : then = Fails \/ then = PassesOn(es)
        BY DEF Elf, ElfGlob, ElfLib, ElfPath
      <4> QED
        BY <4>2, <4>3, PassedUnmoved
    <3> QED
      BY <1>2, <3>1, <3>2, <3>3, <3>4, <3>5, <3>6 DEF ReadLine
  <2> QED
    BY <2>3, UnmovedOutcome
<1> QED
  BY <1>1, <1>2

(* All but lines put entries that are masked when it is their turn, and change
   the masks in force only when nothing is left to put. *)
LEMMA UnmovedStep ==
    ASSUME RenamesEnd, Unmoved, InForce \in Seq(Masks), pend \in Seq(Queued),
           MergeInv, [Next]_vars
    PROVE  Unmoved'
<1>1. \A es : pend' = Added(es) => Unmoved'
  BY DEF Unmoved, Added
<1>2. (pend = <<>> /\ pend' = pend) \/ UNCHANGED <<pend, heap, mm>> => Unmoved'
  BY DEF Unmoved, InForce
<1>3. CASE Put
  <2>1. /\ pend # <<>> /\ pend' = Tail(pend) /\ UNCHANGED masks
        /\ Tail(pend) \in Seq(Queued) /\ Len(Tail(pend)) = Len(pend) - 1 /\ Len(pend) \in Nat
        /\ \A k \in 1..Len(pend) - 1 : Tail(pend)[k] = pend[k + 1] /\ k + 1 \in DOMAIN pend
    BY <1>3 DEF Put, Busy
  <2>2. \A k \in DOMAIN pend' : k + 1 \in DOMAIN pend /\ pend'[k] = pend[k + 1]
    BY <2>1
  <2> QED
    BY <2>1, <2>2 DEF Unmoved, InForce, masks
<1>4. CASE AddElf
  <2>1. (\E es : pend' = Added(es)) \/ (pend = <<>> /\ pend' = pend)
    BY <1>4 DEF AddElf, Busy
  <2> QED
    BY <1>1, <1>2, <2>1
<1>5. CASE Include
  <2>1. (\E es : pend' = Added(es)) \/ (pend = <<>> /\ pend' = pend) \/ UNCHANGED <<pend, heap, mm>>
    BY <1>5 DEF Include, Wait, NextResult, ResultsDone, IncludeMain, IncludeLib, LibsDone,
       Busy, main, masks
  <2> QED
    BY <1>1, <1>2, <2>1
<1>6. CASE Spawn \/ Files
  <2>1. (pend = <<>> /\ pend' = pend) \/ UNCHANGED <<pend, heap, mm>>
    BY <1>6 DEF Spawn, Files, MergeNext, MergeDone, OpenFile, OpenFails, FilesDone, MergeInv, Busy, main, masks
  <2> QED
    BY <1>2, <2>1
<1>7. Goroutines \/ Release \/ Terminated \/ UNCHANGED vars => UNCHANGED <<pend, heap, mm>>
  BY GoroutineFrame DEF Terminated, vars, main, masks
<1> QED
  BY <1>2, <1>3, <1>4, <1>5, <1>6, <1>7, LineUnmoved DEF Next, MainThread

(* What Put puts is where no rename of the masks in force rewrites it, or where
   its file is. *)
LEMMA PutUnrenamed ==
    ASSUME RenamesEnd, Unmoved, InForce \in Seq(Masks), pend \in Seq(Queued), pend # <<>>,
           ~Next1.drop
    PROVE  Renames(InForce, Next1.e.dst) => OfFile(Head(pend)) /\ Next1.e = Head(pend).e
<1> DEFINE p == Head(pend)
<1>1. p \in Queued /\ p = pend[1] /\ 1 \in DOMAIN pend
  BY TailTyped
<1>2. Next1 = IF p.masked THEN [e |-> p.e, drop |-> FALSE] ELSE ApplyMasks(InForce, p.e)
  BY DEF Next1
<1>3. CASE p.masked
  BY <1>1, <1>2, <1>3 DEF Unmoved
<1>4. CASE ~p.masked
  <2> HIDE DEF p
  <2>1. p.e \in OwnEntry
    BY <1>1 DEF Queued
  <2> QED
    BY <1>2, <1>4, <2>1, MasksRename
<1> QED
  BY <1>3, <1>4

-----------------------------------------------------------------------------
(* The theorems *)

LoadInv == /\ SliceInv /\ ControlInv /\ PoolInv /\ MapInv
           /\ ShownInv /\ TypeInv /\ MergeInv /\ ResultInv

LEMMA LoadInit == Init => LoadInv
<1> SUFFICES ASSUME Init PROVE LoadInv
  OBVIOUS
<1>1. SliceInv /\ ControlInv /\ PoolInv
  BY PoolInit
<1>2. MapInv
  BY EmptyWellFormed DEF Init, MapInv
<1>3. ShownInv
  BY DEF Init, ShownInv, Shown, Lines, Eff, NilSlice
<1>4. MainTyped
  <2>1. pc \in Controls \ {"elf", "include", "libs"} /\ bad \in BOOLEAN /\ libs \subseteq Texts
    BY DEF Init, Controls
  <2>2. file \in 0..MaxFiles /\ line \in 0..MaxLines
    BY BoundsAssumption DEF Init
  <2>3. pend \in Seq(Queued) /\ todo \in Seq(ElfEntry)
    <3>1. \A S : <<>> \in Seq(S)
      OBVIOUS
    <3>2. pend = <<>> /\ todo = <<>>
      BY DEF Init
    <3> QED
      BY <3>1, <3>2
  <2> QED
    BY <2>1, <2>2, <2>3 DEF MainTyped
<1>5. MapsTyped /\ ElfsTyped /\ LockTyped
  BY DEF Init, MapsTyped, ElfsTyped, LockTyped, EmptyMap
<1>6. MergeInv
  BY DEF Init, MergeInv, EmptyMap
<1>7. ResultInv
  BY DEF Init, ResultInv, Including
<1> QED
  BY <1>1, <1>2, <1>3, <1>4, <1>5, <1>6, <1>7 DEF LoadInv, TypeInv

LEMMA LoadStep ==
    ASSUME LoadInv, [Next]_vars
    PROVE  LoadInv' /\ Refines
<1>1. SliceInv' /\ ControlInv' /\ PoolInv' /\ MapInv'
  BY NextStep, ControlStep, PoolStep, MapStep DEF LoadInv, Step
<1>2. InForce \in Seq(Masks)
  BY DEF LoadInv, ShownInv, Shown, InForce
<1>3. MainTyped'
  BY <1>2, MainStep DEF LoadInv, TypeInv
<1>4. MapsTyped' /\ ElfsTyped' /\ LockTyped'
  BY <1>2, MapsTypes, ElfsStep, LockStep DEF LoadInv, TypeInv
<1>5. MergeInv'
  BY MergeStep DEF LoadInv, TypeInv
<1>6. Refines
  BY <1>3, RefineStep DEF LoadInv, TypeInv
<1>7. ShownInv'
  BY <1>6, ShownStep DEF LoadInv
<1>8. ResultInv'
  BY ResultStep DEF LoadInv, TypeInv
<1> QED
  BY <1>1, <1>3, <1>4, <1>5, <1>6, <1>7, <1>8 DEF LoadInv, TypeInv

(* Whatever a configuration says and the system answers, the state of the load
   is of its types. *)
THEOREM TypesKept == Spec => []TypeOK
<1>1. LoadInv => TypeOK
  <2> SUFFICES ASSUME LoadInv PROVE TypeOK
    OBVIOUS
  <2> USE DEF LoadInv
  <2>1. \A x \in {map, cfg} : \A i \in DOMAIN x.A : x.A[i] \in Entry
    BY ElementTyped DEF TypeInv, MapsTyped
  <2>2. \A i \in DOMAIN pend : pend[i].e \in Entry /\ pend[i].masked \in BOOLEAN
    <3>1. \A i \in DOMAIN pend : pend[i] \in Queued
      BY ElementTyped DEF TypeInv, MainTyped
    <3> QED
      BY <3>1 DEF Queued, OwnEntry
  <2>3. \A i \in DOMAIN todo : todo[i] \in Entry
    <3>1. \A i \in DOMAIN todo : todo[i] \in ElfEntry
      BY ElementTyped DEF TypeInv, MainTyped
    <3> QED
      BY <3>1 DEF ElfEntry
  <2>4. \A j \in DOMAIN jobs : /\ jobs[j].e \in Entry /\ IsSlice(heap, jobs[j].mm)
                              /\ jobs[j].stage \in Stages
                              /\ jobs[j].at \in 0..Len(elf)
    BY DEF TypeInv, ElfsTyped, LockTyped, IsElf, ElfEntry, PoolInv, StageInv, SliceInv,
           JobsOK
  <2>5. elf \in Seq(DOMAIN jobs) /\ mu \in {0} \cup DOMAIN jobs
    BY DEF SliceInv, LockOK, TypeInv, LockTyped
  <2>6. {wg, q, leaving, next} \subseteq Nat
    BY JobsFinite DEF PoolInv, CountInv, ControlInv
  <2>7. heap \in Heaps /\ IsSlice(heap, mm) /\ IsSlice(heap, saved)
    BY DEF SliceInv, MasksOK
  <2>8. pc \in Controls /\ file \in 0..MaxFiles /\ line \in 0..MaxLines /\ bad \in BOOLEAN
    BY DEF TypeInv, MainTyped
  <2> QED
    BY <2>1, <2>2, <2>3, <2>4, <2>5, <2>6, <2>7, <2>8 DEF TypeOK, Controls
<1> QED
  BY <1>1, LoadInit, LoadStep, PTL DEF Spec

(* Between two files, and at the end, the entries of the files read so far are
   in the map of all files, the last file's above the others'
   (Merge in config/map.go:623-628, called in config/config.go:299). *)
THEOREM MergedWholly == Spec => []FileMerged
<1>1. LoadInv => FileMerged
  BY MergedWhole DEF LoadInv
<1> QED
  BY <1>1, LoadInit, LoadStep, PTL DEF Spec

(* Results replace what lines put before them: whatever order the goroutines
   end in, everything an ELF line needs, after the masks of that line, is in the
   map, and where its destination holds another entry it is another result's
   (config/map.go:505-582). *)
THEOREM ElfsReplaceOthers == Spec => []ElfResultsLast
<1>1. LoadInv => ElfResultsLast
  BY ResultPlaced DEF LoadInv
<1> QED
  BY <1>1, LoadInit, LoadStep, PTL DEF Spec

(* With one place in the channel the goroutines end in the order of their lines,
   and where several of them give a destination an entry, the last one's stays
   (config/map.go:150).  With more places it may be any of them. *)
THEOREM OneByOneLaterWins == ASSUME Slots = 1 PROVE Spec => []LaterLineWins
<1> DEFINE TurnInv == LoadInv /\ InTurn
<1>1. Init => TurnInv
  BY LoadInit DEF Init, InTurn
<1>2. TurnInv /\ [Next]_vars => TurnInv'
  BY LoadStep, TurnStep DEF LoadInv
<1>3. TurnInv => LaterLineWins
  <2> SUFFICES ASSUME TurnInv, Concurrent, pc = "merge", next = 0,
                      NEW j \in DOMAIN jobs, NEW p \in Produced(j)
               PROVE  \/ EntryOf(map, p.dst) \in Produced(j)
                      \/ \E k \in j+1..Len(jobs) : \E x \in Produced(k) : x.dst = p.dst
    BY DEF LaterLineWins
  <2> USE DEF LoadInv
  <2>1. /\ Len(elf) = Len(jobs) /\ DOMAIN jobs = 1..Len(jobs) /\ Len(jobs) \in Nat
    BY AllRecorded DEF NoResultLost, SliceInv, JobsOK
  <2>2. \A k \in 1..Len(jobs) : elf[k] = k
    BY <2>1 DEF InTurn
  <2>3. /\ p.dst \in Dsts(map)
        /\ \E k \in j..Len(elf) : EntryOf(map, p.dst) \in Produced(elf[k])
    BY <2>1, <2>2, InListOrder
  <2>4. \A k \in j..Len(jobs) : k \in 1..Len(jobs) /\ (k = j \/ k \in j+1..Len(jobs))
    BY <2>1
  <2>5. PICK k \in j..Len(jobs) : EntryOf(map, p.dst) \in Produced(k)
    BY <2>1, <2>2, <2>3, <2>4
  <2>6. EntryOf(map, p.dst).dst = p.dst
    BY <2>3 DEF MapInv, WellFormed, Indexed, EntryOf, Dsts
  <2> QED
    BY <2>4, <2>5, <2>6
<1> QED
  BY <1>1, <1>2, <1>3, PTL DEF Spec

(* When no rename begins where another ends, no entry gets a destination that a
   rename mask in force rewrites to another (config/mask.go:178, applied at
   config/map.go:354 and 442), whether symlinks are expanded or not and in
   whatever order results are included; but for an fr line without a destination,
   which -file.expand gives the one of its file after the masks
   (config/map.go:372). *)
THEOREM RenamesApplied ==
    ASSUME RenamesEnd PROVE Spec => NothingUnrenamed
<1> DEFINE RenameInv == LoadInv /\ Unmoved
           Kept == \A d \in Dsts(map') \ Dsts(map) :
                      Renames(InForce, d) => OfFile(Head(pend)) /\ d = Head(pend).e.dst
<1>1. Init => RenameInv
  BY LoadInit DEF Init, Unmoved
<1>2. RenameInv => InForce \in Seq(Masks) /\ pend \in Seq(Queued)
  BY DEF LoadInv, ShownInv, Shown, InForce, TypeInv, MainTyped
<1>3. RenameInv /\ [Next]_vars => RenameInv'
  BY <1>2, LoadStep, UnmovedStep DEF LoadInv
<1>4. RenameInv /\ [Next]_vars => [Kept]_vars
  <2> SUFFICES ASSUME RenameInv, [Next]_vars PROVE Kept
    OBVIOUS
  <2>1. \/ Put \/ UNCHANGED map \/ map' = EmptyMap
    BY GoroutineFrame
       DEF Next, MainThread, ReadLine, ReadMask, ReadClear, ReadPlain, ReadRegularRel, ReadAuto,
           ReadRecursive, ReadGlob, ReadElf, ReadElfGlob, ReadElfLib, ReadElfPath, ReadError,
           EndOfFile, MaskLine, EntryLine, AddElf, Spawn, Include, Wait, NextResult, ResultsDone,
           IncludeMain, IncludeLib, LibsDone, Files, MergeNext, MergeDone, OpenFile, OpenFails,
           FilesDone, NewMap, Terminated, vars, main
  <2>2. CASE Put
    <3>1. map' = IF Next1.drop THEN map ELSE PutEntry(map, Next1.e)
      BY <2>2 DEF Put, Next1
    <3>2. Dsts(PutEntry(map, Next1.e)) \subseteq Dsts(map) \cup {Next1.e.dst}
      BY DEF PutEntry, Dsts, LoadInv, MapInv, WellFormed, IsMap
    <3>3. ~Next1.drop /\ Renames(InForce, Next1.e.dst) =>
             OfFile(Head(pend)) /\ Next1.e.dst = Head(pend).e.dst
      BY <1>2, <2>2, PutUnrenamed DEF Put, Busy
    <3> QED
      BY <3>1, <3>2, <3>3
  <2>3. CASE map' = EmptyMap
    BY <2>3 DEF EmptyMap, Dsts
  <2> QED
    BY <2>1, <2>2, <2>3
<1> QED
  BY <1>1, <1>3, <1>4, PTL DEF Spec, NothingUnrenamed

(* The load with its slices, index, goroutines and lock does what LoadSpec says
   of lists, dictionaries and deferred lines. *)
THEOREM LoadImplements == Spec => ImplementsLoadSpec
<1>1. Init => Abstract!Init
  BY EmptyContent
     DEF Init, Abstract!Init, Abstract!Nothing, InForce, Eff, NilSlice, Including, Taken
<1>2. Refines => [Abstract!Next]_(Abstract!vars)
  BY AbstractStutters DEF Refines
<1> QED
  BY <1>1, <1>2, LoadInit, LoadStep, PTL DEF Spec, ImplementsLoadSpec, Abstract!Spec
=============================================================================
