--------------------------- MODULE ArchiveTreeProofs ---------------------------
(***************************************************************************)
(* Theorems about ArchiveTree: an archive has each directory before what   *)
(* is in it, and the entries of the list but those another one hides, and  *)
(* the archive of what was printed is the archive.                         *)
(***************************************************************************)
EXTENDS ArchiveTree, EntryMapProofs, DataInduction, FiniteSetTheorems
-----------------------------------------------------------------------------
(* The function behind the fold of PutEntry, on the sets of the first n places. *)
IsPuts(it, s, n) ==
    it = [S \in SUBSET (1..n) |->
            IF S = {} THEN EmptyMap ELSE PutEntry(it[S \ {Max(S)}], s[Max(S)])]

LEMMA PutsExists ==
    ASSUME NEW s, NEW n \in Nat
    PROVE  \E it : IsPuts(it, s, n)
<1> DEFINE good == {k \in Nat : \E it : IsPuts(it, s, k)}
<1>1. 0 \in good
  <2> DEFINE it == [S \in SUBSET (1..0) |-> EmptyMap]
  <2>1. \A S \in SUBSET (1..0) : S = {}
    OBVIOUS
  <2>2. IsPuts(it, s, 0)
    BY <2>1 DEF IsPuts
  <2> HIDE DEF it
  <2> QED
    BY <2>2
<1>2. ASSUME NEW k \in Nat, k \in good PROVE k + 1 \in good
  <2>1. PICK it : IsPuts(it, s, k)
    BY <1>2
  <2> DEFINE jt == [S \in SUBSET (1..(k + 1)) |->
                      IF k + 1 \in S THEN PutEntry(it[S \ {k + 1}], s[k + 1]) ELSE it[S]]
  <2>2. ASSUME NEW S \in SUBSET (1..(k + 1))
        PROVE  jt[S] = IF S = {} THEN EmptyMap ELSE PutEntry(jt[S \ {Max(S)}], s[Max(S)])
    <3>1. CASE k + 1 \in S
      <4>1. Max(S) = k + 1
        BY <3>1, MaxLast
      <4>2. S \ {k + 1} \in SUBSET (1..(k + 1)) /\ k + 1 \notin S \ {k + 1}
        OBVIOUS
      <4>3. jt[S \ {k + 1}] = it[S \ {k + 1}]
        BY <4>2
      <4>4. jt[S] = PutEntry(it[S \ {k + 1}], s[k + 1])
        BY <3>1
      <4> HIDE DEF jt
      <4> QED
        BY <3>1, <4>1, <4>3, <4>4
    <3>2. CASE k + 1 \notin S
      <4>1. S \in SUBSET (1..k)
        BY <3>2
      <4>2. jt[S] = it[S]
        BY <3>2
      <4>3. it[S] = IF S = {} THEN EmptyMap ELSE PutEntry(it[S \ {Max(S)}], s[Max(S)])
        BY <2>1, <4>1 DEF IsPuts
      <4>4. CASE S = {}
        BY <4>2, <4>3, <4>4
      <4>5. CASE S # {}
        <5>1. S \ {Max(S)} \in SUBSET (1..(k + 1)) /\ k + 1 \notin S \ {Max(S)}
          BY <3>2
        <5>2. jt[S \ {Max(S)}] = it[S \ {Max(S)}]
          BY <5>1
        <5> HIDE DEF jt
        <5> QED
          BY <4>2, <4>3, <4>5, <5>2
      <4> QED
        BY <4>4, <4>5
    <3> QED
      BY <3>1, <3>2
  <2>3. jt = [S \in SUBSET (1..(k + 1)) |-> jt[S]]
    OBVIOUS
  <2>4. IsPuts(jt, s, k + 1)
    <3> HIDE DEF jt
    <3> QED
      BY <2>2, <2>3 DEF IsPuts
  <2>5. k + 1 \in Nat
    OBVIOUS
  <2> HIDE DEF jt
  <2> QED
    BY <2>4, <2>5
<1>3. Nat \subseteq good
  <2> HIDE DEF good
  <2> QED
    BY <1>1, <1>2, SetInduction
<1> QED
  BY <1>3

(* So the fold is what one PutEntry after the other makes, f[k] after k of them. *)
LEMMA PutsFold ==
    ASSUME NEW s, NEW n \in Nat, DOMAIN s = 1..n
    PROVE  \E f : /\ f[0] = EmptyMap
                  /\ \A k \in Nat : k + 1 \in 1..n => f[k + 1] = PutEntry(f[k], s[k + 1])
                  /\ f[n] = FoldLeft(PutEntry, EmptyMap, s)
<1> DEFINE iter == CHOOSE it : IsPuts(it, s, n)
           f == [k \in 0..n |-> iter[1..k]]
<1>1. IsPuts(iter, s, n)
  BY PutsExists
<1>2. FoldLeft(PutEntry, EmptyMap, s) = iter[1..n]
  BY DEF FoldLeft, MapThenFoldSet, IsPuts
<1> HIDE DEF iter
<1>3. \A S \in SUBSET (1..n) :
         iter[S] = IF S = {} THEN EmptyMap ELSE PutEntry(iter[S \ {Max(S)}], s[Max(S)])
  BY <1>1 DEF IsPuts
<1>4. f[0] = EmptyMap
  <2>1. f[0] = iter[1..0] /\ 1..0 = {}
    OBVIOUS
  <2> HIDE DEF f
  <2> QED
    BY <1>3, <2>1
<1>5. ASSUME NEW k \in Nat, k + 1 \in 1..n PROVE f[k + 1] = PutEntry(f[k], s[k + 1])
  <2> DEFINE S == 1..(k + 1)
  <2>1. S \in SUBSET (1..n) /\ S # {} /\ k + 1 \in S /\ S \in SUBSET (1..(k + 1))
    <3>1. k + 1 \in S /\ \A i \in S : i \in 1..n
      BY <1>5
    <3> QED
      BY <3>1
  <2>2. Max(S) = k + 1
    <3> HIDE DEF S
    <3> QED
      BY <2>1, MaxLast
  <2>3. S \ {k + 1} = 1..k
    OBVIOUS
  <2>4. f[k + 1] = iter[S] /\ f[k] = iter[1..k]
    BY <1>5
  <2> HIDE DEF S, f
  <2>5. iter[S] = PutEntry(iter[S \ {Max(S)}], s[Max(S)])
    BY <1>3, <2>1
  <2> QED
    BY <2>2, <2>3, <2>4, <2>5
<1>6. f[n] = iter[1..n]
  OBVIOUS
<1> HIDE DEF f
<1> QED
  BY <1>2, <1>4, <1>5, <1>6

(* The function behind the fold of Place, on the sets of the first n places. *)
IsPlaced(it, s, n) ==
    it = [S \in SUBSET (1..n) |->
            IF S = {} THEN NoTree ELSE Place(it[S \ {Max(S)}], s[Max(S)])]

LEMMA PlacedExists ==
    ASSUME NEW s, NEW n \in Nat
    PROVE  \E it : IsPlaced(it, s, n)
<1> DEFINE good == {k \in Nat : \E it : IsPlaced(it, s, k)}
<1>1. 0 \in good
  <2> DEFINE it == [S \in SUBSET (1..0) |-> NoTree]
  <2>1. \A S \in SUBSET (1..0) : S = {}
    OBVIOUS
  <2>2. IsPlaced(it, s, 0)
    BY <2>1 DEF IsPlaced
  <2> HIDE DEF it
  <2> QED
    BY <2>2
<1>2. ASSUME NEW k \in Nat, k \in good PROVE k + 1 \in good
  <2>1. PICK it : IsPlaced(it, s, k)
    BY <1>2
  <2> DEFINE jt == [S \in SUBSET (1..(k + 1)) |->
                      IF k + 1 \in S THEN Place(it[S \ {k + 1}], s[k + 1]) ELSE it[S]]
  <2>2. ASSUME NEW S \in SUBSET (1..(k + 1))
        PROVE  jt[S] = IF S = {} THEN NoTree ELSE Place(jt[S \ {Max(S)}], s[Max(S)])
    <3>1. CASE k + 1 \in S
      <4>1. Max(S) = k + 1
        BY <3>1, MaxLast
      <4>2. S \ {k + 1} \in SUBSET (1..(k + 1)) /\ k + 1 \notin S \ {k + 1}
        OBVIOUS
      <4>3. jt[S \ {k + 1}] = it[S \ {k + 1}]
        BY <4>2
      <4>4. jt[S] = Place(it[S \ {k + 1}], s[k + 1])
        BY <3>1
      <4> HIDE DEF jt
      <4> QED
        BY <3>1, <4>1, <4>3, <4>4
    <3>2. CASE k + 1 \notin S
      <4>1. S \in SUBSET (1..k)
        BY <3>2
      <4>2. jt[S] = it[S]
        BY <3>2
      <4>3. it[S] = IF S = {} THEN NoTree ELSE Place(it[S \ {Max(S)}], s[Max(S)])
        BY <2>1, <4>1 DEF IsPlaced
      <4>4. CASE S = {}
        BY <4>2, <4>3, <4>4
      <4>5. CASE S # {}
        <5>1. S \ {Max(S)} \in SUBSET (1..(k + 1)) /\ k + 1 \notin S \ {Max(S)}
          BY <3>2
        <5>2. jt[S \ {Max(S)}] = it[S \ {Max(S)}]
          BY <5>1
        <5> HIDE DEF jt
        <5> QED
          BY <4>2, <4>3, <4>5, <5>2
      <4> QED
        BY <4>4, <4>5
    <3> QED
      BY <3>1, <3>2
  <2>3. jt = [S \in SUBSET (1..(k + 1)) |-> jt[S]]
    OBVIOUS
  <2>4. IsPlaced(jt, s, k + 1)
    <3> HIDE DEF jt
    <3> QED
      BY <2>2, <2>3 DEF IsPlaced
  <2>5. k + 1 \in Nat
    OBVIOUS
  <2> HIDE DEF jt
  <2> QED
    BY <2>4, <2>5
<1>3. Nat \subseteq good
  <2> HIDE DEF good
  <2> QED
    BY <1>1, <1>2, SetInduction
<1> QED
  BY <1>3

(* So the fold is what one Place after the other makes, f[k] after k of them. *)
LEMMA PlacedFold ==
    ASSUME NEW s, NEW n \in Nat, DOMAIN s = 1..n
    PROVE  \E f : /\ f[0] = NoTree
                  /\ \A k \in Nat : k + 1 \in 1..n => f[k + 1] = Place(f[k], s[k + 1])
                  /\ f[n] = FoldLeft(Place, NoTree, s)
<1> DEFINE iter == CHOOSE it : IsPlaced(it, s, n)
           f == [k \in 0..n |-> iter[1..k]]
<1>1. IsPlaced(iter, s, n)
  BY PlacedExists
<1>2. FoldLeft(Place, NoTree, s) = iter[1..n]
  BY DEF FoldLeft, MapThenFoldSet, IsPlaced
<1> HIDE DEF iter
<1>3. \A S \in SUBSET (1..n) :
         iter[S] = IF S = {} THEN NoTree ELSE Place(iter[S \ {Max(S)}], s[Max(S)])
  BY <1>1 DEF IsPlaced
<1>4. f[0] = NoTree
  <2>1. f[0] = iter[1..0] /\ 1..0 = {}
    OBVIOUS
  <2> HIDE DEF f
  <2> QED
    BY <1>3, <2>1
<1>5. ASSUME NEW k \in Nat, k + 1 \in 1..n PROVE f[k + 1] = Place(f[k], s[k + 1])
  <2> DEFINE S == 1..(k + 1)
  <2>1. S \in SUBSET (1..n) /\ S # {} /\ k + 1 \in S /\ S \in SUBSET (1..(k + 1))
    <3>1. k + 1 \in S /\ \A i \in S : i \in 1..n
      BY <1>5
    <3> QED
      BY <3>1
  <2>2. Max(S) = k + 1
    <3> HIDE DEF S
    <3> QED
      BY <2>1, MaxLast
  <2>3. S \ {k + 1} = 1..k
    OBVIOUS
  <2>4. f[k + 1] = iter[S] /\ f[k] = iter[1..k]
    BY <1>5
  <2> HIDE DEF S, f
  <2>5. iter[S] = Place(iter[S \ {Max(S)}], s[Max(S)])
    BY <1>3, <2>1
  <2> QED
    BY <2>2, <2>3, <2>4, <2>5
<1>6. f[n] = iter[1..n]
  OBVIOUS
<1> HIDE DEF f
<1> QED
  BY <1>2, <1>4, <1>5, <1>6
-----------------------------------------------------------------------------
(* The list of a configuration has entries of it, one for each destination. *)
Distinct(list) == \A i, j \in DOMAIN list : list[i].dst = list[j].dst => i = j

LEMMA PutValues ==
    ASSUME NEW map, NEW e, WellFormed(map)
    PROVE  Values(PutEntry(map, e).A) \subseteq Values(map.A) \cup {e}
<1>1. map.A \in Seq(Values(map.A)) /\ map = [A |-> map.A, m |-> map.m]
  BY DEF WellFormed, IsMap
<1>2. CASE e.dst \in Dsts(map)
  <2> DEFINE B == [map.A EXCEPT ![map.m[e.dst]] = e]
  <2>1. PutEntry(map, e).A = B
    BY <1>1, <1>2 DEF PutEntry
  <2>2. \A i \in DOMAIN B : i \in DOMAIN map.A /\ B[i] \in {map.A[i], e}
    BY <1>1
  <2> HIDE DEF B
  <2> QED
    BY <2>1, <2>2 DEF Values
<1>3. CASE e.dst \notin Dsts(map)
  <2> DEFINE B == Append(map.A, e)
  <2>1. PutEntry(map, e).A = B
    BY <1>3 DEF PutEntry
  <2>2. \A i \in DOMAIN B : B[i] = e \/ (i \in DOMAIN map.A /\ B[i] = map.A[i])
    <3>1. map.A \in Seq(Values(map.A) \cup {e})
      <4>1. map.A \in [1..Len(map.A) -> Values(map.A) \cup {e}] /\ Len(map.A) \in Nat
        BY <1>1
      <4> QED
        BY <4>1
    <3> QED
      BY <3>1
  <2> HIDE DEF B
  <2> QED
    BY <2>1, <2>2 DEF Values
<1> QED
  BY <1>2, <1>3

LEMMA LoadedList ==
    ASSUME NEW list, IsList(list)
    PROVE  LET A == FoldLeft(PutEntry, EmptyMap, list).A
           IN IsList(A) /\ Distinct(A) /\ Range(A) \subseteq Range(list)
<1> DEFINE n == Len(list)
           A == FoldLeft(PutEntry, EmptyMap, list).A
<1>1. n \in Nat /\ DOMAIN list = 1..n
  BY DEF IsList
<1>2. PICK f : /\ f[0] = EmptyMap
               /\ \A k \in Nat : k + 1 \in 1..n => f[k + 1] = PutEntry(f[k], list[k + 1])
               /\ f[n] = FoldLeft(PutEntry, EmptyMap, list)
  BY <1>1, PutsFold
<1> DEFINE good == {k \in Nat : k \in 0..n => /\ WellFormed(f[k])
                                              /\ Values(f[k].A) \subseteq Range(list)}
<1>3. 0 \in good
  BY <1>2, EmptyWellFormed DEF EmptyMap, Values
<1>4. ASSUME NEW k \in Nat, k \in good PROVE k + 1 \in good
  <2>1. SUFFICES ASSUME k + 1 \in 0..n
                 PROVE  /\ WellFormed(f[k + 1])
                        /\ Values(f[k + 1].A) \subseteq Range(list)
    OBVIOUS
  <2>2. k \in 0..n /\ k + 1 \in 1..n
    BY <1>1, <2>1
  <2>3. WellFormed(f[k]) /\ Values(f[k].A) \subseteq Range(list)
    BY <1>4, <2>2
  <2>4. f[k + 1] = PutEntry(f[k], list[k + 1]) /\ list[k + 1] \in Range(list)
    BY <1>1, <1>2, <2>2 DEF Range
  <2> HIDE DEF n, good
  <2> QED
    BY <2>3, <2>4, PutWellFormed, PutValues
<1>5. Nat \subseteq good
  <2> HIDE DEF good
  <2> QED
    BY <1>3, <1>4, SetInduction
<1>6. WellFormed(f[n]) /\ Values(A) \subseteq Range(list)
  BY <1>1, <1>2, <1>5
<1>7. A \in Seq(Range(A))
  BY <1>2, <1>6 DEF WellFormed, IsMap, Values, Range
<1>8. \A i \in DOMAIN A : IsEntry(A[i])
  BY <1>6 DEF IsList, Values, Range
<1>9. Distinct(A)
  BY <1>2, <1>6 DEF WellFormed, Indexed, Distinct
<1>10. Range(A) \subseteq Range(list)
  BY <1>6 DEF Values, Range
<1> QED
  BY <1>7, <1>8, <1>9, <1>10 DEF IsList
-----------------------------------------------------------------------------
(* What the prefixes of a path are. *)
LEMMA PrefixIs ==
    ASSUME NEW S, NEW s \in Seq(S), NEW p
    PROVE  p \in Prefixes(s) <=> /\ p \in Seq(S) /\ Len(p) <= Len(s)
                                 /\ \A i \in 1..Len(p) : p[i] = s[i]
<1>1. ASSUME p \in Prefixes(s)
      PROVE  p \in Seq(S) /\ Len(p) <= Len(s) /\ \A i \in 1..Len(p) : p[i] = s[i]
  <2>1. PICK l \in 0..Len(s) : p = SubSeq(s, 1, l)
    BY <1>1 DEF Prefixes
  <2> QED
    BY <2>1
<1>2. ASSUME p \in Seq(S), Len(p) <= Len(s), \A i \in 1..Len(p) : p[i] = s[i]
      PROVE  p \in Prefixes(s)
  <2> DEFINE t == SubSeq(s, 1, Len(p))
  <2>1. Len(p) \in 0..Len(s)
    BY <1>2
  <2>2. t \in Seq(S) /\ Len(t) = Len(p) /\ \A i \in 1..Len(p) : t[i] = s[i]
    BY <2>1
  <2>3. p = t
    <3> HIDE DEF t
    <3> QED
      BY <1>2, <2>2, SeqEqual
  <2> QED
    BY <2>1, <2>3 DEF Prefixes
<1> QED
  BY <1>1, <1>2

LEMMA PrefixTransitive ==
    ASSUME NEW S, NEW s \in Seq(S), NEW p, NEW q \in Prefixes(s), p \in Prefixes(q)
    PROVE  p \in Prefixes(s)
<1>1. q \in Seq(S) /\ Len(q) <= Len(s) /\ \A i \in 1..Len(q) : q[i] = s[i]
  BY PrefixIs
<1>2. p \in Seq(S) /\ Len(p) <= Len(q) /\ \A i \in 1..Len(p) : p[i] = q[i]
  BY <1>1, PrefixIs
<1>3. Len(p) <= Len(s) /\ \A i \in 1..Len(p) : p[i] = s[i]
  BY <1>1, <1>2
<1> QED
  BY <1>2, <1>3, PrefixIs

(* Two prefixes of one length are the same, and one of full length is s. *)
LEMMA PrefixUnique ==
    ASSUME NEW S, NEW s \in Seq(S), NEW p \in Prefixes(s), NEW q \in Prefixes(s),
           Len(p) = Len(q)
    PROVE  p = q
<1>1. /\ p \in Seq(S) /\ \A i \in 1..Len(p) : p[i] = s[i]
      /\ q \in Seq(S) /\ \A i \in 1..Len(q) : q[i] = s[i]
  BY PrefixIs
<1>2. \A i \in 1..Len(p) : p[i] = q[i]
  BY <1>1
<1> QED
  BY <1>1, <1>2, SeqEqual

LEMMA PrefixSelf ==
    ASSUME NEW S, NEW s \in Seq(S)
    PROVE  s \in Prefixes(s)
BY PrefixIs

LEMMA StrictIs ==
    ASSUME NEW S, NEW s \in Seq(S), NEW p \in Seq(S)
    PROVE  IsStrictPrefix(p, s) <=> p \in Prefixes(s) /\ p # s
<1>1. ASSUME IsPrefix(p, s) PROVE p \in Prefixes(s)
  <2>1. Len(p) <= Len(s) /\ SubSeq(p, 1, Len(p)) = SubSeq(s, 1, Len(p))
    BY <1>1 DEF IsPrefix
  <2>2. p = SubSeq(p, 1, Len(p)) /\ Len(p) \in 0..Len(s)
    BY <2>1
  <2> QED
    BY <2>1, <2>2 DEF Prefixes
<1>2. ASSUME p \in Prefixes(s) PROVE IsPrefix(p, s)
  <2>1. PICK l \in 0..Len(s) : p = SubSeq(s, 1, l)
    BY <1>2 DEF Prefixes
  <2>2. Len(p) = l /\ p = SubSeq(p, 1, Len(p))
    BY <2>1
  <2> QED
    BY <2>1, <2>2 DEF IsPrefix
<1> QED
  BY <1>1, <1>2 DEF IsStrictPrefix

(* A path and the one of its directory. *)
LEMMA AppendPath ==
    ASSUME NEW S, NEW p \in Seq(S), NEW x \in S
    PROVE  LET q == Append(p, x) IN
           /\ q \in Seq(S) \ {<<>>} /\ Len(q) = Len(p) + 1 /\ Front(q) = p
           /\ Prefixes(q) = Prefixes(p) \cup {q}
<1> DEFINE q == Append(p, x)
<1>1. /\ q \in Seq(S) \ {<<>>} /\ Len(q) = Len(p) + 1 /\ Len(p) \in Nat
      /\ \A i \in 1..Len(p) : q[i] = p[i]
  OBVIOUS
<1>2. Front(q) = p
  BY DEF Front
<1>3. ASSUME NEW r \in Prefixes(p) PROVE r \in Prefixes(q)
  <2>1. p \in Prefixes(q)
    <3> HIDE DEF q
    <3> QED
      BY <1>1, PrefixIs
  <2> HIDE DEF q
  <2> QED
    BY <1>1, <1>3, <2>1, PrefixTransitive
<1>4. ASSUME NEW r \in Prefixes(q), r # q PROVE r \in Prefixes(p)
  <2> HIDE DEF q
  <2>1. r \in Seq(S) /\ Len(r) <= Len(q) /\ \A i \in 1..Len(r) : r[i] = q[i]
    BY <1>1, PrefixIs
  <2>2. Len(r) # Len(q)
    BY <1>1, <1>4, PrefixUnique, PrefixSelf
  <2>3. Len(r) <= Len(p) /\ \A i \in 1..Len(r) : r[i] = p[i]
    BY <1>1, <2>1, <2>2
  <2> QED
    BY <2>1, <2>3, PrefixIs
<1>5. q \in Prefixes(q)
  BY <1>1, PrefixSelf
<1> HIDE DEF q
<1>6. Prefixes(q) = Prefixes(p) \cup {q}
  BY <1>3, <1>4, <1>5
<1> QED
  BY <1>1, <1>2, <1>6 DEF q
-----------------------------------------------------------------------------
(* A path that begins with one slash at most. *)
OneSlash(p) == Len(p) > 1 => p[1] # "" \/ p[2] # ""

(* A path that begins with none. *)
Relative(p) == p[1] # ""

(* The k-th entry of a list makes Render come to p, and is the first to. *)
Leads(list, k, p) == ~Skipped(list[k].dst) /\ p \in Prefixes(list[k].dst) \ {<<>>}
Makes(list, k, p) == Leads(list, k, p) /\ \A j \in 1..k-1 : ~Leads(list, j, p)
NodeOf(list, k, p) == IF p = list[k].dst THEN list[k] ELSE Implicit(list[k])

(* What Render has made of the first n entries: the paths they lead to, each
   with what the first of them says. *)
IsTree(list, n, t) ==
    /\ \A k \in 1..n : \A p \in Prefixes(list[k].dst) : Leads(list, k, p) => p \in DOMAIN t
    /\ \A p \in DOMAIN t : \E k \in 1..n : Makes(list, k, p) /\ t[p] = NodeOf(list, k, p)

(* The walk comes to a node when there are directories on the way only. *)
Reached(p) == \A q \in Prefixes(p) \ {<<>>, p} : IsDir(q)
HasMember(p) == Member(p, tree[p]) \in Range(out)

ListInv ==
    /\ run \in 1..3 /\ pc \in {"load", "render", "walk", "done", "failed", "panicked"}
    /\ IsList(config) /\ IsList(cfg) /\ Distinct(cfg)
    /\ placed \in 0..Len(cfg)

TreeInv ==
    /\ IsTree(cfg, placed, tree)
    /\ pc \in {"walk", "done"} => placed = Len(cfg)
    /\ pc = "load" => placed = 0
    /\ pc \in {"load", "render"} => work = <<>> /\ out = <<>>
    /\ pc = "done" => work = <<>>

WorkInv ==
    /\ work \in Seq(DOMAIN tree) /\ out \in Seq(Range(out))
    /\ Writing =>
         \A p \in Range(work) :
            LET dir == Front(p) IN
            /\ Reached(p)
            /\ dir \in {<<>>, Top} \/ (dir \in DOMAIN tree /\ IsDir(dir) /\ HasMember(dir))

(* A member is one of a node the walk came to, and a node it came to has its
   member, unless the walk has it or a directory above it before it. *)
MemberInv ==
    Writing =>
        /\ \A r \in Range(out) : \E p \in DOMAIN tree : Reached(p) /\ r = Member(p, tree[p])
        /\ pc \in {"walk", "done"} =>
             \A p \in DOMAIN tree :
                Reached(p) => \/ p = Top \/ HasMember(p)
                              \/ \E q \in Range(work) : q \in Prefixes(p)

(* No absolute path is printed. *)
PrintInv ==
    run = 2 =>
        /\ \A p \in Range(work) : Relative(p) \/ p = Top
        /\ \A r \in Range(out) : \E p \in DOMAIN tree : Relative(p) /\ r = Line(p, tree[p])

Inv == ListInv /\ TreeInv /\ WorkInv /\ MemberInv /\ PrintInv /\ ParentsFirst
-----------------------------------------------------------------------------
(* The tree *)

LEMMA EntryAt ==
    ASSUME NEW list, IsList(list), NEW k \in 1..Len(list)
    PROVE  IsEntry(list[k]) /\ list[k].dst \in Paths /\ list[k].dst \in Seq(Range(Names))
BY DEF IsList, IsEntry, Paths

LEMMA ImplicitIs ==
    ASSUME NEW e, IsEntry(e)
    PROVE  IsEntry(Implicit(e)) /\ Implicit(e).type = "d" /\ Implicit(e).dst = e.dst
<1> DEFINE mode == IF e.type = "d" THEN e.mode ELSE "755"
<1>1. e = [type |-> e.type, dst |-> e.dst, src |-> e.src,
           mode |-> e.mode, own |-> e.own, time |-> e.time]
  BY DEF IsEntry
<1>2. Implicit(e) = [e EXCEPT !.type = "d", !.mode = mode]
  BY DEF Implicit
<1> HIDE DEF mode
<1>3. Implicit(e) = [type |-> "d", dst |-> e.dst, src |-> e.src,
                     mode |-> mode, own |-> e.own, time |-> e.time]
  BY <1>1, <1>2
<1> QED
  BY <1>3 DEF IsEntry

(* Where an entry leads to. *)
LEMMA LeadsTo ==
    ASSUME NEW list, IsList(list), NEW k \in 1..Len(list), NEW p, Leads(list, k, p)
    PROVE  /\ p \in Paths /\ p \in Seq(Range(Names)) /\ Len(p) \in Nat \ {0}
           /\ OneSlash(p)
           /\ p = list[k].dst => p # Top
           /\ \A q \in Prefixes(p) \ {<<>>} : Leads(list, k, q)
<1> DEFINE dst == list[k].dst
<1>1. dst \in Seq(Range(Names)) /\ ~Skipped(dst) /\ p \in Prefixes(dst) /\ p # <<>>
  BY EntryAt DEF Leads
<1> HIDE DEF dst
<1>2. p \in Seq(Range(Names)) /\ Len(p) <= Len(dst) /\ \A i \in 1..Len(p) : p[i] = dst[i]
  BY <1>1, PrefixIs
<1>3. p \in Paths /\ Len(p) \in Nat \ {0}
  BY <1>1, <1>2 DEF Paths
<1>4. ASSUME Len(p) > 1 PROVE p[1] # "" \/ p[2] # ""
  <2>1. p[1] = dst[1] /\ p[2] = dst[2] /\ Len(dst) # 1
    BY <1>1, <1>2, <1>3, <1>4
  <2> QED
    BY <1>1, <2>1 DEF Skipped
<1>5. ASSUME p = dst PROVE p # Top
  <2>1. SUFFICES ASSUME dst = Top PROVE FALSE
    BY <1>5
  <2>2. Len(dst) = 1 /\ dst[1] = ""
    BY <2>1 DEF Top
  <2> QED
    BY <1>1, <2>2 DEF Skipped
<1>6. ASSUME NEW q \in Prefixes(p) \ {<<>>} PROVE Leads(list, k, q)
  <2>1. q \in Prefixes(dst)
    BY <1>1, PrefixTransitive
  <2> QED
    BY <1>1, <2>1 DEF Leads, dst
<1> QED
  BY <1>2, <1>3, <1>4, <1>5, <1>6 DEF dst, OneSlash

(* What a node of a tree is. *)
LEMMA NodeIs ==
    ASSUME NEW list, IsList(list), NEW n \in 0..Len(list), NEW t, IsTree(list, n, t),
           NEW p \in DOMAIN t
    PROVE  /\ p \in Paths /\ p \in Seq(Range(Names)) /\ Len(p) \in Nat \ {0}
           /\ OneSlash(p)
           /\ \A q \in Prefixes(p) \ {<<>>} : q \in DOMAIN t
           /\ IsEntry(t[p])
           /\ t[p].type # "d" => t[p].dst = p
           /\ p = Top => t[p].type = "d"
<1>1. PICK k \in 1..n : Makes(list, k, p) /\ t[p] = NodeOf(list, k, p)
  BY DEF IsTree
<1>2. k \in 1..Len(list) /\ Leads(list, k, p)
  BY <1>1 DEF Makes, IsList
<1>3. /\ p \in Paths /\ p \in Seq(Range(Names)) /\ Len(p) \in Nat \ {0}
      /\ OneSlash(p)
      /\ p = list[k].dst => p # Top
      /\ \A q \in Prefixes(p) \ {<<>>} : Leads(list, k, q)
  BY <1>2, LeadsTo
<1>4. ASSUME NEW q \in Prefixes(p) \ {<<>>} PROVE q \in DOMAIN t
  <2>1. Leads(list, k, q)
    BY <1>3
  <2> QED
    BY <2>1 DEF IsTree, Leads
<1>5. IsEntry(t[p]) /\ (p # list[k].dst => t[p].type = "d")
  BY <1>1, <1>2, EntryAt, ImplicitIs DEF NodeOf
<1>6. p = list[k].dst => t[p].dst = p
  BY <1>1 DEF NodeOf
<1> QED
  BY <1>3, <1>4, <1>5, <1>6

LEMMA NoTreeIsTree ==
    ASSUME NEW list PROVE IsTree(list, 0, NoTree)
BY DEF IsTree, NoTree

(* The next entry of Render's loop. *)
LEMMA PlaceTree ==
    ASSUME NEW list, IsList(list), NEW n \in Nat, n + 1 \in 1..Len(list),
           NEW t, IsTree(list, n, t)
    PROVE  IsTree(list, n + 1, Place(t, list[n + 1]))
<1> DEFINE e == list[n + 1]
           u == Place(t, e)
<1>1. \A k \in 1..(n + 1) : k \in 1..n \/ k = n + 1
  OBVIOUS
<1>2. CASE Skipped(e.dst)
  <2>1. u = t /\ \A p : ~Leads(list, n + 1, p)
    BY <1>2 DEF Place, Leads
  <2>2. \A k \in 1..(n + 1) : \A p \in Prefixes(list[k].dst) : Leads(list, k, p) => p \in DOMAIN t
    BY <1>1, <2>1 DEF IsTree
  <2>3. \A p \in DOMAIN t : \E k \in 1..(n + 1) : Makes(list, k, p) /\ t[p] = NodeOf(list, k, p)
    <3>1. \A k \in 1..n : k \in 1..(n + 1)
      OBVIOUS
    <3> QED
      BY <3>1 DEF IsTree
  <2> HIDE DEF u
  <2> QED
    BY <2>1, <2>2, <2>3 DEF IsTree, u
<1>3. CASE ~Skipped(e.dst)
  <2>1. /\ DOMAIN u = DOMAIN t \cup (Prefixes(e.dst) \ {<<>>})
        /\ \A p \in DOMAIN u : u[p] = IF p \in DOMAIN t THEN t[p]
                                      ELSE IF p = e.dst THEN e ELSE Implicit(e)
    BY <1>3 DEF Place
  <2>2. \A p : Leads(list, n + 1, p) <=> p \in Prefixes(e.dst) \ {<<>>}
    BY <1>3 DEF Leads
  <2> HIDE DEF u, e
  <2>3. ASSUME NEW k \in 1..(n + 1), NEW p \in Prefixes(list[k].dst), Leads(list, k, p)
        PROVE  p \in DOMAIN u
    BY <1>1, <2>1, <2>2, <2>3 DEF IsTree
  <2>4. ASSUME NEW p \in DOMAIN u
        PROVE  \E k \in 1..(n + 1) : Makes(list, k, p) /\ u[p] = NodeOf(list, k, p)
    <3>1. CASE p \in DOMAIN t
      <4>1. PICK k \in 1..n : Makes(list, k, p) /\ t[p] = NodeOf(list, k, p)
        BY <3>1 DEF IsTree
      <4>2. k \in 1..(n + 1) /\ u[p] = t[p]
        BY <2>1, <3>1
      <4> QED
        BY <4>1, <4>2
    <3>2. CASE p \notin DOMAIN t
      <4>1. Leads(list, n + 1, p)
        BY <2>1, <2>2, <3>2
      <4>2. ASSUME NEW j \in 1..(n + 1) - 1, Leads(list, j, p) PROVE FALSE
        <5>1. j \in 1..n /\ p \in Prefixes(list[j].dst)
          BY <4>2 DEF Leads
        <5> QED
          BY <3>2, <4>2, <5>1 DEF IsTree
      <4>3. Makes(list, n + 1, p)
        BY <4>1, <4>2 DEF Makes
      <4>4. u[p] = NodeOf(list, n + 1, p)
        BY <2>1, <3>2 DEF NodeOf, e
      <4>5. n + 1 \in 1..(n + 1)
        OBVIOUS
      <4> QED
        BY <4>3, <4>4, <4>5
    <3> QED
      BY <3>1, <3>2
  <2> QED
    BY <2>3, <2>4 DEF IsTree, u, e
<1> QED
  BY <1>2, <1>3
-----------------------------------------------------------------------------
(* The walk *)

LEMMA SortedIs ==
    ASSUME NEW p \in Seq(Range(Names)), NEW ps
    PROVE  /\ Sorted(p, ps) \in Seq(ps)
           /\ Range(Sorted(p, ps)) = {q \in ps : \E x \in Range(Names) : q = Append(p, x)}
<1> DEFINE T == {q \in ps : \E x \in Range(Names) : q = Append(p, x)}
           One(i) == LET q == Append(p, Names[i]) IN IF q \in ps THEN <<q>> ELSE <<>>
           ss == [i \in DOMAIN Names |-> One(i)]
<1>1. Names \in Seq(Range(Names)) /\ DOMAIN Names = 1..Len(Names) /\ Len(Names) \in Nat
  <2>1. Names \in Seq(Range(Names))
    BY TreeAssumption
  <2> QED
    BY <2>1
<1>2. ASSUME NEW i \in DOMAIN Names PROVE One(i) \in Seq(T)
  <2>1. Names[i] \in Range(Names)
    BY DEF Range
  <2>2. Append(p, Names[i]) \in ps => Append(p, Names[i]) \in T
    BY <2>1
  <2> HIDE DEF T
  <2> QED
    BY <2>2
<1>3. ss \in Seq(Seq(T)) /\ Len(ss) = Len(Names)
  <2>1. ss \in [1..Len(Names) -> Seq(T)]
    <3> HIDE DEF T, One
    <3> QED
      BY <1>1, <1>2
  <2> HIDE DEF T, ss
  <2> QED
    BY <1>1, <2>1
<1>4. Sorted(p, ps) = FlattenSeq(ss)
  BY DEF Sorted
<1>5. FlattenSeq(ss) \in Seq(T)
  <2> HIDE DEF ss, T
  <2> QED
    BY <1>3, FlattenTyped
<1>6. ASSUME NEW q \in T PROVE q \in Range(FlattenSeq(ss))
  <2>1. PICK i \in DOMAIN Names : q = Append(p, Names[i]) /\ q \in ps
    BY DEF Range
  <2>2. ss[i] = <<q>> /\ i \in 1..Len(ss)
    BY <1>1, <1>3, <2>1
  <2>3. q \in Range(ss[i])
    <3>1. 1 \in DOMAIN <<q>> /\ <<q>>[1] = q
      OBVIOUS
    <3> HIDE DEF ss
    <3> QED
      BY <2>2, <3>1 DEF Range
  <2> HIDE DEF ss, T
  <2> QED
    BY <1>3, <2>2, <2>3, FlattenHas
<1>7. T \subseteq ps
  OBVIOUS
<1> HIDE DEF ss, T
<1>8. Range(FlattenSeq(ss)) \subseteq T
  BY <1>5, RangeOfSeq
<1>9. FlattenSeq(ss) \in Seq(ps)
  BY <1>5, <1>7, SeqMonotonic
<1>10. Range(FlattenSeq(ss)) = T
  BY <1>6, <1>8
<1> QED
  BY <1>4, <1>9, <1>10 DEF T

LEMMA BelowIs ==
    ASSUME NEW p \in Seq(Range(Names))
    PROVE  /\ Below(p) \in Seq(DOMAIN tree)
           /\ Range(Below(p)) = {q \in DOMAIN tree : \E x \in Range(Names) : q = Append(p, x)}
<1> DEFINE dirs == {q \in DOMAIN tree : IsDir(q)}
           rest == DOMAIN tree \ dirs
           C(ps) == {q \in ps : \E x \in Range(Names) : q = Append(p, x)}
<1>1. Below(p) = Sorted(p, rest) \o Sorted(p, dirs)
  BY DEF Below
<1>2. dirs \cup rest = DOMAIN tree /\ C(dirs) \cup C(rest) = C(DOMAIN tree)
  OBVIOUS
<1> HIDE DEF dirs, rest
<1>3. /\ Sorted(p, rest) \in Seq(rest) /\ Range(Sorted(p, rest)) = C(rest)
      /\ Sorted(p, dirs) \in Seq(dirs) /\ Range(Sorted(p, dirs)) = C(dirs)
  BY SortedIs
<1> HIDE DEF C
<1>4. Sorted(p, rest) \in Seq(DOMAIN tree) /\ Sorted(p, dirs) \in Seq(DOMAIN tree)
  BY <1>2, <1>3, SeqMonotonic
<1>5. Range(Sorted(p, rest) \o Sorted(p, dirs)) = C(rest) \cup C(dirs)
  BY <1>3, <1>4, RangeConcatenation
<1>6. Range(Below(p)) = C(DOMAIN tree)
  BY <1>1, <1>2, <1>5
<1> QED
  BY <1>1, <1>4, <1>6 DEF C
-----------------------------------------------------------------------------
(* Paths on the way *)

LEMMA NextOnWay ==
    ASSUME NEW S, NEW p \in Seq(S), NEW q \in Prefixes(p), q # p
    PROVE  \E x \in S : Append(q, x) \in Prefixes(p)
<1>1. q \in Seq(S) /\ Len(q) <= Len(p) /\ \A i \in 1..Len(q) : q[i] = p[i]
  BY PrefixIs
<1>2. Len(q) # Len(p)
  BY <1>1, PrefixUnique, PrefixSelf
<1> DEFINE x == p[Len(q) + 1]
           r == Append(q, x)
<1>3. Len(q) + 1 \in 1..Len(p) /\ Len(q) \in Nat
  BY <1>1, <1>2
<1>4. x \in S
  BY <1>3
<1>5. /\ r \in Seq(S) /\ Len(r) = Len(q) + 1
      /\ \A i \in 1..Len(r) : r[i] = IF i = Len(q) + 1 THEN x ELSE q[i]
  <2> HIDE DEF x
  <2> QED
    BY <1>1, <1>4
<1>6. \A i \in 1..Len(r) : r[i] = p[i]
  <2>1. ASSUME NEW i \in 1..Len(r) PROVE r[i] = p[i]
    <3>1. i = Len(q) + 1 \/ i \in 1..Len(q)
      BY <1>3, <1>5
    <3> QED
      BY <1>1, <1>5, <3>1
  <2> QED
    BY <2>1
<1> HIDE DEF r, x
<1>7. r \in Prefixes(p)
  BY <1>3, <1>5, <1>6, PrefixIs
<1> QED
  BY <1>4, <1>7 DEF r

LEMMA ShortSequences ==
    ASSUME NEW S, NEW p \in Seq(S)
    PROVE  /\ <<>> \in Seq(S) /\ Len(<<>>) = 0 /\ Len(p) \in Nat
           /\ Len(p) = 0 <=> p = <<>>
           /\ Len(p) = 1 => p = <<p[1]>>
<1>1. /\ <<>> \in Seq(S) /\ Len(<<>>) = 0 /\ Len(p) \in Nat
      /\ Len(p) = 0 <=> p = <<>>
  OBVIOUS
<1>2. ASSUME Len(p) = 1 PROVE p = <<p[1]>>
  <2>1. p[1] \in S
    BY <1>2
  <2> DEFINE x == p[1]
  <2>2. <<x>> \in Seq(S) /\ Len(<<x>>) = 1 /\ <<x>>[1] = x
    <3> HIDE DEF x
    <3> QED
      BY <2>1 DEF x
  <2>3. \A i \in 1..Len(p) : p[i] = <<x>>[i]
    BY <1>2, <2>2
  <2> HIDE DEF x
  <2>4. p = <<x>>
    BY <1>2, <2>2, <2>3, SeqEqual
  <2> QED
    BY <2>4 DEF x
<1> QED
  BY <1>1, <1>2

LEMMA EmptyPrefix ==
    ASSUME NEW S, NEW p \in Seq(S)
    PROVE  <<>> \in Prefixes(p) /\ Prefixes(<<>>) = {<<>>}
<1> DEFINE nil == <<>>
<1>0. nil \in Seq(S) /\ Len(nil) = 0 /\ Len(p) \in Nat
  BY ShortSequences
<1> HIDE DEF nil
<1>1. nil \in Prefixes(p)
  <2>1. Len(nil) <= Len(p) /\ \A i \in 1..Len(nil) : nil[i] = p[i]
    BY <1>0
  <2> QED
    BY <1>0, <2>1, PrefixIs
<1>2. nil \in Prefixes(nil)
  BY <1>0, PrefixSelf
<1>3. ASSUME NEW r \in Prefixes(nil) PROVE r = nil
  <2>1. r \in Seq(S) /\ Len(r) <= 0
    BY <1>0, PrefixIs
  <2> QED
    BY <2>1, ShortSequences DEF nil
<1> QED
  BY <1>1, <1>2, <1>3 DEF nil

LEMMA FrontIs ==
    ASSUME NEW S, NEW p \in Seq(S), p # <<>>
    PROVE  /\ Front(p) \in Seq(S) /\ Len(Front(p)) = Len(p) - 1 /\ Len(p) \in Nat \ {0}
           /\ \A i \in 1..Len(p) - 1 : Front(p)[i] = p[i]
<1>1. Len(p) \in Nat \ {0} /\ Len(p) - 1 \in 0..Len(p)
  OBVIOUS
<1> DEFINE n == Len(p) - 1
<1>2. n \in 0..Len(p)
  BY <1>1
<1> HIDE DEF n
<1>3. SubSeq(p, 1, n) \in Seq(S) /\ Len(SubSeq(p, 1, n)) = n
      /\ \A i \in 1..n : SubSeq(p, 1, n)[i] = p[i]
  BY <1>2
<1> QED
  BY <1>1, <1>3 DEF Front, n

LEMMA TailIs ==
    ASSUME NEW S, NEW p \in Seq(S), p # <<>>
    PROVE  /\ Tail(p) \in Seq(S) /\ Len(Tail(p)) = Len(p) - 1 /\ Len(p) \in Nat \ {0}
           /\ \A i \in 1..Len(p) - 1 : Tail(p)[i] = p[i + 1]
OBVIOUS

LEMMA TailOfOne ==
    ASSUME NEW x
    PROVE  Tail(<<x>>) = <<>>
<1>1. <<x>> \in Seq({x}) /\ <<x>> # <<>> /\ Len(<<x>>) = 1
  OBVIOUS
<1>2. Tail(<<x>>) \in Seq({x}) /\ Len(Tail(<<x>>)) = 0
  BY <1>1, TailIs
<1> QED
  BY <1>2, ShortSequences

LEMMA FrontOfTail ==
    ASSUME NEW S, NEW p \in Seq(S), Len(p) > 1
    PROVE  Front(Tail(p)) = Tail(Front(p))
<1> DEFINE f == Front(p)
           t == Tail(p)
<1>1. /\ f \in Seq(S) /\ Len(f) = Len(p) - 1 /\ Len(p) \in Nat
      /\ \A i \in 1..Len(p) - 1 : f[i] = p[i]
  BY FrontIs
<1>2. /\ t \in Seq(S) /\ Len(t) = Len(p) - 1
      /\ \A i \in 1..Len(p) - 1 : t[i] = p[i + 1]
  BY TailIs
<1>3. f # <<>> /\ t # <<>>
  <2>1. Len(f) # 0 /\ Len(t) # 0
    BY <1>1, <1>2
  <2> HIDE DEF f, t
  <2> QED
    BY <2>1
<1> HIDE DEF f, t
<1>4. /\ Front(t) \in Seq(S) /\ Len(Front(t)) = Len(p) - 2
      /\ \A i \in 1..Len(p) - 2 : Front(t)[i] = t[i]
  <2>1. /\ Front(t) \in Seq(S) /\ Len(Front(t)) = Len(t) - 1
        /\ \A i \in 1..Len(t) - 1 : Front(t)[i] = t[i]
    BY <1>2, <1>3, FrontIs
  <2> QED
    BY <1>1, <1>2, <2>1
<1>5. /\ Tail(f) \in Seq(S) /\ Len(Tail(f)) = Len(p) - 2
      /\ \A i \in 1..Len(p) - 2 : Tail(f)[i] = f[i + 1]
  <2>1. /\ Tail(f) \in Seq(S) /\ Len(Tail(f)) = Len(f) - 1
        /\ \A i \in 1..Len(f) - 1 : Tail(f)[i] = f[i + 1]
    BY <1>1, <1>3, TailIs
  <2> QED
    BY <1>1, <2>1
<1>6. \A i \in 1..Len(p) - 2 : Front(t)[i] = Tail(f)[i]
  <2>1. ASSUME NEW i \in 1..Len(p) - 2 PROVE Front(t)[i] = Tail(f)[i]
    <3>1. i \in 1..Len(p) - 1 /\ i + 1 \in 1..Len(p) - 1
      BY <1>1
    <3> QED
      BY <1>1, <1>2, <1>4, <1>5, <3>1
  <2> QED
    BY <2>1
<1>7. Front(t) = Tail(f)
  BY <1>4, <1>5, <1>6, SeqEqual
<1> QED
  BY <1>7 DEF f, t

(* The name of a path's directory: an absolute path loses its slash. *)
LEMMA NameOfFront ==
    ASSUME NEW S, NEW p \in Seq(S), p # <<>>, p # Top
    PROVE  LET dir == Front(DirName(p)) IN
           \/ dir = <<>>
           \/ Front(p) # <<>> /\ Front(p) # Top /\ dir = DirName(Front(p))
<1> DEFINE f == Front(p)
<1>1. /\ f \in Seq(S) /\ Len(f) = Len(p) - 1 /\ Len(p) \in Nat \ {0}
      /\ \A i \in 1..Len(p) - 1 : f[i] = p[i]
  BY FrontIs
<1> HIDE DEF f
<1>2. CASE Len(p) = 1
  <2>1. p = <<p[1]>>
    BY <1>2, ShortSequences
  <2>2. p[1] # ""
    BY <2>1 DEF Top
  <2>3. Len(f) = 0
    BY <1>1, <1>2
  <2>4. f = <<>>
    BY <1>1, <2>3, ShortSequences
  <2> QED
    BY <2>2, <2>4 DEF DirName, f
<1>3. CASE Len(p) # 1
  <2>1. Len(p) > 1 /\ Len(f) # 0 /\ f[1] = p[1]
    BY <1>1, <1>3
  <2>2. f # <<>>
    BY <1>1, <2>1, ShortSequences
  <2>3. CASE p[1] # ""
    <3>1. f # Top
      <4>1. Top[1] = ""
        BY DEF Top
      <4> QED
        BY <2>1, <2>3, <4>1
    <3>2. DirName(p) = p /\ DirName(f) = f
      BY <2>1, <2>3 DEF DirName
    <3> QED
      BY <2>2, <3>1, <3>2 DEF f
  <2>4. CASE p[1] = ""
    <3>1. DirName(p) = Tail(p) /\ DirName(f) = Tail(f)
      BY <2>1, <2>4 DEF DirName
    <3>2. Front(Tail(p)) = Tail(f)
      BY <2>1, FrontOfTail DEF f
    <3>3. f = Top => Tail(f) = <<>>
      <4>1. Tail(Top) = <<>>
        BY TailOfOne DEF Top
      <4> QED
        BY <4>1
    <3> QED
      BY <2>2, <3>1, <3>2, <3>3 DEF f
  <2> QED
    BY <2>3, <2>4
<1> QED
  BY <1>2, <1>3

(* A member's name loses no second slash. *)
LEMMA NameOnce ==
    ASSUME NEW S, NEW p \in Seq(S), p # <<>>, p # Top,
           OneSlash(p)
    PROVE  DirName(DirName(p)) = DirName(p)
<1>1. CASE p[1] # ""
  BY <1>1 DEF DirName
<1>2. CASE p[1] = ""
  <2>1. Len(p) > 1
    <3>1. Len(p) \in Nat /\ Len(p) # 0 /\ (Len(p) = 1 => p = <<p[1]>>)
      BY ShortSequences
    <3>2. p # <<p[1]>>
      BY <1>2 DEF Top
    <3>3. Len(p) # 1
      BY <3>1, <3>2
    <3>4. Len(p) \in Nat /\ Len(p) # 0
      BY <3>1
    <3>5. \A n \in Nat : n # 0 /\ n # 1 => n > 1
      OBVIOUS
    <3> QED
      BY <3>3, <3>4, <3>5
  <2>2. Tail(p)[1] = p[2]
    <3>1. \A i \in 1..Len(p) - 1 : Tail(p)[i] = p[i + 1]
      BY TailIs
    <3>2. 1 \in 1..Len(p) - 1
      <4>1. Len(p) \in Nat
        OBVIOUS
      <4> QED
        BY <2>1, <4>1
    <3> QED
      BY <3>1, <3>2
  <2>3. p[2] # ""
    BY <1>2, <2>1 DEF OneSlash
  <2> QED
    BY <1>2, <2>2, <2>3 DEF DirName
<1> QED
  BY <1>1, <1>2
-----------------------------------------------------------------------------
(* Sequences that grow and shrink *)

LEMMA EmptyRange == Range(<<>>) = {} /\ \A T : <<>> \in Seq(T)
BY DEF Range

LEMMA WorkRange ==
    ASSUME NEW T, NEW w \in Seq(T), w # <<>>, NEW new \in Seq(T)
    PROVE  /\ Head(w) \in T /\ Range(w) = {Head(w)} \cup Range(Tail(w))
           /\ new \o Tail(w) \in Seq(T)
           /\ Range(new \o Tail(w)) = Range(new) \cup Range(Tail(w))
<1>1. /\ Head(w) \in T /\ Tail(w) \in Seq(T) /\ new \o Tail(w) \in Seq(T)
      /\ DOMAIN w = 1..Len(w) /\ Len(w) \in Nat \ {0} /\ w[1] = Head(w)
  OBVIOUS
<1>2. Range(new \o Tail(w)) = Range(new) \cup Range(Tail(w))
  <2> DEFINE u == Tail(w)
  <2>1. u \in Seq(T)
    BY <1>1
  <2> HIDE DEF u
  <2>2. Range(new \o u) = Range(new) \cup Range(u)
    BY <2>1, RangeConcatenation
  <2> QED
    BY <2>2 DEF u
<1>3. Len(Tail(w)) = Len(w) - 1 /\ \A i \in 1..Len(w) - 1 : Tail(w)[i] = w[i + 1]
  BY TailIs
<1>4. Range(Tail(w)) = {Tail(w)[i] : i \in 1..Len(Tail(w))} /\ Range(w) = {w[i] : i \in 1..Len(w)}
  BY <1>1, RangeEquality
<1>5. ASSUME NEW x \in Range(w) PROVE x = Head(w) \/ x \in Range(Tail(w))
  <2>1. PICK i \in 1..Len(w) : x = w[i]
    BY <1>4
  <2>2. CASE i = 1
    BY <1>1, <2>1, <2>2
  <2>3. CASE i # 1
    <3>1. i - 1 \in 1..Len(w) - 1 /\ (i - 1) + 1 = i
      BY <1>1, <2>3
    <3>2. Tail(w)[i - 1] = x /\ i - 1 \in 1..Len(Tail(w))
      BY <1>3, <2>1, <3>1
    <3> QED
      BY <1>4, <3>2
  <2> QED
    BY <2>2, <2>3
<1>6. ASSUME NEW x \in Range(Tail(w)) PROVE x \in Range(w)
  <2>1. PICK i \in 1..Len(w) - 1 : x = Tail(w)[i]
    BY <1>3, <1>4
  <2>2. i + 1 \in 1..Len(w) /\ w[i + 1] = x
    BY <1>1, <1>3, <2>1
  <2> QED
    BY <1>4, <2>2
<1>7. Head(w) \in Range(w)
  <2>1. 1 \in 1..Len(w)
    BY <1>1
  <2> QED
    BY <1>1, <1>4, <2>1
<1> QED
  BY <1>1, <1>2, <1>5, <1>6, <1>7

LEMMA AppendRange ==
    ASSUME NEW s, s \in Seq(Range(s)), NEW x
    PROVE  LET t == Append(s, x) IN
           /\ t \in Seq(Range(t)) /\ Range(t) = Range(s) \cup {x}
           /\ Len(t) = Len(s) + 1 /\ Len(s) \in Nat
           /\ DOMAIN s = 1..Len(s) /\ DOMAIN t = 1..Len(s) + 1
           /\ t[Len(s) + 1] = x /\ \A i \in 1..Len(s) : t[i] = s[i]
<1> DEFINE t == Append(s, x)
           T == Range(s) \cup {x}
<1>1. s \in Seq(T) /\ x \in T
  BY SeqMonotonic
<1> HIDE DEF T
<1>2. /\ t \in Seq(T) /\ Len(t) = Len(s) + 1 /\ Len(s) \in Nat
      /\ DOMAIN s = 1..Len(s) /\ DOMAIN t = 1..Len(s) + 1
      /\ t[Len(s) + 1] = x /\ \A i \in 1..Len(s) : t[i] = s[i]
  BY <1>1
<1> HIDE DEF t
<1>3. t \in Seq(Range(t))
  BY <1>2, SeqOfRange
<1>4. Range(t) = Range(s) \cup {x}
  <2>1. ASSUME NEW y \in Range(t) PROVE y \in Range(s) \cup {x}
    <3>1. PICK i \in 1..Len(s) + 1 : y = t[i]
      BY <1>2 DEF Range
    <3>2. i = Len(s) + 1 \/ i \in DOMAIN s
      BY <1>2
    <3> QED
      BY <1>2, <3>1, <3>2 DEF Range
  <2>2. ASSUME NEW y \in Range(s) PROVE y \in Range(t)
    <3>1. PICK i \in 1..Len(s) : y = s[i]
      BY <1>2 DEF Range
    <3>2. i \in DOMAIN t /\ t[i] = y
      BY <1>2, <3>1
    <3> QED
      BY <3>2 DEF Range
  <2>3. x \in Range(t)
    <3>1. Len(s) + 1 \in DOMAIN t
      BY <1>2
    <3> QED
      BY <1>2, <3>1 DEF Range
  <2> QED
    BY <2>1, <2>2, <2>3
<1> QED
  BY <1>2, <1>3, <1>4 DEF t
-----------------------------------------------------------------------------
(* The inductive invariant holds at first and is kept by every step. *)

LEMMA IdleInv ==
    work = <<>> /\ out = <<>> /\ pc \notin {"walk", "done"} =>
        WorkInv /\ MemberInv /\ PrintInv /\ ParentsFirst
<1> SUFFICES ASSUME work = <<>>, out = <<>>, pc \notin {"walk", "done"}
             PROVE  WorkInv /\ MemberInv /\ PrintInv /\ ParentsFirst
  OBVIOUS
<1>1. Range(work) = {} /\ Range(out) = {} /\ DOMAIN out = {}
      /\ work \in Seq(DOMAIN tree) /\ out \in Seq(Range(out))
  BY EmptyRange
<1> QED
  BY <1>1 DEF WorkInv, MemberInv, PrintInv, ParentsFirst

LEMMA EmptyList == IsList(<<>>) /\ Distinct(<<>>)
BY DEF IsList, Distinct

LEMMA InitInv == Init => Inv
<1> SUFFICES ASSUME Init PROVE Inv
  OBVIOUS
<1>1. ListInv
  <2>1. IsList(config)
    BY TreeAssumption DEF Init
  <2> QED
    BY <2>1, EmptyList DEF Init, ListInv
<1>2. TreeInv
  BY NoTreeIsTree DEF Init, TreeInv
<1>3. WorkInv /\ MemberInv /\ PrintInv /\ ParentsFirst
  BY IdleInv DEF Init
<1> QED
  BY <1>1, <1>2, <1>3 DEF Inv

LEMMA LoadInv == Inv /\ Load => Inv'
<1> SUFFICES ASSUME Inv, Load PROVE Inv'
  OBVIOUS
<1>1. /\ pc = "load" /\ pc' = "render" /\ cfg' = FoldLeft(PutEntry, EmptyMap, config).A
      /\ UNCHANGED <<config, run, placed, tree, work, out, archive>>
  BY DEF Load
<1>2. IsList(config) /\ run \in 1..3 /\ placed = 0 /\ IsTree(cfg, 0, tree) /\ work = <<>> /\ out = <<>>
  BY <1>1 DEF Inv, ListInv, TreeInv
<1>3. IsList(cfg') /\ Distinct(cfg')
  BY <1>1, <1>2, LoadedList
<1>4. ListInv'
  <2>1. Len(cfg') \in Nat
    BY <1>3 DEF IsList
  <2> QED
    BY <1>1, <1>2, <1>3, <2>1 DEF ListInv
<1>5. TreeInv'
  <2>1. IsTree(cfg', 0, tree)
    BY <1>2 DEF IsTree
  <2> QED
    BY <1>1, <1>2, <2>1 DEF TreeInv
<1>6. (work = <<>> /\ out = <<>> /\ pc \notin {"walk", "done"})'
  BY <1>1, <1>2
<1>7. (WorkInv /\ MemberInv /\ PrintInv /\ ParentsFirst)'
  BY <1>6, IdleInv, PTL
<1> QED
  BY <1>4, <1>5, <1>7 DEF Inv

LEMMA RenderEntryInv == Inv /\ RenderEntry => Inv'
<1> SUFFICES ASSUME Inv, RenderEntry PROVE Inv'
  OBVIOUS
<1>1. /\ pc = "render" /\ placed < Len(cfg) /\ placed' = placed + 1
      /\ tree' = Place(tree, cfg[placed + 1])
      /\ UNCHANGED <<config, run, pc, cfg, work, out, archive>>
  BY DEF RenderEntry
<1>2. IsList(cfg) /\ placed \in Nat /\ Len(cfg) \in Nat /\ IsTree(cfg, placed, tree)
      /\ work = <<>> /\ out = <<>>
  BY <1>1 DEF Inv, ListInv, TreeInv, IsList
<1>3. placed + 1 \in 1..Len(cfg)
  BY <1>1, <1>2
<1>4. ListInv'
  BY <1>1, <1>3 DEF Inv, ListInv
<1>5. TreeInv'
  <2>1. IsTree(cfg, placed + 1, tree')
    BY <1>1, <1>2, <1>3, PlaceTree
  <2> QED
    BY <1>1, <1>2, <2>1 DEF TreeInv
<1>6. (work = <<>> /\ out = <<>> /\ pc \notin {"walk", "done"})'
  BY <1>1, <1>2
<1>7. (WorkInv /\ MemberInv /\ PrintInv /\ ParentsFirst)'
  BY <1>6, IdleInv, PTL
<1> QED
  BY <1>4, <1>5, <1>7 DEF Inv

(* What is below a node: paths of the tree with one name more. *)
LEMMA BelowPaths ==
    ASSUME NEW p \in Seq(Range(Names)), NEW c \in Range(Below(p))
    PROVE  /\ c \in DOMAIN tree /\ Front(c) = p
           /\ Prefixes(c) = Prefixes(p) \cup {c}
           /\ c \in Seq(Range(Names)) /\ c # <<>>
           /\ p # <<>> => c[1] = p[1]
           /\ p = <<>> => c = <<c[1]>>
<1>1. PICK x \in Range(Names) : c \in DOMAIN tree /\ c = Append(p, x)
  BY BelowIs
<1>2. /\ c \in Seq(Range(Names)) \ {<<>>} /\ Len(c) = Len(p) + 1 /\ Front(c) = p
      /\ Prefixes(c) = Prefixes(p) \cup {c}
  BY <1>1, AppendPath
<1>3. p # <<>> => c[1] = p[1]
  BY <1>1
<1>4. p = <<>> => c = <<c[1]>>
  <2>1. SUFFICES ASSUME p = <<>> PROVE c = <<c[1]>>
    OBVIOUS
  <2>2. Len(c) = 1
    BY <1>2, <2>1, ShortSequences
  <2> QED
    BY <1>2, <2>2, ShortSequences
<1> QED
  BY <1>1, <1>2, <1>3, <1>4

LEMMA RenderedInv == Inv /\ Rendered => Inv'
<1> SUFFICES ASSUME Inv, Rendered PROVE Inv'
  OBVIOUS
<1>1. /\ pc = "render" /\ placed = Len(cfg)
      /\ UNCHANGED <<run, config, cfg, placed, tree, out, archive>>
      /\ \/ pc' = "failed" /\ work' = work
         \/ pc' = "walk" /\ work' = Below(<<>>)
  BY DEF Rendered
<1>2. /\ IsList(cfg) /\ placed \in 0..Len(cfg) /\ IsTree(cfg, placed, tree)
      /\ work = <<>> /\ out = <<>>
  BY <1>1 DEF Inv, ListInv, TreeInv
<1>3. ListInv'
  BY <1>1 DEF Inv, ListInv
<1>4. TreeInv'
  BY <1>1, <1>2 DEF TreeInv
<1>5. CASE pc' = "failed" /\ work' = work
  <2>1. (work = <<>> /\ out = <<>> /\ pc \notin {"walk", "done"})'
    BY <1>1, <1>2, <1>5
  <2>2. (WorkInv /\ MemberInv /\ PrintInv /\ ParentsFirst)'
    BY <2>1, IdleInv, PTL
  <2> QED
    BY <1>3, <1>4, <2>2 DEF Inv
<1>6. CASE pc' = "walk" /\ work' = Below(<<>>)
  <2> DEFINE S == Range(Names)
  <2>1. <<>> \in Seq(S) /\ Prefixes(<<>>) = {<<>>}
    <3>1. <<>> \in Seq(S)
      BY EmptyRange
    <3> QED
      BY <3>1, EmptyPrefix
  <2>2. out' = <<>> /\ Range(out') = {} /\ DOMAIN out' = {} /\ out' \in Seq(Range(out'))
    BY <1>1, <1>2, EmptyRange
  <2>3. ASSUME NEW c \in Range(work')
        PROVE  /\ c \in DOMAIN tree /\ Front(c) = <<>> /\ Prefixes(c) = {<<>>, c}
               /\ c = <<c[1]>>
    BY <1>6, <2>1, <2>3, BelowPaths
  <2>4. WorkInv'
    <3>1. work' \in Seq(DOMAIN tree')
      BY <1>1, <1>6, <2>1, BelowIs
    <3>2. ASSUME NEW c \in Range(work') PROVE Reached(c)' /\ Front(c) = <<>>
      <4>1. Prefixes(c) \ {<<>>, c} = {}
        BY <2>3
      <4> QED
        BY <2>3, <4>1 DEF Reached
    <3> QED
      BY <2>2, <3>1, <3>2 DEF WorkInv
  <2>5. MemberInv'
    <3>1. ASSUME NEW p \in DOMAIN tree PROVE \E q \in Range(work') : q \in Prefixes(p)
      <4>1. p \in Seq(S) /\ p # <<>> /\ \A q \in Prefixes(p) \ {<<>>} : q \in DOMAIN tree
        BY <1>2, NodeIs DEF Paths
      <4>2. PICK x \in S : Append(<<>>, x) \in Prefixes(p)
        BY <2>1, <4>1, EmptyPrefix, NextOnWay
      <4>3. Append(<<>>, x) # <<>>
        OBVIOUS
      <4>4. Append(<<>>, x) \in DOMAIN tree
        BY <4>1, <4>2, <4>3
      <4>5. Append(<<>>, x) \in Range(work')
        BY <1>6, <2>1, <4>4, BelowIs
      <4> QED
        BY <4>2, <4>5
    <3> QED
      BY <1>1, <2>2, <3>1 DEF MemberInv
  <2>6. PrintInv'
    <3>1. ASSUME NEW c \in Range(work') PROVE Relative(c) \/ c = Top
      BY <2>3, <3>1 DEF Top, Relative
    <3> QED
      BY <2>2, <3>1 DEF PrintInv
  <2>7. ParentsFirst'
    BY <2>2 DEF ParentsFirst
  <2> QED
    BY <1>3, <1>4, <2>4, <2>5, <2>6, <2>7 DEF Inv
<1> QED
  BY <1>1, <1>5, <1>6

LEMMA WriteFailsInv == Inv /\ WriteFails => Inv'
<1> SUFFICES ASSUME Inv, WriteFails PROVE Inv'
  OBVIOUS
<1> USE DEF WriteFails
<1>1. ListInv' /\ TreeInv'
  BY DEF Inv, ListInv, TreeInv
<1>2. WorkInv' /\ MemberInv' /\ PrintInv' /\ ParentsFirst'
  BY DEF Inv, WorkInv, MemberInv, PrintInv, ParentsFirst, Writing, Reached, HasMember, IsDir
<1> QED
  BY <1>1, <1>2 DEF Inv

LEMMA FinishInv == Inv /\ Finish => Inv'
<1> SUFFICES ASSUME Inv, Finish PROVE Inv'
  OBVIOUS
<1> USE DEF Finish
<1>1. ListInv' /\ TreeInv'
  BY DEF Inv, ListInv, TreeInv
<1>2. WorkInv' /\ MemberInv' /\ PrintInv' /\ ParentsFirst'
  BY DEF Inv, WorkInv, MemberInv, PrintInv, ParentsFirst, Writing, Reached, HasMember, IsDir
<1> QED
  BY <1>1, <1>2 DEF Inv

LEMMA StutterInv == Inv /\ UNCHANGED vars => Inv'
<1> SUFFICES ASSUME Inv, UNCHANGED vars PROVE Inv'
  OBVIOUS
<1> USE DEF vars
<1>1. ListInv' /\ TreeInv'
  BY DEF Inv, ListInv, TreeInv
<1>2. WorkInv' /\ MemberInv' /\ PrintInv' /\ ParentsFirst'
  BY DEF Inv, WorkInv, MemberInv, PrintInv, ParentsFirst, Writing, Reached, HasMember, IsDir
<1> QED
  BY <1>1, <1>2 DEF Inv

(* A node of the walk: what is known of it, and what the work becomes. *)
LEMMA NextNode ==
    ASSUME NEW P, P = Head(work), NEW new, new = IF IsDir(P) THEN Below(P) ELSE <<>>,
           ListInv, TreeInv, WorkInv, work # <<>>
    PROVE  /\ P \in DOMAIN tree /\ P \in Range(work) /\ P \in Seq(Range(Names)) /\ P # <<>>
           /\ OneSlash(P) /\ IsEntry(tree[P])
           /\ ~IsDir(P) => P # Top /\ tree[P].dst = P
           /\ new \o Tail(work) \in Seq(DOMAIN tree)
           /\ Range(new \o Tail(work)) = Range(new) \cup Range(Tail(work))
           /\ Range(work) = {P} \cup Range(Tail(work))
           /\ ~IsDir(P) => Range(new) = {}
<1>1. IsList(cfg) /\ placed \in 0..Len(cfg) /\ IsTree(cfg, placed, tree) /\ work \in Seq(DOMAIN tree)
  BY DEF ListInv, TreeInv, WorkInv
<1>2. Head(work) \in DOMAIN tree
  BY <1>1
<1>3. P \in Paths /\ P \in Seq(Range(Names)) /\ OneSlash(P) /\ IsEntry(tree[P])
      /\ (tree[P].type # "d" => tree[P].dst = P) /\ (P = Top => tree[P].type = "d")
  BY <1>1, <1>2, NodeIs
<1>4. new \in Seq(DOMAIN tree)
  BY <1>3, BelowIs, EmptyRange
<1>5. ~IsDir(P) => Range(new) = {}
  BY EmptyRange
<1>6. /\ new \o Tail(work) \in Seq(DOMAIN tree)
      /\ Range(new \o Tail(work)) = Range(new) \cup Range(Tail(work))
      /\ Range(work) = {Head(work)} \cup Range(Tail(work))
  BY <1>1, <1>4, WorkRange
<1> QED
  BY <1>2, <1>3, <1>5, <1>6 DEF Paths, IsDir

(* The directory of a node's member has been written. *)
LEMMA ParentOfNode ==
    ASSUME NEW P \in Range(work), P \in Seq(Range(Names)), P # <<>>, P # Top, OneSlash(P),
           ~IsDir(P) => tree[P].dst = P,
           WorkInv, Writing
    PROVE  LET dir == Front(DirName(Member(P, tree[P]).name)) IN
           dir # <<>> => \E r \in Range(out) : r.kind = "d" /\ r.name = dir
<1> DEFINE f == Front(P)
           dir == Front(DirName(P))
<1>1. DirName(Member(P, tree[P]).name) = DirName(P)
  <2>1. Member(P, tree[P]).name = IF tree[P].type = "d" THEN DirName(P) ELSE tree[P].dst
    BY DEF Member
  <2>2. DirName(DirName(P)) = DirName(P)
    BY NameOnce
  <2> QED
    BY <2>1, <2>2 DEF IsDir
<1>2. SUFFICES ASSUME dir # <<>>
               PROVE  \E r \in Range(out) : r.kind = "d" /\ r.name = dir
  BY <1>1
<1>3. f # <<>> /\ f # Top /\ dir = DirName(f)
  BY <1>2, NameOfFront
<1>4. f \in DOMAIN tree /\ IsDir(f) /\ HasMember(f)
  BY <1>3 DEF WorkInv
<1>5. Member(f, tree[f]).kind = "d" /\ Member(f, tree[f]).name = DirName(f)
  BY <1>4 DEF Member, IsDir
<1> QED
  BY <1>3, <1>4, <1>5 DEF HasMember

LEMMA WriteNodeInv == Inv /\ WriteNode => Inv'
<1> SUFFICES ASSUME Inv, WriteNode PROVE Inv'
  OBVIOUS
<1>1. PICK P : P = Head(work)
  OBVIOUS
<1>2. PICK new : new = IF IsDir(P) THEN Below(P) ELSE <<>>
  OBVIOUS
<1>3. PICK M : M = Member(P, tree[P])
  OBVIOUS
<1>4. /\ pc = "walk" /\ run # 2 /\ work # <<>>
      /\ out' = IF IsDir(P) /\ P = Top THEN out ELSE Append(out, M)
      /\ work' = new \o Tail(work)
      /\ UNCHANGED <<config, run, pc, cfg, placed, tree, archive>>
  BY <1>1, <1>2, <1>3 DEF WriteNode
<1>5. ListInv /\ TreeInv /\ WorkInv /\ MemberInv /\ ParentsFirst /\ Writing
  BY <1>4 DEF Inv, Writing
<1>6. /\ P \in DOMAIN tree /\ P \in Range(work) /\ P \in Seq(Range(Names)) /\ P # <<>>
      /\ OneSlash(P)
      /\ ~IsDir(P) => P # Top /\ tree[P].dst = P
      /\ work' \in Seq(DOMAIN tree)
      /\ Range(work') = Range(new) \cup Range(Tail(work))
      /\ Range(work) = {P} \cup Range(Tail(work))
      /\ ~IsDir(P) => Range(new) = {}
  BY <1>1, <1>2, <1>4, <1>5, NextNode
<1>7. out \in Seq(Range(out))
  BY <1>5 DEF WorkInv
<1>8. /\ out' \in Seq(Range(out')) /\ Range(out) \subseteq Range(out')
      /\ Range(out') \subseteq Range(out) \cup {M} /\ (P # Top => M \in Range(out'))
  <2>1. CASE IsDir(P) /\ P = Top
    BY <1>4, <1>7, <2>1
  <2>2. CASE ~(IsDir(P) /\ P = Top)
    <3>1. out' = Append(out, M)
      BY <1>4, <2>2
    <3> QED
      BY <1>7, <3>1, AppendRange
  <2> QED
    BY <2>1, <2>2
<1>9. ASSUME NEW c \in Range(new)
      PROVE  /\ IsDir(P) /\ c \in DOMAIN tree /\ Front(c) = P
             /\ Prefixes(c) = Prefixes(P) \cup {c}
  BY <1>2, <1>6, <1>9, BelowPaths
<1>10. ASSUME NEW p PROVE /\ Reached(p)' <=> Reached(p)
                          /\ IsDir(p)' <=> IsDir(p)
                          /\ HasMember(p) => HasMember(p)'
                          /\ p = P /\ P # Top => HasMember(p)'
  BY <1>3, <1>4, <1>8 DEF Reached, IsDir, HasMember
<1>11. ListInv' /\ TreeInv'
  BY <1>4, <1>5 DEF ListInv, TreeInv
<1>12. WorkInv'
  <2>1. work' \in Seq(DOMAIN tree') /\ Writing'
    BY <1>4, <1>5, <1>6 DEF Writing
  <2>2. ASSUME NEW p \in Range(Tail(work))
        PROVE  /\ Reached(p)'
               /\ \/ Front(p) \in {<<>>, Top}
                  \/ Front(p) \in DOMAIN tree' /\ IsDir(Front(p))' /\ HasMember(Front(p))'
    <3>1. p \in Range(work)
      BY <1>6, <2>2
    <3>2. /\ Reached(p)
          /\ \/ Front(p) \in {<<>>, Top}
             \/ Front(p) \in DOMAIN tree /\ IsDir(Front(p)) /\ HasMember(Front(p))
      BY <1>5, <3>1 DEF WorkInv
    <3>3. Reached(p)'
      BY <1>10, <3>2
    <3>4. CASE Front(p) \in {<<>>, Top}
      BY <3>3, <3>4
    <3>5. CASE Front(p) \in DOMAIN tree /\ IsDir(Front(p)) /\ HasMember(Front(p))
      <4>1. IsDir(Front(p))' /\ HasMember(Front(p))'
        BY <1>10, <3>5
      <4> QED
        BY <1>4, <3>3, <3>5, <4>1
    <3> QED
      BY <3>2, <3>4, <3>5
  <2>3. ASSUME NEW p \in Range(new)
        PROVE  /\ Reached(p)'
               /\ \/ Front(p) \in {<<>>, Top}
                  \/ Front(p) \in DOMAIN tree' /\ IsDir(Front(p))' /\ HasMember(Front(p))'
    <3>1. IsDir(P) /\ Front(p) = P /\ Prefixes(p) = Prefixes(P) \cup {p}
      BY <1>9
    <3>2. Reached(P)
      BY <1>5, <1>6 DEF WorkInv
    <3>3. Reached(p)
      <4>1. ASSUME NEW q \in Prefixes(p) \ {<<>>, p} PROVE IsDir(q)
        <5>1. q = P \/ q \in Prefixes(P) \ {<<>>, P}
          BY <3>1
        <5> QED
          BY <3>1, <3>2, <5>1 DEF Reached
      <4> QED
        BY <4>1 DEF Reached
    <3>4. Reached(p)'
      BY <1>10, <3>3
    <3>5. P # Top => HasMember(P)' /\ IsDir(P)'
      BY <1>10, <3>1
    <3> QED
      BY <1>4, <1>6, <3>1, <3>4, <3>5
  <2> QED
    BY <1>6, <1>8, <2>1, <2>2, <2>3 DEF WorkInv
<1>13. MemberInv'
  <2>1. ASSUME NEW r \in Range(out')
        PROVE  \E p \in DOMAIN tree' : Reached(p)' /\ r = Member(p, tree'[p])
    <3>1. CASE r \in Range(out)
      <4>1. PICK p \in DOMAIN tree : Reached(p) /\ r = Member(p, tree[p])
        BY <1>5, <3>1 DEF MemberInv
      <4>2. Reached(p)'
        BY <1>10, <4>1
      <4> QED
        BY <1>4, <4>1, <4>2
    <3>2. CASE r = M
      <4>1. Reached(P)
        BY <1>5, <1>6 DEF WorkInv
      <4>2. Reached(P)'
        BY <1>10, <4>1
      <4> QED
        BY <1>3, <1>4, <1>6, <3>2, <4>2
    <3> QED
      BY <1>8, <3>1, <3>2
  <2>2. ASSUME NEW p \in DOMAIN tree, Reached(p)
        PROVE  \/ p = Top \/ HasMember(p)'
               \/ \E q \in Range(work') : q \in Prefixes(p)
    <3>1. \/ p = Top \/ HasMember(p)
          \/ \E q \in Range(work) : q \in Prefixes(p)
      BY <1>4, <1>5, <2>2 DEF MemberInv
    <3>2. CASE p = Top
      BY <3>2
    <3>3. CASE HasMember(p)
      BY <1>10, <3>3
    <3>4. CASE \E q \in Range(Tail(work)) : q \in Prefixes(p)
      BY <1>6, <3>4
    <3>5. CASE P \in Prefixes(p) /\ P = p
      BY <1>10, <3>5
    <3>6. CASE P \in Prefixes(p) /\ P # p
      <4>1. IsDir(P)
        BY <1>6, <2>2, <3>6 DEF Reached
      <4>2. p \in Seq(Range(Names)) /\ \A q \in Prefixes(p) \ {<<>>} : q \in DOMAIN tree
        <5>1. IsList(cfg) /\ placed \in 0..Len(cfg) /\ IsTree(cfg, placed, tree)
          BY <1>5 DEF ListInv, TreeInv
        <5> QED
          BY <2>2, <5>1, NodeIs
      <4>3. PICK x \in Range(Names) : Append(P, x) \in Prefixes(p)
        BY <3>6, <4>2, NextOnWay
      <4>4. Append(P, x) # <<>>
        BY <1>6, AppendPath
      <4>5. Append(P, x) \in DOMAIN tree
        BY <4>2, <4>3, <4>4
      <4>6. Append(P, x) \in Range(new)
        BY <1>2, <1>6, <4>1, <4>5, BelowIs
      <4> QED
        BY <1>6, <4>3, <4>6
    <3> QED
      BY <1>6, <3>1, <3>2, <3>3, <3>4, <3>5, <3>6
  <2>3. ASSUME NEW p \in DOMAIN tree', Reached(p)'
        PROVE  \/ p = Top \/ HasMember(p)'
               \/ \E q \in Range(work') : q \in Prefixes(p)
    <3>1. p \in DOMAIN tree /\ Reached(p)
      BY <1>4, <1>10, <2>3
    <3> QED
      BY <2>2, <3>1
  <2> QED
    BY <2>1, <2>3 DEF MemberInv
<1>14. PrintInv'
  BY <1>4 DEF PrintInv
<1>15. ParentsFirst'
  <2>1. CASE IsDir(P) /\ P = Top
    BY <1>4, <1>5, <2>1 DEF ParentsFirst, Writing
  <2>2. CASE ~(IsDir(P) /\ P = Top)
    <3>1. P # Top /\ out' = Append(out, M)
      BY <1>4, <1>6, <2>2
    <3>2. /\ Len(out) \in Nat /\ DOMAIN out = 1..Len(out) /\ DOMAIN out' = 1..Len(out) + 1
          /\ out'[Len(out) + 1] = M /\ \A i \in 1..Len(out) : out'[i] = out[i]
      BY <1>7, <3>1, AppendRange
    <3>3. LET dir == Front(DirName(M.name)) IN
          dir # <<>> => \E r \in Range(out) : r.kind = "d" /\ r.name = dir
      BY <1>3, <1>5, <1>6, <3>1, ParentOfNode
    <3>4. ASSUME NEW i \in DOMAIN out', NEW dir, dir = Front(DirName(out'[i].name)), dir # <<>>
          PROVE  \E j \in 1..i-1 : out'[j].kind = "d" /\ out'[j].name = dir
      <4>1. CASE i \in 1..Len(out)
        <5>1. PICK j \in 1..i-1 : out[j].kind = "d" /\ out[j].name = dir
          BY <1>5, <3>2, <3>4, <4>1 DEF ParentsFirst
        <5>2. j \in 1..Len(out)
          BY <3>2, <4>1
        <5> QED
          BY <3>2, <5>1, <5>2
      <4>2. CASE i = Len(out) + 1
        <5>1. \E r \in Range(out) : r.kind = "d" /\ r.name = dir
          BY <3>2, <3>3, <3>4, <4>2
        <5>2. PICK j \in 1..Len(out) : out[j].kind = "d" /\ out[j].name = dir
          BY <3>2, <5>1 DEF Range
        <5>3. j \in 1..i-1
          BY <3>2, <4>2
        <5> QED
          BY <3>2, <5>2, <5>3
      <4> QED
        BY <3>2, <4>1, <4>2
    <3> QED
      BY <3>4 DEF ParentsFirst
  <2> QED
    BY <2>1, <2>2
<1> QED
  BY <1>11, <1>12, <1>13, <1>14, <1>15 DEF Inv

LEMMA PrintNodeInv == Inv /\ PrintNode => Inv'
<1> SUFFICES ASSUME Inv, PrintNode PROVE Inv'
  OBVIOUS
<1>1. PICK P : P = Head(work)
  OBVIOUS
<1>2. PICK new : new = IF IsDir(P) THEN Below(P) ELSE <<>>
  OBVIOUS
<1>3. PICK l : l = Line(P, tree[P])
  OBVIOUS
<1>4. /\ pc = "walk" /\ run = 2 /\ work # <<>>
      /\ UNCHANGED <<config, run, cfg, placed, tree, archive>>
      /\ IF IsDir(P) /\ P = Top THEN pc' = "panicked" /\ UNCHANGED <<work, out>>
         ELSE out' = Append(out, l) /\ work' = new \o Tail(work) /\ pc' = pc
  BY <1>1, <1>2, <1>3 DEF PrintNode
<1>5. ListInv /\ TreeInv /\ WorkInv /\ PrintInv
  BY DEF Inv
<1>6. ListInv' /\ TreeInv'
  BY <1>4, <1>5 DEF ListInv, TreeInv
<1>7. (MemberInv /\ ParentsFirst)'
  BY <1>4 DEF MemberInv, ParentsFirst, Writing
<1>8. WorkInv' /\ PrintInv'
  <2>1. CASE IsDir(P) /\ P = Top
    BY <1>4, <1>5, <2>1 DEF WorkInv, PrintInv, Writing
  <2>2. CASE ~(IsDir(P) /\ P = Top)
    <3>1. out' = Append(out, l) /\ work' = new \o Tail(work)
      BY <1>4, <2>2
    <3>2. /\ P \in DOMAIN tree /\ P \in Range(work) /\ P \in Seq(Range(Names)) /\ P # <<>>
          /\ ~IsDir(P) => P # Top
          /\ work' \in Seq(DOMAIN tree)
          /\ Range(work') = Range(new) \cup Range(Tail(work))
          /\ Range(work) = {P} \cup Range(Tail(work))
          /\ ~IsDir(P) => Range(new) = {}
      BY <1>1, <1>2, <1>4, <1>5, <3>1, NextNode
    <3>3. Relative(P)
      BY <1>4, <1>5, <2>2, <3>2 DEF PrintInv
    <3>4. out' \in Seq(Range(out')) /\ Range(out') = Range(out) \cup {l}
      BY <1>5, <3>1, AppendRange DEF WorkInv
    <3>5. ASSUME NEW p \in Range(work') PROVE Relative(p) \/ p = Top
      <4>1. CASE p \in Range(new)
        <5>1. p[1] = P[1]
          BY <1>2, <3>2, <4>1, BelowPaths
        <5> QED
          BY <3>3, <5>1 DEF Relative
      <4>2. CASE p \in Range(work)
        BY <1>4, <1>5, <4>2 DEF PrintInv
      <4> QED
        BY <3>2, <3>5, <4>1, <4>2
    <3>6. ASSUME NEW r \in Range(out')
          PROVE  \E p \in DOMAIN tree : Relative(p) /\ r = Line(p, tree[p])
      <4>1. CASE r \in Range(out)
        BY <1>4, <1>5, <4>1 DEF PrintInv
      <4>2. CASE r = l
        BY <1>3, <3>2, <3>3, <4>2
      <4> QED
        BY <3>4, <4>1, <4>2
    <3>7. WorkInv'
      BY <1>4, <3>2, <3>4 DEF WorkInv, Writing
    <3>8. PrintInv'
      BY <1>4, <3>5, <3>6 DEF PrintInv
    <3> QED
      BY <3>7, <3>8
  <2> QED
    BY <2>1, <2>2
<1> QED
  BY <1>6, <1>7, <1>8 DEF Inv

(* A path that is no absolute one keeps its first name when it is cleaned. *)
LEMMA CleanPath ==
    ASSUME NEW p \in Paths, Relative(p)
    PROVE  Clean(p) \in Paths
<1> DEFINE S == Range(Names)
           One(i) == IF p[i] = "" THEN <<>> ELSE <<p[i]>>
           ss == [i \in DOMAIN p |-> One(i)]
<1>1. p \in Seq(S) /\ DOMAIN p = 1..Len(p) /\ Len(p) \in Nat \ {0} /\ 1 \in 1..Len(p)
  <2>1. p \in Seq(S) /\ p # <<>>
    BY DEF Paths
  <2> HIDE DEF S
  <2> QED
    BY <2>1
<1>2. ASSUME NEW i \in DOMAIN p PROVE One(i) \in Seq(S)
  <2>1. p[i] \in S
    BY <1>1
  <2>2. <<p[i]>> \in Seq(S)
    <3> HIDE DEF S
    <3> QED
      BY <2>1
  <2>3. <<>> \in Seq(S)
    OBVIOUS
  <2>4. One(i) = <<>> \/ One(i) = <<p[i]>>
    OBVIOUS
  <2> HIDE DEF S, One
  <2> QED
    BY <2>2, <2>3, <2>4
<1>3. ss \in Seq(Seq(S)) /\ Len(ss) = Len(p)
  <2>1. ss \in [1..Len(p) -> Seq(S)]
    <3> HIDE DEF S, One
    <3> QED
      BY <1>1, <1>2
  <2> HIDE DEF S, ss
  <2> QED
    BY <1>1, <2>1
<1>4. Clean(p) = FlattenSeq(ss)
  BY DEF Clean
<1>5. FlattenSeq(ss) \in Seq(S)
  <2> HIDE DEF ss, S
  <2> QED
    BY <1>3, FlattenTyped
<1>6. p[1] \in Range(ss[1])
  <2>1. ss[1] = <<p[1]>>
    BY <1>1 DEF Relative
  <2>2. \A x : 1 \in DOMAIN <<x>> /\ <<x>>[1] = x
    OBVIOUS
  <2> HIDE DEF ss
  <2> QED
    BY <2>1, <2>2 DEF Range
<1>7. p[1] \in Range(FlattenSeq(ss))
  <2> HIDE DEF ss, S
  <2> QED
    BY <1>1, <1>3, <1>6, FlattenHas
<1>8. FlattenSeq(ss) # <<>>
  BY <1>7, EmptyRange
<1> QED
  BY <1>4, <1>5, <1>8 DEF Paths

(* What is printed is a list when it is read. *)
LEMMA PrintedList ==
    ASSUME ListInv, TreeInv, WorkInv, PrintInv, run = 2
    PROVE  IsList([i \in DOMAIN out |-> Read(out[i])])
<1> DEFINE list == [i \in DOMAIN out |-> Read(out[i])]
<1>1. IsList(cfg) /\ placed \in 0..Len(cfg) /\ IsTree(cfg, placed, tree) /\ out \in Seq(Range(out))
  BY DEF ListInv, TreeInv, WorkInv
<1>2. ASSUME NEW i \in DOMAIN out PROVE IsEntry(Read(out[i]))
  <2>1. PICK p \in DOMAIN tree : Relative(p) /\ out[i] = Line(p, tree[p])
    BY DEF PrintInv, Range
  <2>2. p \in Paths /\ IsEntry(tree[p]) /\ (tree[p].type # "d" => tree[p].dst = p)
    BY <1>1, NodeIs
  <2>3. /\ out[i].dst = IF tree[p].type = "d" THEN p ELSE tree[p].dst
        /\ out[i].type = IF B64 /\ tree[p].type = "c" THEN "b64" ELSE tree[p].type
    <3>1. PICK ty : ty = IF B64 /\ tree[p].type = "c" THEN "b64" ELSE tree[p].type
      OBVIOUS
    <3>2. PICK ds : ds = IF tree[p].type = "d" THEN p ELSE tree[p].dst
      OBVIOUS
    <3>3. PICK sr : sr = IF tree[p].type = "d" THEN "" ELSE tree[p].src
      OBVIOUS
    <3>4. out[i] = [type |-> ty, dst |-> ds, src |-> sr, mode |-> tree[p].mode, own |-> tree[p].own]
      BY <2>1, <3>1, <3>2, <3>3, Zenon DEF Line
    <3>5. out[i].dst = ds /\ out[i].type = ty
      BY <3>4
    <3> QED
      BY <3>1, <3>2, <3>5, Zenon
  <2>5. out[i].dst = p
    BY <2>2, <2>3
  <2>6. tree[p].type \in {"f", "d", "l", "c", "b64"}
    BY <2>2 DEF IsEntry
  <2>7. out[i].type \in {"f", "d", "l", "c", "b64"}
    BY <2>3, <2>6, Zenon
  <2>4. Clean(p) \in Paths
    BY <2>1, <2>2, CleanPath
  <2> QED
    BY <2>4, <2>5, <2>7 DEF IsEntry, Read
<1>3. DOMAIN list = 1..Len(out) /\ Len(out) \in Nat
  BY <1>1
<1>4. list \in Seq(Range(list))
  <2>1. list \in [1..Len(out) -> Range(list)]
    <3>1. \A i \in DOMAIN list : list[i] \in Range(list)
      BY DEF Range
    <3>2. list = [i \in DOMAIN list |-> list[i]]
      OBVIOUS
    <3> HIDE DEF list
    <3> QED
      BY <1>3, <3>1, <3>2
  <2> HIDE DEF list
  <2> QED
    BY <1>3, <2>1
<1>5. \A i \in DOMAIN list : IsEntry(list[i])
  BY <1>2
<1> HIDE DEF list
<1> QED
  BY <1>4, <1>5 DEF IsList, list

LEMMA RunAgainInv == Inv /\ RunAgain => Inv'
<1> SUFFICES ASSUME Inv, RunAgain PROVE Inv'
  OBVIOUS
<1>1. /\ pc = "done" /\ run < 3 /\ run' = run + 1 /\ pc' = "load"
      /\ config' = IF run = 2 THEN [i \in DOMAIN out |-> Read(out[i])] ELSE config
      /\ cfg' = <<>> /\ placed' = 0 /\ tree' = NoTree /\ work' = <<>> /\ out' = <<>>
  BY DEF RunAgain
<1>2. IsList(config')
  <2>1. CASE run = 2
    BY <1>1, <2>1, PrintedList DEF Inv
  <2>2. CASE run # 2
    BY <1>1, <2>2 DEF Inv, ListInv
  <2> QED
    BY <2>1, <2>2
<1>3. ListInv'
  <2>1. run' \in 1..3 /\ 0 \in 0..Len(<<>>)
    BY <1>1 DEF Inv, ListInv
  <2> QED
    BY <1>1, <1>2, <2>1, EmptyList DEF ListInv
<1>4. TreeInv'
  BY <1>1, NoTreeIsTree DEF TreeInv
<1>5. (work = <<>> /\ out = <<>> /\ pc \notin {"walk", "done"})'
  BY <1>1
<1>6. (WorkInv /\ MemberInv /\ PrintInv /\ ParentsFirst)'
  BY <1>5, IdleInv, PTL
<1> QED
  BY <1>3, <1>4, <1>6 DEF Inv

LEMMA InvKept == Inv /\ [Next]_vars => Inv'
<1> SUFFICES ASSUME Inv, [Next]_vars PROVE Inv'
  OBVIOUS
<1>1. CASE Load
  BY <1>1, LoadInv
<1>2. CASE RenderEntry
  BY <1>2, RenderEntryInv
<1>3. CASE Rendered
  BY <1>3, RenderedInv
<1>4. CASE WriteNode
  BY <1>4, WriteNodeInv
<1>5. CASE WriteFails
  BY <1>5, WriteFailsInv
<1>6. CASE PrintNode
  BY <1>6, PrintNodeInv
<1>7. CASE Finish
  BY <1>7, FinishInv
<1>8. CASE RunAgain
  BY <1>8, RunAgainInv
<1>9. CASE UNCHANGED vars
  BY <1>9, StutterInv
<1> QED
  BY <1>1, <1>2, <1>3, <1>4, <1>5, <1>6, <1>7, <1>8, <1>9 DEF Next, Terminated

LEMMA InvAlways == Spec => []Inv
BY InitInv, InvKept, PTL DEF Spec

(***************************************************************************)
(* The tree has the directories on the way to each of its nodes, and the   *)
(* walk's list has nodes of the tree, for all lists of entries.            *)
(***************************************************************************)
THEOREM TreeTyped == Spec => []TypeOK
<1>1. Inv => TypeOK
  <2> SUFFICES ASSUME Inv PROVE TypeOK
    OBVIOUS
  <2>1. /\ IsList(cfg) /\ placed \in 0..Len(cfg) /\ IsTree(cfg, placed, tree)
        /\ work \in Seq(DOMAIN tree)
    BY DEF Inv, ListInv, TreeInv, WorkInv
  <2>2. \A p \in DOMAIN tree : p \in Paths /\ Prefixes(p) \ {<<>>} \subseteq DOMAIN tree
    BY <2>1, NodeIs
  <2>3. \A i \in DOMAIN work : work[i] \in DOMAIN tree
    BY <2>1
  <2> QED
    BY <2>1, <2>2, <2>3 DEF Inv, ListInv, TypeOK
<1> QED
  BY <1>1, InvAlways, PTL

(***************************************************************************)
(* Render and Write, for all lists of entries: an archive has each         *)
(* directory before what is in it.                                         *)
(***************************************************************************)
THEOREM DirectoriesFirst == Spec => []ParentsFirst
<1>1. Inv => ParentsFirst
  BY DEF Inv
<1> QED
  BY <1>1, InvAlways, PTL

(***************************************************************************)
(* What becomes of the entries                                             *)
(***************************************************************************)
(* The entry that makes a node no directory is one no earlier entry made a
   directory of. *)
LEMMA SkippedBelow ==
    ASSUME NEW S, NEW p \in Seq(S), NEW q \in Prefixes(p), q # <<>>, q # Top, OneSlash(q)
    PROVE  ~Skipped(p)
<1>1. /\ q \in Seq(S) /\ Len(q) <= Len(p) /\ \A i \in 1..Len(q) : q[i] = p[i]
      /\ Len(p) \in Nat /\ Len(q) \in Nat \ {0} /\ (Len(q) = 1 => q = <<q[1]>>)
  <2>1. q \in Seq(S) /\ Len(q) <= Len(p) /\ \A i \in 1..Len(q) : q[i] = p[i]
    BY PrefixIs
  <2> QED
    BY <2>1, ShortSequences
<1>2. p[1] = q[1] /\ (Len(q) > 1 => p[2] = q[2])
  BY <1>1
<1>3. Len(q) = 1 => q[1] # ""
  BY <1>1 DEF Top
<1>4. Len(q) = 1 \/ (Len(q) > 1 /\ Len(p) # 1)
  <2>1. \A m, n \in Nat : m # 0 /\ m <= n => m = 1 \/ (m > 1 /\ n # 1)
    OBVIOUS
  <2> QED
    BY <1>1, <2>1, Zenon
<1> QED
  BY <1>2, <1>3, <1>4 DEF Skipped, OneSlash

LEMMA MemberIs ==
    ASSUME NEW p, NEW e
    PROVE  /\ Member(p, e).name = IF e.type = "d" THEN DirName(p) ELSE e.dst
           /\ e.type = "d" => Member(p, e).kind = "d"
<1>1. PICK nm : nm = IF e.type = "d" THEN DirName(p) ELSE e.dst
  OBVIOUS
<1>2. PICK kd : kd = IF e.type = "b64" THEN "c" ELSE e.type
  OBVIOUS
<1>3. PICK sr : sr = IF e.type = "d" THEN "" ELSE e.src
  OBVIOUS
<1>4. PICK ti : ti = IF e.type \in {"d", "l"} THEN 0 ELSE e.time
  OBVIOUS
<1>5. Member(p, e) = [name |-> nm, kind |-> kd, mode |-> e.mode, own |-> e.own,
                      src |-> sr, time |-> ti]
  BY <1>1, <1>2, <1>3, <1>4, Zenon DEF Member
<1>6. Member(p, e).name = nm /\ Member(p, e).kind = kd
  BY <1>5
<1> QED
  BY <1>1, <1>2, <1>6

LEMMA PlainNode ==
    ASSUME ListInv, IsTree(cfg, Len(cfg), tree), NEW q \in DOMAIN tree, ~IsDir(q)
    PROVE  \E k \in DOMAIN cfg : cfg[k].dst = q /\ cfg[k].type # "d" /\ ~Taken(k)
<1>1. IsList(cfg) /\ Len(cfg) \in Nat /\ Len(cfg) \in 0..Len(cfg) /\ DOMAIN cfg = 1..Len(cfg)
  BY DEF ListInv, IsList
<1>2. PICK k \in 1..Len(cfg) : Makes(cfg, k, q) /\ tree[q] = NodeOf(cfg, k, q)
  BY DEF IsTree
<1>3. q = cfg[k].dst /\ cfg[k].type # "d"
  BY <1>2, EntryAt, ImplicitIs, <1>1 DEF NodeOf, IsDir
<1>4. q \in Seq(Range(Names)) /\ q # <<>> /\ q # Top /\ OneSlash(q)
  BY <1>1, <1>2, <1>3, LeadsTo DEF Makes, Paths
<1>5. ASSUME NEW l \in 1..k-1, IsStrictPrefix(q, cfg[l].dst) PROVE FALSE
  <2>1. l \in 1..Len(cfg)
    BY <1>1
  <2>2. cfg[l].dst \in Seq(Range(Names))
    BY <1>1, <2>1, EntryAt
  <2>3. q \in Prefixes(cfg[l].dst)
    BY <1>4, <1>5, <2>2, StrictIs
  <2>4. ~Skipped(cfg[l].dst)
    BY <1>4, <2>2, <2>3, SkippedBelow
  <2>5. Leads(cfg, l, q)
    BY <1>4, <2>3, <2>4 DEF Leads
  <2> QED
    BY <1>2, <2>5 DEF Makes
<1> QED
  BY <1>1, <1>3, <1>5 DEF Taken

(* An entry no earlier one made a directory of is the node of its
   destination. *)
LEMMA EntryNode ==
    ASSUME ListInv, IsTree(cfg, Len(cfg), tree), NEW i \in DOMAIN cfg,
           ~Skipped(cfg[i].dst), ~Taken(i)
    PROVE  cfg[i].dst \in DOMAIN tree /\ tree[cfg[i].dst] = cfg[i]
<1>1. IsList(cfg) /\ Distinct(cfg) /\ Len(cfg) \in Nat /\ DOMAIN cfg = 1..Len(cfg)
  BY DEF ListInv, IsList
<1>2. cfg[i].dst \in Seq(Range(Names)) /\ cfg[i].dst # <<>>
  BY <1>1, EntryAt DEF Paths
<1>3. cfg[i].dst \in Prefixes(cfg[i].dst)
  BY <1>2, PrefixSelf
<1>4. Leads(cfg, i, cfg[i].dst)
  BY <1>2, <1>3 DEF Leads
<1>5. cfg[i].dst \in DOMAIN tree
  BY <1>1, <1>3, <1>4 DEF IsTree
<1>6. PICK k \in 1..Len(cfg) : /\ Makes(cfg, k, cfg[i].dst)
                               /\ tree[cfg[i].dst] = NodeOf(cfg, k, cfg[i].dst)
  BY <1>5 DEF IsTree
<1>7. k = i
  <2>1. SUFFICES ASSUME k # i PROVE FALSE
    OBVIOUS
  <2>2. ~(i \in 1..k-1)
    BY <1>4, <1>6 DEF Makes
  <2>3. k \in 1..i-1
    BY <1>1, <2>1, <2>2
  <2>4. cfg[k].dst # cfg[i].dst
    BY <1>1, <2>1 DEF Distinct
  <2>5. cfg[i].dst \in Prefixes(cfg[k].dst)
    BY <1>6 DEF Makes, Leads
  <2>6. cfg[k].dst \in Seq(Range(Names))
    BY <1>1, EntryAt
  <2>7. IsStrictPrefix(cfg[i].dst, cfg[k].dst)
    BY <1>2, <2>4, <2>5, <2>6, StrictIs
  <2> QED
    BY <2>3, <2>7 DEF Taken
<1> QED
  BY <1>5, <1>6, <1>7 DEF NodeOf

(***************************************************************************)
(* For all lists of entries: the archive has the member of an entry, as    *)
(* the entry says, unless one before it made its destination a directory   *)
(* or one that is none is above it; and then no member has its name but a  *)
(* directory of an absolute destination.                                   *)
(***************************************************************************)
THEOREM EntriesAreKept == Spec => []EntriesKept
<1>1. Inv => EntriesKept
  <2> SUFFICES ASSUME Inv, pc = "done", Writing,
                      NEW i \in DOMAIN cfg, ~Skipped(cfg[i].dst)
               PROVE  /\ ~Taken(i) /\ ~Blocked(i) => Written(i)
                      /\ Blocked(i) /\ cfg[i].dst[1] # "" =>
                           \A m \in DOMAIN out : out[m].name = cfg[i].dst =>
                              out[m].kind = "d" /\ Top \o cfg[i].dst \in DOMAIN tree
    BY DEF EntriesKept
  <2>1. /\ ListInv /\ IsTree(cfg, Len(cfg), tree) /\ MemberInv /\ work = <<>>
        /\ IsList(cfg) /\ Len(cfg) \in Nat /\ Len(cfg) \in 0..Len(cfg)
        /\ DOMAIN cfg = 1..Len(cfg)
    BY DEF Inv, ListInv, TreeInv, IsList
  <2>2. PICK d : d = cfg[i].dst
    OBVIOUS
  <2>3. d \in Seq(Range(Names)) /\ d # <<>> /\ d # Top
    <3>1. d \in Seq(Range(Names)) /\ d # <<>>
      BY <2>1, <2>2, EntryAt DEF Paths
    <3>2. d # Top
      <4>1. Len(Top) = 1 /\ Top[1] = ""
        BY DEF Top
      <4> QED
        BY <2>2, <4>1 DEF Skipped
    <3> QED
      BY <3>1, <3>2
  <2>4. ASSUME ~Taken(i), ~Blocked(i) PROVE Written(i)
    <3>1. d \in DOMAIN tree /\ tree[d] = cfg[i]
      BY <2>1, <2>2, <2>4, EntryNode
    <3>2. ASSUME NEW q \in Prefixes(d) \ {<<>>, d}, ~IsDir(q) PROVE FALSE
      <4>1. q \in DOMAIN tree
        BY <2>1, <3>1, NodeIs
      <4>2. PICK k \in DOMAIN cfg : cfg[k].dst = q /\ cfg[k].type # "d" /\ ~Taken(k)
        BY <2>1, <3>2, <4>1, PlainNode
      <4>3. q \in Seq(Range(Names))
        BY <2>1, <4>2, EntryAt
      <4>4. IsStrictPrefix(q, d)
        BY <2>3, <4>3, StrictIs
      <4> QED
        BY <2>2, <2>4, <4>2, <4>4 DEF Blocked
    <3>3. Reached(d)
      BY <3>2 DEF Reached
    <3>4. Range(work) = {}
      BY <2>1, EmptyRange
    <3>5. HasMember(d)
      BY <2>1, <2>3, <3>1, <3>3, <3>4 DEF MemberInv
    <3> QED
      BY <2>2, <3>1, <3>5 DEF HasMember, Written, Range
  <2>5. ASSUME Blocked(i), cfg[i].dst[1] # "",
               NEW m \in DOMAIN out, out[m].name = d
        PROVE  out[m].kind = "d" /\ Top \o d \in DOMAIN tree
    <3>1. PICK j \in DOMAIN cfg : cfg[j].type # "d" /\ ~Taken(j) /\ IsStrictPrefix(cfg[j].dst, d)
      BY <2>2, <2>5 DEF Blocked
    <3>2. PICK b : b = cfg[j].dst
      OBVIOUS
    <3>3. b \in Seq(Range(Names)) /\ b # <<>> /\ b \in Prefixes(d) /\ b # d
      <4>1. b \in Seq(Range(Names)) /\ b # <<>>
        BY <2>1, <3>2, EntryAt DEF Paths
      <4> QED
        BY <2>3, <3>1, <3>2, <4>1, StrictIs
    <3>4. ~Skipped(b)
      <4>1. Len(b) \in Nat \ {0} /\ \A k \in 1..Len(b) : b[k] = d[k]
        BY <2>3, <3>3, PrefixIs, ShortSequences
      <4>2. b[1] = d[1]
        BY <4>1
      <4> QED
        BY <2>2, <2>5, <4>2 DEF Skipped
    <3>5. b \in DOMAIN tree /\ ~IsDir(b)
      BY <2>1, <3>1, <3>2, <3>4, EntryNode DEF IsDir
    <3>6. ~Reached(d)
      BY <3>3, <3>5 DEF Reached
    <3>7. PICK p \in DOMAIN tree : Reached(p) /\ out[m] = Member(p, tree[p])
      BY <2>1 DEF MemberInv, Range
    <3>8. /\ p \in Seq(Range(Names)) /\ p # <<>>
          /\ tree[p].type # "d" => tree[p].dst = p
      BY <2>1, NodeIs DEF Paths
    <3>9. /\ out[m].name = IF tree[p].type = "d" THEN DirName(p) ELSE tree[p].dst
          /\ tree[p].type = "d" => out[m].kind = "d"
      BY <3>7, MemberIs
    <3>10. p # d
      BY <3>6, <3>7
    <3>11. tree[p].type = "d" /\ DirName(p) = d /\ p[1] = "" /\ d = Tail(p)
      BY <2>5, <3>8, <3>9, <3>10 DEF DirName
    <3>12. Top \o d = p
      <4>1. \A x : x = p[1] => <<x>> \o Tail(p) = p
        BY <3>8
      <4> QED
        BY <3>11, <4>1 DEF Top
    <3> QED
      BY <3>9, <3>11, <3>12
  <2> QED
    BY <2>2, <2>4, <2>5
<1> QED
  BY <1>1, InvAlways, PTL

(***************************************************************************)
(* The order of the list                                                   *)
(***************************************************************************)
LEMMA TreeHas ==
    ASSUME NEW list, NEW n, NEW t, IsTree(list, n, t), NEW p
    PROVE  p \in DOMAIN t <=> \E k \in 1..n : Leads(list, k, p)
<1>1. ASSUME p \in DOMAIN t PROVE \E k \in 1..n : Leads(list, k, p)
  BY <1>1 DEF IsTree, Makes
<1>2. ASSUME NEW k \in 1..n, Leads(list, k, p) PROVE p \in DOMAIN t
  <2>1. p \in Prefixes(list[k].dst)
    BY <1>2 DEF Leads
  <2> QED
    BY <1>2, <2>1 DEF IsTree
<1> QED
  BY <1>1, <1>2

(* Render makes a tree of a list. *)
LEMMA PlacedTree ==
    ASSUME NEW list, IsList(list)
    PROVE  IsTree(list, Len(list), FoldLeft(Place, NoTree, list))
<1> DEFINE n == Len(list)
<1>1. n \in Nat /\ DOMAIN list = 1..n
  BY DEF IsList
<1>2. PICK f : /\ f[0] = NoTree
               /\ \A k \in Nat : k + 1 \in 1..n => f[k + 1] = Place(f[k], list[k + 1])
               /\ f[n] = FoldLeft(Place, NoTree, list)
  BY <1>1, PlacedFold
<1> DEFINE good == {k \in Nat : k \in 0..n => IsTree(list, k, f[k])}
<1>3. 0 \in good
  BY <1>2, NoTreeIsTree
<1>4. ASSUME NEW k \in Nat, k \in good PROVE k + 1 \in good
  <2>1. SUFFICES ASSUME k + 1 \in 0..n PROVE IsTree(list, k + 1, f[k + 1])
    OBVIOUS
  <2>2. k \in 0..n /\ k + 1 \in 1..n
    BY <1>1, <2>1
  <2>3. IsTree(list, k, f[k])
    BY <1>4, <2>2
  <2>4. f[k + 1] = Place(f[k], list[k + 1])
    BY <1>2, <2>2
  <2> HIDE DEF good
  <2> QED
    BY <2>2, <2>3, <2>4, PlaceTree
<1>5. Nat \subseteq good
  <2> HIDE DEF good
  <2> QED
    BY <1>3, <1>4, SetInduction
<1> QED
  BY <1>1, <1>2, <1>5

NoneBelow(list) == \A i, j \in DOMAIN list : ~IsStrictPrefix(list[i].dst, list[j].dst)

(* When no entry is below another, the node of a destination is its entry,
   and the others are directories. *)
LEMMA ApartNode ==
    ASSUME NEW list, IsList(list), Distinct(list), NEW t, IsTree(list, Len(list), t),
           NoneBelow(list), NEW p \in DOMAIN t
    PROVE  /\ \A i \in DOMAIN list : list[i].dst = p => t[p] = list[i]
           /\ (\A i \in DOMAIN list : list[i].dst # p) => t[p].type = "d"
<1>1. Len(list) \in Nat /\ DOMAIN list = 1..Len(list)
  BY DEF IsList
<1>2. PICK k \in 1..Len(list) : Makes(list, k, p) /\ t[p] = NodeOf(list, k, p)
  BY DEF IsTree
<1>3. ASSUME NEW i \in DOMAIN list, list[i].dst = p PROVE t[p] = list[i]
  <2>1. p \in Seq(Range(Names)) /\ list[k].dst \in Seq(Range(Names))
    BY <1>1, <1>3, EntryAt
  <2>2. p \in Prefixes(list[k].dst)
    BY <1>2 DEF Makes, Leads
  <2>3. ~IsStrictPrefix(p, list[k].dst)
    BY <1>1, <1>3 DEF NoneBelow
  <2>4. p = list[k].dst
    BY <2>1, <2>2, <2>3, StrictIs
  <2>5. i = k
    BY <1>1, <1>3, <2>4 DEF Distinct
  <2> QED
    BY <1>2, <2>4, <2>5 DEF NodeOf
<1>4. ASSUME \A i \in DOMAIN list : list[i].dst # p PROVE t[p].type = "d"
  BY <1>1, <1>2, <1>4, EntryAt, ImplicitIs DEF NodeOf
<1> QED
  BY <1>3, <1>4

LEMMA ReorderedList ==
    ASSUME NEW list, IsList(list), Distinct(list),
           NEW pi \in [DOMAIN list -> DOMAIN list], IsInjective(pi)
    PROVE  LET other == [i \in DOMAIN list |-> list[pi[i]]] IN
           /\ IsList(other) /\ Distinct(other) /\ Len(other) = Len(list)
           /\ DOMAIN other = DOMAIN list
           /\ \A i \in DOMAIN list : \E k \in DOMAIN list : pi[k] = i
<1> DEFINE other == [i \in DOMAIN list |-> list[pi[i]]]
<1>1. list \in Seq(Range(list)) /\ DOMAIN list = 1..Len(list) /\ Len(list) \in Nat
  BY DEF IsList
<1>2. \A i \in DOMAIN list : pi[i] \in DOMAIN list /\ other[i] = list[pi[i]]
  OBVIOUS
<1>3. DOMAIN other = 1..Len(list) /\ Len(other) = Len(list)
  BY <1>1
<1>4. other \in Seq(Range(other))
  <2>1. other \in [1..Len(list) -> Range(other)]
    BY <1>3 DEF Range
  <2> HIDE DEF other
  <2> QED
    BY <1>1, <2>1
<1>5. \A i \in DOMAIN list : \E k \in DOMAIN list : pi[k] = i
  <2>1. IsFiniteSet(DOMAIN list)
    BY <1>1, FS_Interval
  <2>2. pi \in Injection(DOMAIN list, DOMAIN list)
    BY DEF Injection
  <2>3. pi \in Surjection(DOMAIN list, DOMAIN list)
    BY <2>1, <2>2, FS_Injection
  <2> QED
    BY <2>3 DEF Surjection
<1> HIDE DEF other
<1>6. \A i \in DOMAIN other : IsEntry(other[i])
  BY <1>1, <1>2, <1>3 DEF IsList
<1>7. Distinct(other)
  BY <1>1, <1>2, <1>3 DEF Distinct, IsInjective
<1> QED
  BY <1>1, <1>3, <1>4, <1>5, <1>6, <1>7 DEF IsList, other

(***************************************************************************)
(* For all lists of entries of which none is below another, and every      *)
(* order of theirs: Render makes the same tree, but for the owners and the *)
(* modes of the directories no entry names.                                *)
(***************************************************************************)
THEOREM OrderKeeps == Spec => []OrderKeepsEntries
<1>1. Inv => OrderKeepsEntries
  <2> SUFFICES ASSUME Inv, pc = "walk", Apart,
                      NEW pi \in [DOMAIN cfg -> DOMAIN cfg], IsInjective(pi)
               PROVE  LET t == Reordered(pi) IN
                      /\ DOMAIN t = DOMAIN tree
                      /\ \A p \in DOMAIN t :
                           IF \E i \in DOMAIN cfg : cfg[i].dst = p THEN t[p] = tree[p]
                           ELSE t[p].type = "d" /\ tree[p].type = "d"
    BY DEF OrderKeepsEntries
  <2>1. /\ IsList(cfg) /\ Distinct(cfg) /\ IsTree(cfg, Len(cfg), tree)
        /\ DOMAIN cfg = 1..Len(cfg)
    BY DEF Inv, ListInv, TreeInv, IsList
  <2>2. PICK other : other = [i \in DOMAIN cfg |-> cfg[pi[i]]]
    OBVIOUS
  <2>3. PICK t : t = Reordered(pi)
    OBVIOUS
  <2>4. /\ IsList(other) /\ Distinct(other) /\ Len(other) = Len(cfg)
        /\ DOMAIN other = DOMAIN cfg
        /\ \A i \in DOMAIN cfg : pi[i] \in DOMAIN cfg /\ other[i] = cfg[pi[i]]
        /\ \A i \in DOMAIN cfg : \E k \in DOMAIN cfg : pi[k] = i
    BY <2>1, <2>2, ReorderedList
  <2>5. IsTree(other, Len(other), t)
    BY <2>2, <2>3, <2>4, PlacedTree DEF Reordered
  <2>6. \A k \in DOMAIN cfg : \A p : Leads(other, k, p) <=> Leads(cfg, pi[k], p)
    BY <2>4 DEF Leads
  <2>7. ASSUME NEW p PROVE p \in DOMAIN t <=> p \in DOMAIN tree
    <3>1. p \in DOMAIN t <=> \E k \in 1..Len(cfg) : Leads(other, k, p)
      BY <2>4, <2>5, TreeHas
    <3>2. p \in DOMAIN tree <=> \E k \in 1..Len(cfg) : Leads(cfg, k, p)
      BY <2>1, TreeHas
    <3> QED
      BY <2>1, <2>4, <2>6, <3>1, <3>2
  <2>8. DOMAIN t = DOMAIN tree
    BY <2>7
  <2>9. NoneBelow(cfg) /\ NoneBelow(other)
    <3>1. NoneBelow(cfg)
      BY DEF Apart, NoneBelow
    <3>2. ASSUME NEW i \in DOMAIN other, NEW j \in DOMAIN other
          PROVE  ~IsStrictPrefix(other[i].dst, other[j].dst)
      <4>1. /\ pi[i] \in DOMAIN cfg /\ other[i] = cfg[pi[i]]
            /\ pi[j] \in DOMAIN cfg /\ other[j] = cfg[pi[j]]
        BY <2>4
      <4> QED
        BY <3>1, <4>1 DEF NoneBelow
    <3> QED
      BY <3>1, <3>2 DEF NoneBelow
  <2>10. ASSUME NEW p \in DOMAIN t, NEW i \in DOMAIN cfg, cfg[i].dst = p
         PROVE  t[p] = tree[p]
    <3>1. PICK k \in DOMAIN cfg : pi[k] = i
      BY <2>4
    <3>2. k \in DOMAIN other /\ other[k] = cfg[i] /\ other[k].dst = p
      BY <2>4, <2>10, <3>1
    <3>3. t[p] = other[k]
      <4>1. \A j \in DOMAIN other : other[j].dst = p => t[p] = other[j]
        <5>1. IsList(other) /\ Distinct(other)
          BY <2>4
        <5> QED
          BY <2>5, <2>9, <5>1, ApartNode
      <4> QED
        BY <3>2, <4>1
    <3>4. tree[p] = cfg[i]
      BY <2>1, <2>8, <2>9, <2>10, ApartNode
    <3> QED
      BY <3>2, <3>3, <3>4
  <2>11. ASSUME NEW p \in DOMAIN t, \A i \in DOMAIN cfg : cfg[i].dst # p
         PROVE  t[p].type = "d" /\ tree[p].type = "d"
    <3>1. \A k \in DOMAIN other : other[k].dst # p
      BY <2>4, <2>11
    <3>2. t[p].type = "d"
      BY <2>4, <2>5, <2>9, <3>1, ApartNode
    <3>3. tree[p].type = "d"
      BY <2>1, <2>8, <2>9, <2>11, ApartNode
    <3> QED
      BY <3>2, <3>3
  <2> QED
    BY <2>3, <2>8, <2>10, <2>11
<1> QED
  BY <1>1, InvAlways, PTL
-----------------------------------------------------------------------------
(***************************************************************************)
(* The walk of a tree                                                      *)
(***************************************************************************)
(* Below and the walk for any tree; g[k] is what work is after k nodes. *)
DirIn(T, p) == T[p].type = "d"
BelowIn(T, p) ==
    LET dirs == {q \in DOMAIN T : DirIn(T, q)}
    IN Sorted(p, DOMAIN T \ dirs) \o Sorted(p, dirs)
Onward(T, w) == (IF DirIn(T, Head(w)) THEN BelowIn(T, Head(w)) ELSE <<>>) \o Tail(w)
IsWalk(g, T, n) ==
    /\ g[0] = BelowIn(T, <<>>)
    /\ \A k \in 0..n-1 : g[k] # <<>> /\ g[k + 1] = Onward(T, g[k])

ReachedIn(T, p) == \A q \in Prefixes(p) \ {<<>>, p} : DirIn(T, q)
Shape(T) ==
    \A p \in DOMAIN T : /\ p \in Seq(Range(Names)) /\ p # <<>>
                        /\ \A q \in Prefixes(p) \ {<<>>} : q \in DOMAIN T

(* No path of the sequence is at or below another one. *)
Parted(s) == \A i, j \in DOMAIN s : i # j => s[i] \notin Prefixes(s[j])
Once(s) == \A i, j \in DOMAIN s : s[i] = s[j] => i = j

LEMMA ConcatIs ==
    ASSUME NEW T, NEW s \in Seq(T), NEW t \in Seq(T)
    PROVE  /\ s \o t \in Seq(T) /\ DOMAIN (s \o t) = 1..Len(s) + Len(t)
           /\ Len(s) \in Nat /\ Len(t) \in Nat
           /\ \A i \in DOMAIN (s \o t) :
                 \/ i \in DOMAIN s /\ (s \o t)[i] = s[i] /\ s[i] \in Range(s)
                 \/ i \notin DOMAIN s /\ i - Len(s) \in DOMAIN t /\ (s \o t)[i] = t[i - Len(s)]
                    /\ t[i - Len(s)] \in Range(t)
<1>1. /\ s \o t \in Seq(T) /\ DOMAIN (s \o t) = 1..Len(s) + Len(t)
      /\ Len(s) \in Nat /\ Len(t) \in Nat /\ DOMAIN s = 1..Len(s) /\ DOMAIN t = 1..Len(t)
      /\ \A i \in 1..Len(s) + Len(t) :
            (s \o t)[i] = IF i <= Len(s) THEN s[i] ELSE t[i - Len(s)]
  OBVIOUS
<1>2. ASSUME NEW i \in 1..Len(s) + Len(t)
      PROVE  \/ i \in DOMAIN s /\ (s \o t)[i] = s[i]
             \/ i \notin DOMAIN s /\ i - Len(s) \in DOMAIN t /\ (s \o t)[i] = t[i - Len(s)]
  BY <1>1
<1> QED
  BY <1>1, <1>2 DEF Range

LEMMA OnceConcat ==
    ASSUME NEW T, NEW s \in Seq(T), NEW t \in Seq(T), Once(s), Once(t),
           Range(s) \cap Range(t) = {}
    PROVE  Once(s \o t)
<1> SUFFICES ASSUME NEW i \in DOMAIN (s \o t), NEW j \in DOMAIN (s \o t),
                    (s \o t)[i] = (s \o t)[j]
             PROVE  i = j
  BY DEF Once
<1> DEFINE u == s \o t
<1>1. /\ Len(s) \in Nat /\ i \in Int /\ j \in Int
      /\ \/ i \in DOMAIN s /\ u[i] = s[i] /\ s[i] \in Range(s)
         \/ i \notin DOMAIN s /\ i - Len(s) \in DOMAIN t /\ u[i] = t[i - Len(s)]
            /\ t[i - Len(s)] \in Range(t)
      /\ \/ j \in DOMAIN s /\ u[j] = s[j] /\ s[j] \in Range(s)
         \/ j \notin DOMAIN s /\ j - Len(s) \in DOMAIN t /\ u[j] = t[j - Len(s)]
            /\ t[j - Len(s)] \in Range(t)
  BY ConcatIs
<1>2. u[i] = u[j]
  OBVIOUS
<1> HIDE DEF u
<1>3. \/ i \in DOMAIN s /\ j \in DOMAIN s /\ s[i] = s[j]
      \/ i - Len(s) \in DOMAIN t /\ j - Len(s) \in DOMAIN t /\ t[i - Len(s)] = t[j - Len(s)]
  BY <1>1, <1>2
<1>4. i = j \/ i - Len(s) = j - Len(s)
  BY <1>3 DEF Once
<1> QED
  BY <1>1, <1>4

LEMMA PartedConcat ==
    ASSUME NEW T, NEW s \in Seq(T), NEW t \in Seq(T), Parted(s), Parted(t),
           \A x \in Range(s) : \A y \in Range(t) : x \notin Prefixes(y) /\ y \notin Prefixes(x)
    PROVE  Parted(s \o t)
<1> SUFFICES ASSUME NEW i \in DOMAIN (s \o t), NEW j \in DOMAIN (s \o t), i # j
             PROVE  (s \o t)[i] \notin Prefixes((s \o t)[j])
  BY DEF Parted
<1> DEFINE u == s \o t
<1>1. /\ Len(s) \in Nat /\ i \in Int /\ j \in Int
      /\ \/ i \in DOMAIN s /\ u[i] = s[i] /\ s[i] \in Range(s)
         \/ i \notin DOMAIN s /\ i - Len(s) \in DOMAIN t /\ u[i] = t[i - Len(s)]
            /\ t[i - Len(s)] \in Range(t)
      /\ \/ j \in DOMAIN s /\ u[j] = s[j] /\ s[j] \in Range(s)
         \/ j \notin DOMAIN s /\ j - Len(s) \in DOMAIN t /\ u[j] = t[j - Len(s)]
            /\ t[j - Len(s)] \in Range(t)
  BY ConcatIs
<1> HIDE DEF u
<1>2. i - Len(s) # j - Len(s)
  BY <1>1
<1>3. u[i] \notin Prefixes(u[j])
  BY <1>1, <1>2 DEF Parted
<1> QED
  BY <1>3 DEF u

LEMMA SortedOnce ==
    ASSUME NEW p \in Seq(Range(Names)), NEW ps
    PROVE  Once(Sorted(p, ps))
<1> DEFINE N == Len(Names)
           Child(i) == Append(p, Names[i])
           One(i) == IF Child(i) \in ps THEN <<Child(i)>> ELSE <<>>
           ss == [i \in DOMAIN Names |-> One(i)]
           flat == CHOOSE f : IsFlatten(f, ss, N)
           Kids(k) == {Child(i) : i \in 1..k}
           good == {k \in Nat : k \in 1..N => flat[k] \in Seq(Kids(k)) /\ Once(flat[k])}
<1>1. N \in Nat /\ DOMAIN Names = 1..N /\ \A i \in 1..N : Names[i] \in Range(Names)
  <2>1. Names \in Seq(Range(Names))
    BY TreeAssumption
  <2> QED
    BY <2>1 DEF Range
<1>2. ASSUME NEW i \in 1..N, NEW j \in 1..N, Child(i) = Child(j) PROVE i = j
  <2>1. Names[i] = Names[j]
    BY <1>1, <1>2
  <2> QED
    BY <1>1, <2>1, TreeAssumption
<1>3. DOMAIN ss = 1..N /\ Len(ss) = N /\ \A i \in 1..N : ss[i] = One(i)
  BY <1>1
<1>4. Sorted(p, ps) = FlattenSeq(ss)
  BY DEF Sorted
<1>5. IsFlatten(flat, ss, N)
  <2> HIDE DEF ss, N
  <2> QED
    BY <1>1, FlattenExists
<1>6. N # 0 => FlattenSeq(ss) = flat[N]
  BY <1>3 DEF FlattenSeq, IsFlatten
<1>7. N = 0 => FlattenSeq(ss) = <<>>
  <2>1. SUFFICES ASSUME N = 0 PROVE FlattenSeq(ss) = <<>>
    OBVIOUS
  <2>2. ss = <<>>
    BY <1>3, <2>1
  <2> QED
    BY <1>3, <2>1, <2>2 DEF FlattenSeq
<1>8. ASSUME NEW i \in 1..N
      PROVE  One(i) \in Seq({Child(i)}) /\ Once(One(i)) /\ Range(One(i)) \subseteq {Child(i)}
  <2> DEFINE c == Child(i)
  <2>1. One(i) = <<>> \/ One(i) = <<c>>
    OBVIOUS
  <2> HIDE DEF c, One
  <2>2. One(i) \in Seq({c}) /\ Once(One(i))
    <3>1. <<>> \in Seq({c}) /\ Once(<<>>)
      BY DEF Once
    <3>2. <<c>> \in Seq({c}) /\ Once(<<c>>)
      BY DEF Once
    <3> QED
      BY <2>1, <3>1, <3>2, Zenon
  <2>3. Range(One(i)) \subseteq {c}
    BY <2>2, RangeOfSeq
  <2> QED
    BY <2>2, <2>3 DEF c
<1>9. \A k \in 1..N : flat[k] = IF k = 1 THEN ss[k] ELSE flat[k-1] \o ss[k]
  BY <1>5 DEF IsFlatten
<1> HIDE DEF flat, ss, One, Child, N
<1>10. 0 \in good
  BY <1>1
<1>11. ASSUME NEW k \in Nat, k \in good PROVE k + 1 \in good
  <2>1. SUFFICES ASSUME k + 1 \in 1..N
                 PROVE  flat[k + 1] \in Seq(Kids(k + 1)) /\ Once(flat[k + 1])
    OBVIOUS
  <2>2. /\ ss[k + 1] \in Seq({Child(k + 1)}) /\ Once(ss[k + 1])
        /\ Range(ss[k + 1]) \subseteq {Child(k + 1)}
    BY <1>3, <1>8, <2>1
  <2>3. Child(k + 1) \in Kids(k + 1) /\ Kids(k) \subseteq Kids(k + 1)
    <3>1. k + 1 \in 1..(k + 1) /\ \A i \in 1..k : i \in 1..(k + 1)
      OBVIOUS
    <3> QED
      BY <3>1
  <2>4. flat[k + 1] = IF k = 0 THEN ss[k + 1] ELSE flat[k] \o ss[k + 1]
    <3>1. flat[k + 1] = IF k + 1 = 1 THEN ss[k + 1] ELSE flat[(k + 1) - 1] \o ss[k + 1]
      BY <1>9, <2>1
    <3>2. (k + 1) - 1 = k /\ (k + 1 = 1 <=> k = 0)
      OBVIOUS
    <3> QED
      BY <3>1, <3>2
  <2>5. ss[k + 1] \in Seq(Kids(k + 1))
    <3> HIDE DEF Kids
    <3>1. {Child(k + 1)} \subseteq Kids(k + 1)
      BY <2>3
    <3> QED
      BY <2>2, <3>1, SeqMonotonic
  <2>6. CASE k = 0
    BY <2>2, <2>4, <2>5, <2>6
  <2>7. CASE k # 0
    <3>1. flat[k] \in Seq(Kids(k)) /\ Once(flat[k])
      BY <1>1, <1>11, <2>1, <2>7
    <3>2. Child(k + 1) \notin Kids(k)
      <4>1. \A i \in 1..k : i \in 1..N /\ i # k + 1
        BY <1>1, <2>1
      <4> QED
        BY <1>2, <2>1, <4>1
    <3> HIDE DEF Kids
    <3>3. flat[k] \in Seq(Kids(k + 1)) /\ Range(flat[k]) \subseteq Kids(k)
      BY <2>3, <3>1, SeqMonotonic, RangeOfSeq
    <3>4. Range(flat[k]) \cap Range(ss[k + 1]) = {}
      BY <2>2, <3>2, <3>3
    <3>5. Once(flat[k] \o ss[k + 1])
      BY <2>2, <2>5, <3>1, <3>3, <3>4, OnceConcat
    <3>6. flat[k] \o ss[k + 1] \in Seq(Kids(k + 1))
      BY <2>5, <3>3, ConcatIs
    <3> QED
      BY <2>4, <2>7, <3>5, <3>6
  <2> QED
    BY <2>6, <2>7
<1>12. Nat \subseteq good
  <2> HIDE DEF good
  <2> QED
    BY <1>10, <1>11, SetInduction
<1>13. CASE N = 0
  BY <1>4, <1>7, <1>13 DEF Once
<1>14. CASE N # 0
  <2>1. N \in Nat /\ N \in 1..N
    BY <1>1, <1>14
  <2>2. Once(flat[N])
    <3>1. N \in good
      <4> HIDE DEF good
      <4> QED
        BY <1>12, <2>1
    <3> QED
      BY <2>1, <3>1
  <2> QED
    BY <1>4, <1>6, <1>14, <2>2
<1> QED
  BY <1>13, <1>14

LEMMA BelowInIs ==
    ASSUME NEW T, NEW p \in Seq(Range(Names))
    PROVE  /\ BelowIn(T, p) \in Seq(DOMAIN T) /\ Once(BelowIn(T, p))
           /\ Range(BelowIn(T, p)) = {q \in DOMAIN T : \E x \in Range(Names) : q = Append(p, x)}
<1> DEFINE dirs == {q \in DOMAIN T : DirIn(T, q)}
           rest == DOMAIN T \ dirs
           C(ps) == {q \in ps : \E x \in Range(Names) : q = Append(p, x)}
<1>1. BelowIn(T, p) = Sorted(p, rest) \o Sorted(p, dirs)
  BY DEF BelowIn
<1>2. dirs \cup rest = DOMAIN T /\ C(dirs) \cup C(rest) = C(DOMAIN T) /\ dirs \cap rest = {}
      /\ C(dirs) \subseteq dirs /\ C(rest) \subseteq rest
  OBVIOUS
<1> HIDE DEF dirs, rest
<1>3. /\ Sorted(p, rest) \in Seq(rest) /\ Range(Sorted(p, rest)) = C(rest)
      /\ Sorted(p, dirs) \in Seq(dirs) /\ Range(Sorted(p, dirs)) = C(dirs)
  BY SortedIs
<1>4. Once(Sorted(p, rest)) /\ Once(Sorted(p, dirs))
  BY SortedOnce
<1> HIDE DEF C
<1>5. Sorted(p, rest) \in Seq(DOMAIN T) /\ Sorted(p, dirs) \in Seq(DOMAIN T)
  BY <1>2, <1>3, SeqMonotonic
<1>6. Range(Sorted(p, rest) \o Sorted(p, dirs)) = C(rest) \cup C(dirs)
  BY <1>3, <1>5, RangeConcatenation
<1>7. Once(Sorted(p, rest) \o Sorted(p, dirs))
  <2>1. Range(Sorted(p, rest)) \cap Range(Sorted(p, dirs)) = {}
    BY <1>2, <1>3
  <2> QED
    BY <1>4, <1>5, <2>1, OnceConcat
<1>8. Range(BelowIn(T, p)) = C(DOMAIN T)
  BY <1>1, <1>2, <1>6
<1>9. Sorted(p, rest) \o Sorted(p, dirs) \in Seq(DOMAIN T)
  BY <1>5, ConcatProperties
<1> QED
  BY <1>1, <1>7, <1>8, <1>9 DEF C

(* What is below a node is a name longer, and no two of it are the same. *)
LEMMA ChildrenIn ==
    ASSUME NEW T, NEW p \in Seq(Range(Names))
    PROVE  /\ Parted(BelowIn(T, p))
           /\ \A c \in Range(BelowIn(T, p)) :
                 /\ c \in DOMAIN T /\ c \in Seq(Range(Names)) /\ c # <<>>
                 /\ p \in Prefixes(c) /\ c \notin Prefixes(p)
                 /\ Prefixes(c) = Prefixes(p) \cup {c}
<1> DEFINE b == BelowIn(T, p)
<1>1. /\ b \in Seq(DOMAIN T) /\ Once(b)
      /\ Range(b) = {q \in DOMAIN T : \E x \in Range(Names) : q = Append(p, x)}
  BY BelowInIs
<1> HIDE DEF b
<1>2. ASSUME NEW c \in Range(b)
      PROVE  /\ c \in DOMAIN T /\ c \in Seq(Range(Names)) /\ c # <<>>
             /\ Len(c) = Len(p) + 1
             /\ p \in Prefixes(c) /\ c \notin Prefixes(p)
             /\ Prefixes(c) = Prefixes(p) \cup {c}
  <2>1. PICK x \in Range(Names) : c \in DOMAIN T /\ c = Append(p, x)
    BY <1>1
  <2>2. /\ c \in Seq(Range(Names)) \ {<<>>} /\ Len(c) = Len(p) + 1
        /\ Prefixes(c) = Prefixes(p) \cup {c}
    BY <2>1, AppendPath
  <2>3. p \in Prefixes(p)
    BY PrefixSelf
  <2>4. c \notin Prefixes(p)
    <3>1. c \in Prefixes(p) => Len(c) <= Len(p)
      BY PrefixIs
    <3>2. Len(p) \in Nat
      OBVIOUS
    <3> QED
      BY <2>2, <3>1, <3>2
  <2> QED
    BY <2>1, <2>2, <2>3, <2>4
<1>3. Parted(b)
  <2> SUFFICES ASSUME NEW i \in DOMAIN b, NEW j \in DOMAIN b, i # j, b[i] \in Prefixes(b[j])
               PROVE  FALSE
    BY DEF Parted
  <2>1. b[i] \in Range(b) /\ b[j] \in Range(b)
    BY DEF Range
  <2>2. b[j] \in Seq(Range(Names)) /\ Len(b[i]) = Len(b[j])
    BY <1>2, <2>1
  <2>3. b[j] \in Prefixes(b[j])
    BY <2>2, PrefixSelf
  <2>4. b[i] = b[j]
    BY <2>2, <2>3, PrefixUnique
  <2> QED
    BY <1>1, <2>4 DEF Once
<1> QED
  BY <1>2, <1>3 DEF b

(* The state of a walk after k nodes: no node of it is at or below another,
   none is on the way to a node it has come to, and the nodes that it can
   reach are those it has come to and those at or below one it has left. *)
WalkAt(g, T, k) ==
    /\ g[k] \in Seq(DOMAIN T) /\ Parted(g[k])
    /\ \A j \in 0..k-1 : Head(g[j]) \in DOMAIN T /\ ReachedIn(T, Head(g[j]))
    /\ \A p \in Range(g[k]) : /\ ReachedIn(T, p)
                              /\ \A j \in 0..k-1 : p \notin Prefixes(Head(g[j]))
    /\ \A p \in DOMAIN T :
          ReachedIn(T, p) => \/ \E j \in 0..k-1 : p = Head(g[j])
                             \/ \E q \in Range(g[k]) : q \in Prefixes(p)

LEMMA WalkBegins ==
    ASSUME NEW T, Shape(T), NEW g, g[0] = BelowIn(T, <<>>)
    PROVE  WalkAt(g, T, 0)
<1> DEFINE S == Range(Names)
           nil == <<>>
           b == BelowIn(T, nil)
<1>1. nil \in Seq(S) /\ Prefixes(nil) = {nil}
  BY EmptyRange, EmptyPrefix
<1> HIDE DEF S, nil
<1>2. /\ b \in Seq(DOMAIN T) /\ Parted(b)
      /\ Range(b) = {q \in DOMAIN T : \E x \in S : q = Append(nil, x)}
      /\ \A c \in Range(b) : Prefixes(c) = {nil, c}
  BY <1>1, BelowInIs, ChildrenIn DEF S
<1> HIDE DEF b
<1>3. \A c \in Range(b) : ReachedIn(T, c)
  BY <1>2 DEF ReachedIn, nil
<1>4. ASSUME NEW p \in DOMAIN T PROVE \E q \in Range(b) : q \in Prefixes(p)
  <2>1. p \in Seq(S) /\ p # nil /\ \A q \in Prefixes(p) \ {nil} : q \in DOMAIN T
    BY DEF Shape, S, nil
  <2>2. nil \in Prefixes(p)
    BY <2>1, EmptyPrefix DEF nil
  <2>3. PICK x \in S : Append(nil, x) \in Prefixes(p)
    BY <2>1, <2>2, NextOnWay
  <2>4. Append(nil, x) # nil
    BY <1>1
  <2>5. Append(nil, x) \in Range(b)
    BY <1>2, <2>1, <2>3, <2>4
  <2> QED
    BY <2>3, <2>5
<1>5. g[0] = b /\ 0..0-1 = {}
  BY DEF b, nil
<1> QED
  BY <1>2, <1>3, <1>4, <1>5 DEF WalkAt

(* What is on the list but its first. *)
LEMMA PartedTail ==
    ASSUME NEW D, NEW w \in Seq(D), w # <<>>, Parted(w)
    PROVE  /\ Tail(w) \in Seq(D) /\ Parted(Tail(w))
           /\ Head(w) \in Range(w)
           /\ \A p \in Range(Tail(w)) : /\ p \in Range(w) /\ p \notin Prefixes(Head(w))
                                        /\ Head(w) \notin Prefixes(p)
<1>1. /\ Tail(w) \in Seq(D) /\ Len(w) \in Nat \ {0} /\ DOMAIN w = 1..Len(w)
      /\ Head(w) = w[1] /\ DOMAIN Tail(w) = 1..Len(w) - 1
      /\ \A i \in 1..Len(w) - 1 : Tail(w)[i] = w[i + 1]
  OBVIOUS
<1> DEFINE t == Tail(w)
<1> HIDE DEF t
<1>2. ASSUME NEW i \in DOMAIN t PROVE i + 1 \in DOMAIN w /\ i + 1 # 1 /\ t[i] = w[i + 1]
  BY <1>1 DEF t
<1>3. 1 \in DOMAIN w
  BY <1>1
<1>4. Parted(t)
  <2> SUFFICES ASSUME NEW i \in DOMAIN t, NEW j \in DOMAIN t, i # j
               PROVE  t[i] \notin Prefixes(t[j])
    BY DEF Parted
  <2>1. i + 1 # j + 1
    BY <1>1 DEF t
  <2> QED
    BY <1>2, <2>1 DEF Parted
<1>5. ASSUME NEW p \in Range(t)
      PROVE  p \in Range(w) /\ p \notin Prefixes(w[1]) /\ w[1] \notin Prefixes(p)
  <2>1. PICK i \in DOMAIN t : p = t[i]
    BY DEF Range
  <2>2. i + 1 \in DOMAIN w /\ i + 1 # 1 /\ p = w[i + 1]
    BY <1>2, <2>1
  <2> QED
    BY <1>3, <2>2 DEF Parted, Range
<1>6. Head(w) \in Range(w)
  BY <1>1, <1>3 DEF Range
<1> QED
  BY <1>1, <1>4, <1>5, <1>6 DEF t

LEMMA WalkGoesOn ==
    ASSUME NEW T, Shape(T), NEW g, NEW k \in Nat, WalkAt(g, T, k), g[k] # <<>>,
           g[k + 1] = Onward(T, g[k])
    PROVE  WalkAt(g, T, k + 1)
<1> DEFINE S == Range(Names)
           w == g[k]
           P == Head(w)
           t == Tail(w)
           new == IF DirIn(T, P) THEN BelowIn(T, P) ELSE <<>>
<1>1. w \in Seq(DOMAIN T) /\ w # <<>> /\ Parted(w)
  BY DEF WalkAt
<1>2. /\ P \in DOMAIN T /\ P \in Range(w) /\ Range(w) = {P} \cup Range(t)
      /\ t \in Seq(DOMAIN T) /\ Parted(t)
      /\ \A p \in Range(t) : p \in Range(w) /\ p \notin Prefixes(P) /\ P \notin Prefixes(p)
  <2>1. <<>> \in Seq(DOMAIN T)
    OBVIOUS
  <2> HIDE DEF w
  <2> QED
    BY <1>1, <2>1, PartedTail, WorkRange
<1>3. /\ P \in Seq(S) /\ P # <<>> /\ \A q \in Prefixes(P) \ {<<>>} : q \in DOMAIN T
      /\ P \in Prefixes(P)
  <2>1. P \in Seq(S) /\ P # <<>> /\ \A q \in Prefixes(P) \ {<<>>} : q \in DOMAIN T
    BY <1>2 DEF Shape
  <2> QED
    BY <2>1, PrefixSelf
<1>4. /\ new \in Seq(DOMAIN T) /\ Parted(new)
      /\ \A c \in Range(new) :
            /\ DirIn(T, P)
            /\ c \in DOMAIN T /\ c \in Seq(S) /\ c # <<>>
            /\ P \in Prefixes(c) /\ c \notin Prefixes(P) /\ Prefixes(c) = Prefixes(P) \cup {c}
  <2>1. CASE DirIn(T, P)
    <3>1. new = BelowIn(T, P)
      BY <2>1
    <3> HIDE DEF P, new
    <3> QED
      BY <1>3, <2>1, <3>1, BelowInIs, ChildrenIn
  <2>2. CASE ~DirIn(T, P)
    <3>1. new = <<>>
      BY <2>2
    <3> HIDE DEF new
    <3> QED
      BY <3>1, EmptyRange DEF Parted
  <2> QED
    BY <2>1, <2>2
<1>5. DirIn(T, P) => \A x \in S : Append(P, x) \in DOMAIN T => Append(P, x) \in Range(new)
  <2>1. SUFFICES ASSUME DirIn(T, P)
                 PROVE  \A x \in S : Append(P, x) \in DOMAIN T => Append(P, x) \in Range(new)
    OBVIOUS
  <2>2. new = BelowIn(T, P)
    BY <2>1
  <2> HIDE DEF P, new
  <2> QED
    BY <1>3, <2>2, BelowInIs
<1>6. g[k + 1] = new \o t
  BY DEF Onward
<1>7. /\ \A p \in Range(w) : /\ ReachedIn(T, p)
                             /\ \A j \in 0..k-1 : p \notin Prefixes(Head(g[j]))
      /\ \A p \in DOMAIN T :
            ReachedIn(T, p) => \/ \E j \in 0..k-1 : p = Head(g[j])
                               \/ \E q \in Range(w) : q \in Prefixes(p)
  BY DEF WalkAt
<1>8. \A j \in 0..(k + 1) - 1 : j \in 0..k-1 \/ (j = k /\ Head(g[j]) = P)
  OBVIOUS
<1>9. k \in 0..(k + 1) - 1 /\ Head(g[k]) = P /\ \A j \in 0..k-1 : j \in 0..(k + 1) - 1
  OBVIOUS
<1>15. \A p \in Range(t) : p \in Seq(S)
  BY <1>2, RangeOfSeq DEF Shape
<1> HIDE DEF S, w, P, t, new
<1>14. \A j \in 0..(k + 1) - 1 : Head(g[j]) \in DOMAIN T /\ ReachedIn(T, Head(g[j]))
  <2>1. \A j \in 0..k-1 : Head(g[j]) \in DOMAIN T /\ ReachedIn(T, Head(g[j]))
    BY DEF WalkAt
  <2> QED
    BY <1>2, <1>7, <1>8, <2>1
<1>10. /\ new \o t \in Seq(DOMAIN T) /\ Range(new \o t) = Range(new) \cup Range(t)
  BY <1>2, <1>4, RangeConcatenation, ConcatProperties
<1>11. Parted(new \o t)
  <2>1. ASSUME NEW x \in Range(new), NEW y \in Range(t)
        PROVE  x \notin Prefixes(y) /\ y \notin Prefixes(x)
    <3>1. y \notin Prefixes(P) /\ P \notin Prefixes(y) /\ y \in Seq(S)
      BY <1>15, <1>2
    <3>2. P \in Prefixes(x) /\ Prefixes(x) = Prefixes(P) \cup {x}
      BY <1>4
    <3>3. x \notin Prefixes(y)
      BY <3>1, <3>2, PrefixTransitive
    <3>4. y # x
      BY <3>1, <3>2
    <3> QED
      BY <3>1, <3>2, <3>3, <3>4
  <2> QED
    BY <1>2, <1>4, <2>1, PartedConcat
<1>12. ASSUME NEW p \in Range(new \o t)
       PROVE  ReachedIn(T, p) /\ \A j \in 0..(k + 1) - 1 : p \notin Prefixes(Head(g[j]))
  <2>1. CASE p \in Range(t)
    BY <1>2, <1>7, <1>8, <2>1
  <2>2. CASE p \in Range(new)
    <3>1. ReachedIn(T, p)
      <4>1. ReachedIn(T, P) /\ DirIn(T, P) /\ Prefixes(p) = Prefixes(P) \cup {p}
        BY <1>2, <1>4, <1>7, <2>2
      <4> QED
        BY <4>1 DEF ReachedIn
    <3>2. ASSUME NEW j \in 0..k-1, p \in Prefixes(Head(g[j])) PROVE FALSE
      <4>1. P \notin Prefixes(Head(g[j])) /\ P \in Prefixes(p)
        BY <1>2, <1>4, <1>7, <2>2
      <4>2. Head(g[j]) \in Seq(Range(Names))
        <5>1. j \in 0..(k + 1) - 1
          BY <1>9
        <5> QED
          BY <1>14, <5>1 DEF Shape
      <4>3. P \in Prefixes(Head(g[j]))
        BY <3>2, <4>1, <4>2, PrefixTransitive
      <4> QED
        BY <4>1, <4>3
    <3> QED
      BY <1>4, <1>8, <2>2, <3>1, <3>2
  <2> QED
    BY <1>10, <2>1, <2>2
<1>13. ASSUME NEW p \in DOMAIN T, ReachedIn(T, p)
       PROVE  \/ \E j \in 0..(k + 1) - 1 : p = Head(g[j])
              \/ \E q \in Range(new \o t) : q \in Prefixes(p)
  <2>1. CASE \E j \in 0..k-1 : p = Head(g[j])
    BY <1>9, <2>1
  <2>2. CASE \E q \in Range(t) : q \in Prefixes(p)
    BY <1>10, <2>2
  <2>3. CASE P \in Prefixes(p) /\ p = P
    BY <1>9, <2>3
  <2>4. CASE P \in Prefixes(p) /\ p # P
    <3>1. p \in Seq(S) /\ \A q \in Prefixes(p) \ {<<>>} : q \in DOMAIN T
      BY DEF Shape, S
    <3>2. DirIn(T, P)
      BY <1>3, <1>13, <2>4 DEF ReachedIn
    <3>3. PICK x \in S : Append(P, x) \in Prefixes(p)
      BY <2>4, <3>1, NextOnWay
    <3>4. Append(P, x) # <<>>
      BY <1>3
    <3>5. Append(P, x) \in Range(new)
      BY <1>5, <3>1, <3>2, <3>3, <3>4
    <3> QED
      BY <1>10, <3>3, <3>5
  <2> QED
    BY <1>2, <1>7, <1>13, <2>1, <2>2, <2>3, <2>4
<1> QED
  BY <1>6, <1>14, <1>10, <1>11, <1>12, <1>13 DEF WalkAt

LEMMA WalkFacts ==
    ASSUME NEW T, Shape(T), NEW g, NEW n \in Nat, IsWalk(g, T, n)
    PROVE  \A k \in 0..n : WalkAt(g, T, k)
<1> DEFINE good == {k \in Nat : k <= n => WalkAt(g, T, k)}
<1>1. 0 \in good
  BY WalkBegins DEF IsWalk
<1>2. ASSUME NEW k \in Nat, k \in good PROVE k + 1 \in good
  <2>1. SUFFICES ASSUME k + 1 <= n PROVE WalkAt(g, T, k + 1)
    OBVIOUS
  <2>2. k \in 0..n-1 /\ k <= n
    BY <2>1
  <2>3. WalkAt(g, T, k)
    BY <1>2, <2>2
  <2> QED
    BY <2>2, <2>3, WalkGoesOn DEF IsWalk
<1>3. Nat \subseteq good
  <2> HIDE DEF good
  <2> QED
    BY <1>1, <1>2, SetInduction
<1> QED
  BY <1>3

(* A tree has one walk. *)
LEMMA WalkUnique ==
    ASSUME NEW T, NEW g, NEW h, NEW n \in Nat, NEW m \in Nat,
           IsWalk(g, T, n), IsWalk(h, T, m), g[n] = <<>>, h[m] = <<>>
    PROVE  n = m /\ \A k \in 0..n : g[k] = h[k]
<1> DEFINE good == {k \in Nat : k <= n /\ k <= m => g[k] = h[k]}
<1>1. 0 \in good
  BY DEF IsWalk
<1>2. ASSUME NEW k \in Nat, k \in good PROVE k + 1 \in good
  <2>1. SUFFICES ASSUME k + 1 <= n, k + 1 <= m PROVE g[k + 1] = h[k + 1]
    OBVIOUS
  <2>2. k \in 0..n-1 /\ k \in 0..m-1 /\ k <= n /\ k <= m
    BY <2>1
  <2>3. g[k] = h[k]
    BY <1>2, <2>2
  <2> QED
    BY <2>2, <2>3 DEF IsWalk
<1>3. Nat \subseteq good
  <2> HIDE DEF good
  <2> QED
    BY <1>1, <1>2, SetInduction
<1>4. ~(n < m)
  <2>1. SUFFICES ASSUME n < m PROVE FALSE
    OBVIOUS
  <2>2. n \in 0..m-1 /\ n <= n /\ n <= m
    BY <2>1
  <2> QED
    BY <1>3, <2>2 DEF IsWalk
<1>5. ~(m < n)
  <2>1. SUFFICES ASSUME m < n PROVE FALSE
    OBVIOUS
  <2>2. m \in 0..n-1 /\ m <= m /\ m <= n
    BY <2>1
  <2> QED
    BY <1>3, <2>2 DEF IsWalk
<1>6. n = m
  BY <1>4, <1>5
<1> QED
  BY <1>3, <1>6

LEMMA SortedSame ==
    ASSUME NEW p, NEW A, NEW B,
           \A x \in Range(Names) : Append(p, x) \in A <=> Append(p, x) \in B
    PROVE  Sorted(p, A) = Sorted(p, B)
<1> DEFINE One(ps, i) == LET q == Append(p, Names[i]) IN IF q \in ps THEN <<q>> ELSE <<>>
<1>1. ASSUME NEW i \in DOMAIN Names PROVE One(A, i) = One(B, i)
  <2>1. Names[i] \in Range(Names)
    BY DEF Range
  <2>2. Append(p, Names[i]) \in A <=> Append(p, Names[i]) \in B
    BY <2>1
  <2> QED
    BY <2>2
<1>2. [i \in DOMAIN Names |-> One(A, i)] = [i \in DOMAIN Names |-> One(B, i)]
  <2> HIDE DEF One
  <2> QED
    BY <1>1
<1> QED
  BY <1>2 DEF Sorted

(* Two trees that have the same nodes below p. *)
LEMMA BelowSame ==
    ASSUME NEW p, NEW T, NEW U,
           \A x \in Range(Names) :
              /\ Append(p, x) \in DOMAIN T <=> Append(p, x) \in DOMAIN U
              /\ Append(p, x) \in DOMAIN T =>
                    (DirIn(T, Append(p, x)) <=> DirIn(U, Append(p, x)))
    PROVE  BelowIn(T, p) = BelowIn(U, p)
<1> DEFINE dirs(V) == {q \in DOMAIN V : DirIn(V, q)}
           rest(V) == DOMAIN V \ dirs(V)
<1>1. \A x \in Range(Names) : Append(p, x) \in dirs(T) <=> Append(p, x) \in dirs(U)
  OBVIOUS
<1>2. \A x \in Range(Names) : Append(p, x) \in rest(T) <=> Append(p, x) \in rest(U)
  OBVIOUS
<1>3. Sorted(p, dirs(T)) = Sorted(p, dirs(U)) /\ Sorted(p, rest(T)) = Sorted(p, rest(U))
  <2> HIDE DEF dirs, rest
  <2> QED
    BY <1>1, <1>2, SortedSame
<1> QED
  BY <1>3 DEF BelowIn

(* What a walk that is over has come to. *)
LEMMA WalkOver ==
    ASSUME NEW T, Shape(T), NEW g, NEW n \in Nat, IsWalk(g, T, n), g[n] = <<>>
    PROVE  /\ \A p \in DOMAIN T : ReachedIn(T, p) => \E k \in 0..n-1 : p = Head(g[k])
           /\ \A k \in 0..n-1 :
                 /\ Head(g[k]) \in DOMAIN T /\ ReachedIn(T, Head(g[k]))
                 /\ \A j \in 0..k-1 : Head(g[k]) \notin Prefixes(Head(g[j]))
           /\ \A j, k \in 0..n-1 : Head(g[j]) = Head(g[k]) => j = k
<1>1. \A k \in 0..n : WalkAt(g, T, k)
  BY WalkFacts
<1>2. WalkAt(g, T, n)
  <2>1. n \in 0..n
    OBVIOUS
  <2> QED
    BY <1>1, <2>1
<1>3. ASSUME NEW p \in DOMAIN T, ReachedIn(T, p)
      PROVE  \E k \in 0..n-1 : p = Head(g[k])
  <2>1. Range(g[n]) = {}
    BY EmptyRange
  <2> QED
    BY <1>2, <1>3, <2>1 DEF WalkAt
<1>4. ASSUME NEW k \in 0..n-1
      PROVE  /\ Head(g[k]) \in DOMAIN T /\ ReachedIn(T, Head(g[k]))
             /\ \A j \in 0..k-1 : Head(g[k]) \notin Prefixes(Head(g[j]))
             /\ Head(g[k]) \in Seq(Range(Names))
  <2>1. WalkAt(g, T, k) /\ g[k] # <<>>
    <3>1. k \in 0..n
      OBVIOUS
    <3> QED
      BY <1>1, <3>1 DEF IsWalk
  <2>2. Head(g[k]) \in Range(g[k])
    <3>1. g[k] \in Seq(DOMAIN T) /\ <<>> \in Seq(DOMAIN T)
      BY <2>1 DEF WalkAt
    <3> QED
      BY <2>1, <3>1, WorkRange
  <2>3. Head(g[k]) \in DOMAIN T /\ ReachedIn(T, Head(g[k]))
    BY <1>2 DEF WalkAt
  <2> QED
    BY <2>1, <2>2, <2>3 DEF WalkAt, Shape
<1>5. ASSUME NEW j \in 0..n-1, NEW k \in 0..n-1, Head(g[j]) = Head(g[k])
      PROVE  j = k
  <2>1. Head(g[j]) \in Prefixes(Head(g[k])) /\ Head(g[k]) \in Prefixes(Head(g[j]))
    BY <1>4, <1>5, PrefixSelf
  <2>2. j \notin 0..k-1 /\ k \notin 0..j-1
    BY <1>4, <2>1
  <2> QED
    BY <2>2
<1> QED
  BY <1>3, <1>4, <1>5

(* A tree of the nodes of a walk, with the same directories, has the same walk. *)
LEMMA WalkSame ==
    ASSUME NEW T, Shape(T), NEW g, NEW n \in Nat, IsWalk(g, T, n), g[n] = <<>>,
           NEW U, DOMAIN U = {Head(g[k]) : k \in 0..n-1},
           \A q \in DOMAIN U : DirIn(U, q) <=> DirIn(T, q)
    PROVE  IsWalk(g, U, n)
<1>1. /\ \A p \in DOMAIN T : ReachedIn(T, p) => p \in DOMAIN U
      /\ \A p \in DOMAIN U : p \in DOMAIN T /\ ReachedIn(T, p)
  BY WalkOver
<1>2. ASSUME NEW p \in Seq(Range(Names)), p = <<>> \/ (p \in DOMAIN U /\ DirIn(T, p))
      PROVE  BelowIn(T, p) = BelowIn(U, p)
  <2>1. ASSUME NEW x \in Range(Names), Append(p, x) \in DOMAIN T
        PROVE  Append(p, x) \in DOMAIN U
    <3>1. Prefixes(Append(p, x)) = Prefixes(p) \cup {Append(p, x)}
      BY AppendPath
    <3>2. ReachedIn(T, Append(p, x))
      <4>1. CASE p = <<>>
        <5>1. Prefixes(p) = {<<>>}
          BY <4>1, EmptyPrefix
        <5> QED
          BY <3>1, <5>1 DEF ReachedIn
      <4>2. CASE p \in DOMAIN U /\ DirIn(T, p)
        <5>1. ReachedIn(T, p)
          BY <1>1, <4>2
        <5> QED
          BY <3>1, <4>2, <5>1 DEF ReachedIn
      <4> QED
        BY <1>2, <4>1, <4>2
    <3> QED
      BY <1>1, <2>1, <3>2
  <2> QED
    BY <1>1, <2>1, BelowSame
<1>3. g[0] = BelowIn(U, <<>>)
  <2>1. <<>> \in Seq(Range(Names))
    BY EmptyRange
  <2> QED
    BY <1>2, <2>1 DEF IsWalk
<1>4. ASSUME NEW k \in 0..n-1 PROVE g[k] # <<>> /\ g[k + 1] = Onward(U, g[k])
  <2> DEFINE P == Head(g[k])
  <2>1. P \in DOMAIN U
    OBVIOUS
  <2>2. P \in Seq(Range(Names)) /\ (DirIn(U, P) <=> DirIn(T, P))
    BY <1>1, <2>1 DEF Shape
  <2>3. DirIn(T, P) => BelowIn(T, P) = BelowIn(U, P)
    BY <1>2, <2>1, <2>2
  <2> QED
    BY <2>2, <2>3 DEF IsWalk, Onward
<1> QED
  BY <1>3, <1>4 DEF IsWalk

(***************************************************************************)
(* One tree of a list                                                      *)
(***************************************************************************)
IsFunction(t) == t = [p \in DOMAIN t |-> t[p]]

LEMMA TreeUnique ==
    ASSUME NEW list, NEW n \in Nat, NEW t, NEW u, IsTree(list, n, t), IsTree(list, n, u),
           IsFunction(t), IsFunction(u)
    PROVE  t = u
<1>1. DOMAIN t = DOMAIN u
  BY TreeHas
<1>2. ASSUME NEW p \in DOMAIN t PROVE t[p] = u[p]
  <2>1. PICK k \in 1..n : Makes(list, k, p) /\ t[p] = NodeOf(list, k, p)
    BY DEF IsTree
  <2>2. PICK j \in 1..n : Makes(list, j, p) /\ u[p] = NodeOf(list, j, p)
    BY <1>1 DEF IsTree
  <2>3. k \notin 1..j-1 /\ j \notin 1..k-1
    BY <2>1, <2>2 DEF Makes
  <2>4. j = k
    BY <2>3
  <2> QED
    BY <2>1, <2>2, <2>4
<1> QED
  BY <1>1, <1>2 DEF IsFunction

LEMMA PlaceFunction ==
    ASSUME NEW t, NEW e, IsFunction(t)
    PROVE  IsFunction(Place(t, e))
<1>1. CASE Skipped(e.dst)
  BY <1>1 DEF Place
<1>2. CASE ~Skipped(e.dst)
  <2> DEFINE V(p) == IF p \in DOMAIN t THEN t[p] ELSE IF p = e.dst THEN e ELSE Implicit(e)
             D == DOMAIN t \cup (Prefixes(e.dst) \ {<<>>})
             u == [p \in D |-> V(p)]
  <2>1. Place(t, e) = u
    BY <1>2 DEF Place
  <2>2. IsFunction(u)
    <3> HIDE DEF V, D
    <3> QED
      BY DEF IsFunction
  <2> QED
    BY <2>1, <2>2
<1> QED
  BY <1>1, <1>2

LEMMA NoTreeFunction == IsFunction(NoTree)
<1>1. NoTree \in Seq({}) /\ DOMAIN NoTree = {}
  BY DEF NoTree
<1>2. NoTree \in [1..Len(NoTree) -> {}]
  BY <1>1
<1> HIDE DEF NoTree
<1> QED
  BY <1>2 DEF IsFunction

(* The shape of Render's trees. *)
LEMMA TreeShape ==
    ASSUME NEW list, IsList(list), NEW n \in 0..Len(list), NEW t, IsTree(list, n, t)
    PROVE  Shape(t)
BY NodeIs DEF Shape, Paths

(***************************************************************************)
(* What is printed, read again                                             *)
(***************************************************************************)
Loaded(list) == FoldLeft(PutEntry, EmptyMap, list).A

(* A list that has one entry for each destination is loaded as it is. *)
LEMMA LoadedSame ==
    ASSUME NEW list, IsList(list), Distinct(list)
    PROVE  Loaded(list) = list
<1> DEFINE n == Len(list)
<1>1. n \in Nat /\ DOMAIN list = 1..n
  BY DEF IsList
<1>2. PICK f : /\ f[0] = EmptyMap
               /\ \A k \in Nat : k + 1 \in 1..n => f[k + 1] = PutEntry(f[k], list[k + 1])
               /\ f[n] = FoldLeft(PutEntry, EmptyMap, list)
  BY <1>1, PutsFold
<1> DEFINE Copied(k) == /\ WellFormed(f[k]) /\ f[k].A \in Seq(Range(list)) /\ Len(f[k].A) = k
                        /\ \A i \in 1..k : f[k].A[i] = list[i]
           good == {k \in Nat : k \in 0..n => Copied(k)}
<1>3. 0 \in good
  <2>1. EmptyMap.A \in Seq(Range(list)) /\ Len(EmptyMap.A) = 0
    BY DEF EmptyMap
  <2> QED
    BY <1>2, <2>1, EmptyWellFormed
<1>4. ASSUME NEW k \in Nat, k \in good PROVE k + 1 \in good
  <2>1. SUFFICES ASSUME k + 1 \in 0..n PROVE Copied(k + 1)
    OBVIOUS
  <2>2. k \in 0..n /\ k + 1 \in 1..n
    BY <1>1, <2>1
  <2> DEFINE map == f[k]
             A == map.A
             e == list[k + 1]
  <2>3. Copied(k)
    BY <1>4, <2>2
  <2>4. f[k + 1] = PutEntry(map, e) /\ e \in Range(list)
    BY <1>1, <1>2, <2>2 DEF Range
  <2> HIDE DEF n, good
  <2>5. A \in Seq(Range(list)) /\ Len(A) = k /\ DOMAIN A = 1..k
    BY <2>3
  <2>6. e.dst \notin Dsts(map)
    <3>1. SUFFICES ASSUME e.dst \in Dsts(map) PROVE FALSE
      OBVIOUS
    <3>2. PICK i \in 1..k : A[i].dst = e.dst
      BY <2>3, <2>5, <3>1 DEF WellFormed, Indexed, EntryOf
    <3>3. i \in DOMAIN list /\ k + 1 \in DOMAIN list /\ list[i].dst = list[k + 1].dst
      BY <1>1, <2>2, <2>3, <3>2
    <3>4. i = k + 1
      BY <3>3 DEF Distinct
    <3> QED
      BY <3>4
  <2>7. PutEntry(map, e).A = Append(A, e)
    BY <2>6 DEF PutEntry
  <2> HIDE DEF A, e, map
  <2>8. /\ Append(A, e) \in Seq(Range(list)) /\ Len(Append(A, e)) = k + 1
        /\ \A i \in 1..(k + 1) : Append(A, e)[i] = IF i = k + 1 THEN e ELSE A[i]
    BY <2>4, <2>5
  <2>9. \A i \in 1..(k + 1) : Append(A, e)[i] = list[i]
    <3>1. \A i \in 1..(k + 1) : i = k + 1 \/ i \in 1..k
      OBVIOUS
    <3> QED
      BY <2>3, <2>8, <3>1 DEF A, e, map
  <2>10. WellFormed(f[k + 1])
    BY <2>3, <2>4, PutWellFormed DEF map
  <2>11. f[k + 1].A = Append(A, e)
    BY <2>4, <2>7
  <2> QED
    BY <2>8, <2>9, <2>10, <2>11
<1>5. Nat \subseteq good
  <2> HIDE DEF good
  <2> QED
    BY <1>3, <1>4, SetInduction
<1>6. Copied(n)
  BY <1>1, <1>5
<1>7. list \in Seq(Range(list))
  BY DEF IsList
<1>8. f[n].A = list
  <2> DEFINE B == f[n].A
  <2>1. B \in Seq(Range(list)) /\ Len(B) = Len(list) /\ \A i \in 1..Len(B) : B[i] = list[i]
    BY <1>6
  <2> HIDE DEF B
  <2> QED
    BY <1>7, <2>1, SeqEqual DEF B
<1> QED
  BY <1>2, <1>8 DEF Loaded

(* A sequence, flattened when each of its members is put into one of its own. *)
LEMMA FlattenOnes ==
    ASSUME NEW S, NEW p \in Seq(S), p # <<>>, NEW ss,
           DOMAIN ss = 1..Len(p), Len(ss) = Len(p), \A i \in 1..Len(p) : ss[i] = <<p[i]>>
    PROVE  FlattenSeq(ss) = p
<1> DEFINE N == Len(p)
           flat == CHOOSE f : IsFlatten(f, ss, N)
           good == {k \in Nat : k \in 1..N => /\ flat[k] \in Seq(S) /\ Len(flat[k]) = k
                                              /\ \A i \in 1..k : flat[k][i] = p[i]}
<1>1. N \in Nat \ {0} /\ \A i \in 1..N : p[i] \in S
  OBVIOUS
<1>2. N \in 1..N /\ N \in Nat
  BY <1>1
<1>3. IsFlatten(flat, ss, N)
  <2> HIDE DEF N
  <2> QED
    BY <1>1, FlattenExists
<1>5. FlattenSeq(ss) = flat[N]
  BY <1>1 DEF FlattenSeq, IsFlatten
<1>6. \A k \in 1..N : flat[k] = IF k = 1 THEN ss[k] ELSE flat[k-1] \o ss[k]
  BY <1>3 DEF IsFlatten
<1>4. \A i \in 1..N : ss[i] = <<p[i]>>
  OBVIOUS
<1> HIDE DEF flat, N
<1>7. 0 \in good
  BY <1>1
<1>8. ASSUME NEW k \in Nat, k \in good PROVE k + 1 \in good
  <2>1. SUFFICES ASSUME k + 1 \in 1..N
                 PROVE  /\ flat[k + 1] \in Seq(S) /\ Len(flat[k + 1]) = k + 1
                        /\ \A i \in 1..(k + 1) : flat[k + 1][i] = p[i]
    OBVIOUS
  <2>2. PICK x : x = p[k + 1]
    OBVIOUS
  <2>3. x \in S /\ ss[k + 1] = <<x>>
    BY <1>1, <1>4, <2>1, <2>2
  <2>4. flat[k + 1] = IF k = 0 THEN <<x>> ELSE flat[k] \o <<x>>
    <3>1. flat[k + 1] = IF k + 1 = 1 THEN ss[k + 1] ELSE flat[(k + 1) - 1] \o ss[k + 1]
      BY <1>6, <2>1
    <3>2. (k + 1) - 1 = k /\ (k + 1 = 1 <=> k = 0)
      OBVIOUS
    <3> QED
      BY <2>3, <3>1, <3>2
  <2>5. CASE k = 0
    BY <2>2, <2>3, <2>4, <2>5
  <2>6. CASE k # 0
    <3>1. k \in 1..N
      BY <1>1, <2>1, <2>6
    <3> DEFINE w == flat[k]
    <3>2. w \in Seq(S) /\ Len(w) = k /\ \A i \in 1..k : w[i] = p[i]
      BY <1>8, <3>1
    <3>3. flat[k + 1] = w \o <<x>>
      BY <2>4, <2>6
    <3> HIDE DEF w, good
    <3>4. /\ w \o <<x>> \in Seq(S) /\ Len(w \o <<x>>) = k + 1
          /\ \A i \in 1..(k + 1) : (w \o <<x>>)[i] = IF i = k + 1 THEN x ELSE w[i]
      BY <2>3, <3>2
    <3>5. \A i \in 1..(k + 1) : i = k + 1 \/ i \in 1..k
      OBVIOUS
    <3>6. \A i \in 1..(k + 1) : (w \o <<x>>)[i] = p[i]
      BY <2>2, <3>2, <3>4, <3>5
    <3> QED
      BY <3>3, <3>4, <3>6
  <2> QED
    BY <2>5, <2>6
<1>9. Nat \subseteq good
  <2> HIDE DEF good
  <2> QED
    BY <1>7, <1>8, SetInduction
<1>11. flat[N] \in Seq(S) /\ Len(flat[N]) = N /\ \A i \in 1..N : flat[N][i] = p[i]
  BY <1>2, <1>9
<1>12. flat[N] = p
  <2>1. Len(flat[N]) = Len(p)
    BY <1>11 DEF N
  <2> QED
    BY <1>11, <2>1, SeqEqual DEF N
<1> QED
  BY <1>5, <1>12

(* A path without an empty name is a clean one. *)
NamesFull(p) == \A i \in 1..Len(p) : p[i] # ""

LEMMA CleanSame ==
    ASSUME NEW S, NEW p \in Seq(S), p # <<>>, NamesFull(p)
    PROVE  Clean(p) = p
<1> DEFINE One(i) == IF p[i] = "" THEN <<>> ELSE <<p[i]>>
           ss == [i \in DOMAIN p |-> One(i)]
<1>0. Len(p) \in Nat /\ DOMAIN p = 1..Len(p)
  OBVIOUS
<1>3. ASSUME NEW i \in 1..Len(p) PROVE One(i) = <<p[i]>>
  BY Zenon DEF NamesFull
<1>1. DOMAIN ss = 1..Len(p) /\ Len(ss) = Len(p) /\ \A i \in 1..Len(p) : ss[i] = <<p[i]>>
  <2> HIDE DEF One
  <2> QED
    BY <1>0, <1>3
<1>2. Clean(p) = FlattenSeq(ss)
  BY DEF Clean
<1> HIDE DEF ss
<1> QED
  BY <1>1, <1>2, FlattenOnes

(***************************************************************************)
(* What a run has written, and what the runs before it have                *)
(***************************************************************************)
MembersOf(T, g, n) == [k \in 1..n |-> Member(Head(g[k - 1]), T[Head(g[k - 1])])]
LinesOf(T, g, n) == [k \in 1..n |-> Line(Head(g[k - 1]), T[Head(g[k - 1])])]
TreeOf(list, T) == IsTree(Loaded(list), Len(Loaded(list)), T) /\ IsFunction(T)

(* n nodes of the tree are written or printed. *)
Walked(n, g) ==
    /\ IsWalk(g, tree, n) /\ work = g[n]
    /\ Writing /\ Top \notin DOMAIN tree => out = MembersOf(tree, g, n)
    /\ ~Writing => out = LinesOf(tree, g, n) /\ \A k \in 0..n-1 : Head(g[k]) # Top

WalkInv ==
    /\ IsFunction(tree)
    /\ pc # "load" => cfg = Loaded(config)
    /\ run < 3 => config \in Configs
    /\ pc \in {"walk", "done"} => \E n \in Nat : \E g : Walked(n, g)

(* The archive is the one of the first run's list, and what was printed has a
   line for each node of its tree. *)
Wrote(list, T, n, g) ==
    /\ TreeOf(list, T) /\ IsWalk(g, T, n) /\ g[n] = <<>>
    /\ Top \notin DOMAIN T => archive = MembersOf(T, g, n)
    /\ run = 2 => config = list
    /\ run = 3 => /\ Top \notin DOMAIN T
                  /\ config = [k \in 1..n |-> Read(LinesOf(T, g, n)[k])]

HistoryInv ==
    run > 1 => \E T, g : \E list \in Configs, n \in Nat : Wrote(list, T, n, g)

LEMMA WalkMore ==
    ASSUME NEW T, NEW g, NEW n \in Nat, IsWalk(g, T, n), g[n] # <<>>
    PROVE  \E h : /\ IsWalk(h, T, n + 1) /\ h[n + 1] = Onward(T, g[n])
                  /\ \A k \in 0..n : h[k] = g[k]
<1> DEFINE w == Onward(T, g[n])
           h == [k \in 0..(n + 1) |-> IF k = n + 1 THEN w ELSE g[k]]
<1> HIDE DEF w
<1>1. h[n + 1] = w /\ \A k \in 0..n : h[k] = g[k]
  OBVIOUS
<1> HIDE DEF h
<1>2. \A k \in 0..(n + 1)-1 : k \in 0..n /\ (k = n \/ (k \in 0..n-1 /\ k + 1 \in 0..n))
  OBVIOUS
<1>3. ASSUME NEW k \in 0..(n + 1)-1 PROVE h[k] # <<>> /\ h[k + 1] = Onward(T, h[k])
  <2>1. CASE k = n
    BY <1>1, <1>2, <2>1 DEF w
  <2>2. CASE k \in 0..n-1 /\ k + 1 \in 0..n
    BY <1>1, <1>2, <2>2 DEF IsWalk
  <2> QED
    BY <1>2, <2>1, <2>2
<1>4. h[0] = BelowIn(T, <<>>)
  <2>1. 0 \in 0..n
    OBVIOUS
  <2> QED
    BY <1>1, <2>1 DEF IsWalk
<1>5. IsWalk(h, T, n + 1)
  BY <1>3, <1>4 DEF IsWalk
<1> QED
  BY <1>1, <1>5 DEF w

LEMMA AppendIs ==
    ASSUME NEW n \in Nat, NEW f, f = [k \in 1..n |-> f[k]],
           NEW u, u = [k \in 1..(n + 1) |-> u[k]], \A k \in 1..n : u[k] = f[k]
    PROVE  u = Append(f, u[n + 1])
<1> DEFINE S == {u[k] : k \in 1..(n + 1)}
<1>1. \A k \in 1..n : k \in 1..(n + 1)
  OBVIOUS
<1>2. \A k \in 1..(n + 1) : u[k] \in S
  OBVIOUS
<1>3. n + 1 \in 1..(n + 1) /\ n + 1 \in Nat
  OBVIOUS
<1> HIDE DEF S
<1>4. u \in [1..(n + 1) -> S] /\ f \in [1..n -> S]
  BY <1>1, <1>2
<1>5. u \in Seq(S) /\ f \in Seq(S) /\ Len(u) = n + 1 /\ Len(f) = n /\ u[n + 1] \in S
  BY <1>2, <1>3, <1>4
<1> DEFINE x == u[n + 1]
<1> HIDE DEF x
<1>6. Append(f, x) \in Seq(S) /\ Len(Append(f, x)) = n + 1
      /\ \A k \in 1..(n + 1) : Append(f, x)[k] = IF k = n + 1 THEN x ELSE f[k]
  BY <1>5 DEF x
<1>7. \A k \in 1..(n + 1) : k = n + 1 \/ k \in 1..n
  OBVIOUS
<1>8. \A k \in 1..(n + 1) : u[k] = Append(f, x)[k]
  BY <1>6, <1>7 DEF x
<1>9. u = Append(f, x)
  BY <1>5, <1>6, <1>8, SeqEqual
<1> QED
  BY <1>9 DEF x

(* One node more. *)
LEMMA MoreMembers ==
    ASSUME NEW T, NEW g, NEW h, NEW n \in Nat, \A k \in 0..n : h[k] = g[k]
    PROVE  /\ MembersOf(T, h, n + 1) = Append(MembersOf(T, g, n), Member(Head(g[n]), T[Head(g[n])]))
           /\ LinesOf(T, h, n + 1) = Append(LinesOf(T, g, n), Line(Head(g[n]), T[Head(g[n])]))
<1> DEFINE M(f, k) == Member(Head(f[k]), T[Head(f[k])])
           L(f, k) == Line(Head(f[k]), T[Head(f[k])])
<1>1. \A k \in 0..n : M(h, k) = M(g, k) /\ L(h, k) = L(g, k)
  OBVIOUS
<1>2. /\ MembersOf(T, h, n + 1) = [k \in 1..(n + 1) |-> M(h, k - 1)]
      /\ MembersOf(T, g, n) = [k \in 1..n |-> M(g, k - 1)]
      /\ LinesOf(T, h, n + 1) = [k \in 1..(n + 1) |-> L(h, k - 1)]
      /\ LinesOf(T, g, n) = [k \in 1..n |-> L(g, k - 1)]
  BY DEF MembersOf, LinesOf
<1>3. (\A k \in 1..n : k - 1 \in 0..n) /\ (n + 1) - 1 = n /\ n \in 0..n /\ n + 1 \in 1..(n + 1)
  OBVIOUS
<1>4. M(g, n) = Member(Head(g[n]), T[Head(g[n])]) /\ L(g, n) = Line(Head(g[n]), T[Head(g[n])])
  OBVIOUS
<1> HIDE DEF M, L
<1>5. MembersOf(T, h, n + 1) = Append(MembersOf(T, g, n), M(g, n))
  <2> DEFINE u == [k \in 1..(n + 1) |-> M(h, k - 1)]
             f == [k \in 1..n |-> M(g, k - 1)]
  <2>1. u = [k \in 1..(n + 1) |-> u[k]] /\ f = [k \in 1..n |-> f[k]]
    OBVIOUS
  <2>2. \A k \in 1..n : u[k] = f[k]
    BY <1>1, <1>3
  <2>3. u[n + 1] = M(g, n)
    BY <1>1, <1>3
  <2> HIDE DEF u, f
  <2>4. u = Append(f, u[n + 1])
    BY <2>1, <2>2, AppendIs
  <2> QED
    BY <1>2, <2>3, <2>4 DEF u, f
<1>6. LinesOf(T, h, n + 1) = Append(LinesOf(T, g, n), L(g, n))
  <2> DEFINE u == [k \in 1..(n + 1) |-> L(h, k - 1)]
             f == [k \in 1..n |-> L(g, k - 1)]
  <2>1. u = [k \in 1..(n + 1) |-> u[k]] /\ f = [k \in 1..n |-> f[k]]
    OBVIOUS
  <2>2. \A k \in 1..n : u[k] = f[k]
    BY <1>1, <1>3
  <2>3. u[n + 1] = L(g, n)
    BY <1>1, <1>3
  <2> HIDE DEF u, f
  <2>4. u = Append(f, u[n + 1])
    BY <2>1, <2>2, AppendIs
  <2> QED
    BY <1>2, <2>3, <2>4 DEF u, f
<1> QED
  BY <1>4, <1>5, <1>6

Rerun == WalkInv /\ HistoryInv

(* The walk of the tree is as long as it was. *)
LEMMA HistoryKept ==
    ASSUME HistoryInv, UNCHANGED <<config, run, archive>>
    PROVE  HistoryInv'
<1> SUFFICES ASSUME run > 1
             PROVE  \E T, g : \E list \in Configs, n \in Nat : Wrote(list, T, n, g)'
  BY DEF HistoryInv
<1>1. PICK T, g : \E list \in Configs, n \in Nat : Wrote(list, T, n, g)
  BY DEF HistoryInv
<1>2. PICK list \in Configs, n \in Nat : Wrote(list, T, n, g)
  BY <1>1
<1>3. Wrote(list, T, n, g)'
  BY <1>2 DEF Wrote
<1> QED
  BY <1>3

LEMMA NoMembers ==
    ASSUME NEW T, NEW g
    PROVE  MembersOf(T, g, 0) = <<>> /\ LinesOf(T, g, 0) = <<>>
<1>1. \A f : f = [k \in 1..0 |-> f[k]] => f = <<>>
  <2> SUFFICES ASSUME NEW f, f = [k \in 1..0 |-> f[k]] PROVE f = <<>>
    OBVIOUS
  <2>1. f \in [1..0 -> {}]
    OBVIOUS
  <2>2. f \in Seq({}) /\ Len(f) = 0
    BY <2>1
  <2> QED
    BY <2>2, ShortSequences
<1>2. MembersOf(T, g, 0) = [k \in 1..0 |-> MembersOf(T, g, 0)[k]]
  BY DEF MembersOf
<1>3. LinesOf(T, g, 0) = [k \in 1..0 |-> LinesOf(T, g, 0)[k]]
  BY DEF LinesOf
<1> QED
  BY <1>1, <1>2, <1>3

LEMMA RerunInit == Init => Rerun
BY NoTreeFunction DEF Init, Rerun, WalkInv, HistoryInv

LEMMA RerunLoad == Rerun /\ Load => Rerun'
<1> SUFFICES ASSUME Rerun, Load PROVE Rerun'
  OBVIOUS
<1>1. HistoryInv'
  BY HistoryKept DEF Rerun, Load
<1>2. WalkInv'
  BY DEF Rerun, WalkInv, Load, Loaded
<1> QED
  BY <1>1, <1>2 DEF Rerun

LEMMA RerunRenderEntry == Rerun /\ RenderEntry => Rerun'
<1> SUFFICES ASSUME Rerun, RenderEntry PROVE Rerun'
  OBVIOUS
<1>1. HistoryInv'
  BY HistoryKept DEF Rerun, RenderEntry
<1>2. IsFunction(tree')
  BY PlaceFunction DEF Rerun, WalkInv, RenderEntry
<1>3. WalkInv'
  BY <1>2 DEF Rerun, WalkInv, RenderEntry
<1> QED
  BY <1>1, <1>3 DEF Rerun

LEMMA BelowAny == \A p : Below(p) = BelowIn(tree, p)
BY DEF Below, BelowIn, IsDir, DirIn

LEMMA RerunRendered == Inv /\ Rerun /\ Rendered => Rerun'
<1> SUFFICES ASSUME Inv, Rerun, Rendered PROVE Rerun'
  OBVIOUS
<1>1. HistoryInv'
  BY HistoryKept DEF Rerun, Rendered
<1>2. /\ out = <<>> /\ UNCHANGED <<config, run, cfg, tree, out>>
      /\ pc = "render"
      /\ pc' = "failed" \/ (pc' = "walk" /\ work' = Below(<<>>))
  BY DEF Inv, TreeInv, Rendered
<1>3. WalkInv
  BY DEF Rerun
<1>4. ASSUME pc' = "walk", work' = Below(<<>>) PROVE \E n \in Nat : \E g : Walked(n, g)'
  <2>1. PICK g : g[0] = work'
    <3>1. PICK w : w = work'
      OBVIOUS
    <3>2. [k \in {0} |-> w][0] = w
      OBVIOUS
    <3> QED
      BY <3>1, <3>2
  <2>2. IsWalk(g, tree, 0)
    <3>1. 0..0-1 = {}
      OBVIOUS
    <3> QED
      BY <1>4, <2>1, <3>1, BelowAny DEF IsWalk
  <2>3. Walked(0, g)'
    <3>1. 0..0-1 = {}
      OBVIOUS
    <3> QED
      BY <1>2, <2>1, <2>2, <3>1, NoMembers DEF Walked
  <2> QED
    BY <2>3
<1>5. WalkInv'
  BY <1>2, <1>3, <1>4 DEF WalkInv
<1> QED
  BY <1>1, <1>5 DEF Rerun

LEMMA RerunIdle == Rerun /\ (WriteFails \/ Finish \/ UNCHANGED vars) => Rerun'
<1> SUFFICES ASSUME Rerun, WriteFails \/ Finish \/ UNCHANGED vars PROVE Rerun'
  OBVIOUS
<1>1. /\ UNCHANGED <<config, run, cfg, tree, work, out, archive>>
      /\ pc = "walk" \/ pc' = pc
      /\ pc' \in {"walk", "done"} => pc \in {"walk", "done"}
  BY DEF WriteFails, Finish, vars
<1>2. HistoryInv'
  BY <1>1, HistoryKept DEF Rerun
<1>3. ASSUME NEW n, NEW g, Walked(n, g) PROVE Walked(n, g)'
  BY <1>1, <1>3 DEF Walked, Writing
<1>4. WalkInv'
  <2>1. WalkInv
    BY DEF Rerun
  <2>2. IsFunction(tree)' /\ (pc # "load" => cfg = Loaded(config))' /\ (run < 3 => config \in Configs)'
    BY <1>1, <2>1 DEF WalkInv
  <2>3. ASSUME pc' \in {"walk", "done"} PROVE \E n \in Nat : \E g : Walked(n, g)'
    <3>1. PICK n \in Nat : \E g : Walked(n, g)
      BY <1>1, <2>1, <2>3 DEF WalkInv
    <3>2. PICK g : Walked(n, g)
      BY <3>1
    <3>3. Walked(n, g)'
      BY <1>3, <3>2
    <3> QED
      BY <3>3
  <2> QED
    BY <2>2, <2>3 DEF WalkInv
<1> QED
  BY <1>2, <1>4 DEF Rerun

LEMMA RerunNode == Inv /\ Rerun /\ (WriteNode \/ PrintNode) => Rerun'
<1> SUFFICES ASSUME Inv, Rerun, WriteNode \/ PrintNode PROVE Rerun'
  OBVIOUS
<1>1. PICK P : P = Head(work)
  OBVIOUS
<1>2. PICK m : m = Member(P, tree[P])
  OBVIOUS
<1>3. PICK l : l = Line(P, tree[P])
  OBVIOUS
<1>4. PICK w : w = (IF IsDir(P) THEN Below(P) ELSE <<>>) \o Tail(work)
  OBVIOUS
<1>5. /\ pc = "walk" /\ work # <<>> /\ UNCHANGED <<config, run, cfg, tree, archive>>
      /\ \/ /\ pc' = "walk" /\ work' = w
            /\ run # 2 => out' = IF IsDir(P) /\ P = Top THEN out ELSE Append(out, m)
            /\ run = 2 => out' = Append(out, l) /\ ~(IsDir(P) /\ P = Top)
         \/ pc' = "panicked"
  BY <1>1, <1>2, <1>3, <1>4 DEF WriteNode, PrintNode
<1>6. HistoryInv'
  BY <1>5, HistoryKept DEF Rerun
<1>7. WalkInv
  BY DEF Rerun
<1>8. IsFunction(tree)' /\ (pc # "load" => cfg = Loaded(config))' /\ (run < 3 => config \in Configs)'
  BY <1>5, <1>7 DEF WalkInv
<1>12. P \in DOMAIN tree /\ (~IsDir(P) => P # Top)
  <2>1. PICK new : new = IF IsDir(P) THEN Below(P) ELSE <<>>
    OBVIOUS
  <2> QED
    BY <1>1, <1>5, <2>1, NextNode DEF Inv
<1>9. ASSUME pc' = "walk" PROVE \E n \in Nat : \E g : Walked(n, g)'
  <2>1. PICK n \in Nat : \E g : Walked(n, g)
    BY <1>5, <1>7 DEF WalkInv
  <2>2. PICK g : Walked(n, g)
    BY <2>1
  <2>3. IsWalk(g, tree, n) /\ work = g[n] /\ g[n] # <<>>
    BY <1>5, <2>2 DEF Walked
  <2>4. PICK h : /\ IsWalk(h, tree, n + 1) /\ h[n + 1] = Onward(tree, g[n])
                 /\ \A k \in 0..n : h[k] = g[k]
    BY <2>3, WalkMore
  <2>5. Onward(tree, work) = w
    BY <1>1, <1>4, BelowAny DEF Onward, IsDir, DirIn
  <2>6. /\ MembersOf(tree, h, n + 1) = Append(MembersOf(tree, g, n), m)
        /\ LinesOf(tree, h, n + 1) = Append(LinesOf(tree, g, n), l)
    BY <1>1, <1>2, <1>3, <2>3, <2>4, MoreMembers
  <2>7. n + 1 \in Nat /\ work' = h[n + 1]
    BY <1>5, <1>9, <2>3, <2>4, <2>5
  <2>8. ASSUME Writing', Top \notin DOMAIN tree' PROVE out' = MembersOf(tree, h, n + 1)
    <3>1. run # 2 /\ Top \notin DOMAIN tree /\ out = MembersOf(tree, g, n)
      BY <1>5, <2>2, <2>8 DEF Walked, Writing
    <3>2. P # Top
      BY <1>12, <3>1
    <3> QED
      BY <1>5, <1>9, <2>6, <3>1, <3>2
  <2>9. ASSUME ~Writing' PROVE out' = LinesOf(tree, h, n + 1) /\ \A k \in 0..(n + 1)-1 : Head(h[k]) # Top
    <3>1. run = 2 /\ out = LinesOf(tree, g, n) /\ \A k \in 0..n-1 : Head(g[k]) # Top
      BY <1>5, <2>2, <2>9 DEF Walked, Writing
    <3>2. out' = Append(out, l) /\ P # Top
      BY <1>5, <1>9, <1>12, <3>1
    <3> QED
      BY <1>1, <2>3, <2>4, <2>6, <3>1, <3>2
  <2>10. Walked(n + 1, h)'
    BY <1>5, <2>4, <2>7, <2>8, <2>9 DEF Walked
  <2> QED
    BY <2>7, <2>10
<1>10. pc' # "done"
  BY <1>5
<1>11. WalkInv'
  BY <1>8, <1>9, <1>10 DEF WalkInv
<1> QED
  BY <1>6, <1>11 DEF Rerun

LEMMA OnePrefixes ==
    ASSUME NEW S, NEW t \in Seq(S), Len(t) = 1, NEW q \in Prefixes(t)
    PROVE  q = <<>> \/ q = t
<1>1. q \in Seq(S) /\ Len(q) <= 1 /\ Len(q) \in Nat
  BY PrefixIs, ShortSequences
<1>2. Len(q) = 0 \/ Len(q) = Len(t)
  BY <1>1
<1> QED
  BY <1>1, <1>2, ShortSequences, PrefixUnique, PrefixSelf

LEMMA FirstPrefix ==
    ASSUME NEW S, NEW p \in Seq(S), p # <<>>
    PROVE  <<p[1]>> \in Prefixes(p) /\ <<p[1]>> # <<>>
<1>1. Len(p) \in Nat \ {0} /\ p[1] \in S
  OBVIOUS
<1>2. PICK x \in S : x = p[1]
  BY <1>1
<1>3. <<x>> \in Seq(S) /\ Len(<<x>>) = 1 /\ <<x>>[1] = x /\ <<x>> # <<>>
  OBVIOUS
<1>4. Len(<<x>>) <= Len(p) /\ \A i \in 1..Len(<<x>>) : <<x>>[i] = p[i]
  BY <1>1, <1>2, <1>3
<1>5. <<x>> \in Prefixes(p)
  BY <1>3, <1>4, PrefixIs
<1> QED
  BY <1>2, <1>3, <1>5

(* The tree of this run and the one of another walk of the same list. *)
LEMMA SameTree ==
    ASSUME Inv, Rerun, pc = "done"
    PROVE  /\ TreeOf(config, tree) /\ Shape(tree)
           /\ \E m \in Nat : \E h : Walked(m, h) /\ h[m] = <<>>
<1>1. /\ work = <<>> /\ placed = Len(cfg) /\ cfg = Loaded(config) /\ IsFunction(tree)
      /\ IsTree(cfg, placed, tree) /\ IsList(cfg) /\ placed \in 0..Len(cfg)
  BY DEF Inv, ListInv, TreeInv, Rerun, WalkInv
<1>2. TreeOf(config, tree) /\ Shape(tree)
  BY <1>1, TreeShape DEF TreeOf
<1>3. PICK m \in Nat : \E h : Walked(m, h)
  BY DEF Rerun, WalkInv
<1>4. PICK h : Walked(m, h)
  BY <1>3
<1>5. h[m] = <<>>
  BY <1>1, <1>4 DEF Walked
<1> QED
  BY <1>2, <1>4, <1>5

LEMMA RerunRunAgain == Inv /\ Rerun /\ RunAgain => Rerun'
<1> SUFFICES ASSUME Inv, Rerun, RunAgain PROVE Rerun'
  OBVIOUS
<1>1. /\ pc = "done" /\ run < 3 /\ run' = run + 1 /\ pc' = "load" /\ tree' = NoTree
      /\ config' = IF run = 2 THEN [i \in DOMAIN out |-> Read(out[i])] ELSE config
      /\ archive' = IF run = 1 THEN out ELSE archive
      /\ run \in 1..3
  BY DEF RunAgain, Inv, ListInv
<1>2. WalkInv'
  <2>1. IsFunction(tree')
    BY <1>1, NoTreeFunction
  <2>2. run' < 3 => config' \in Configs
    BY <1>1 DEF Rerun, WalkInv
  <2> QED
    BY <1>1, <2>1, <2>2 DEF WalkInv
<1>3. TreeOf(config, tree) /\ Shape(tree) /\ \E m \in Nat : \E h : Walked(m, h) /\ h[m] = <<>>
  BY <1>1, SameTree
<1>4. PICK m \in Nat : \E h : Walked(m, h) /\ h[m] = <<>>
  BY <1>3
<1>5. PICK h : Walked(m, h) /\ h[m] = <<>>
  BY <1>4
<1>6. IsWalk(h, tree, m)
  BY <1>5 DEF Walked
<1>7. CASE run = 1
  <2>1. PICK list, T : list = config /\ T = tree
    OBVIOUS
  <2>2. list \in Configs
    BY <1>7, <2>1 DEF Rerun, WalkInv
  <2>3. Top \notin DOMAIN T => out = MembersOf(T, h, m)
    BY <1>5, <1>7, <2>1 DEF Walked, Writing
  <2>4. Wrote(list, T, m, h)'
    BY <1>1, <1>3, <1>5, <1>6, <1>7, <2>1, <2>3 DEF Wrote
  <2> QED
    BY <1>2, <2>2, <2>4 DEF Rerun, HistoryInv
<1>8. CASE run = 2
  <2>1. PICK T, g : \E list \in Configs, n \in Nat : Wrote(list, T, n, g)
    BY <1>8 DEF Rerun, HistoryInv
  <2>2. PICK list \in Configs, n \in Nat : Wrote(list, T, n, g)
    BY <2>1
  <2>3. /\ TreeOf(config, T) /\ IsWalk(g, T, n) /\ g[n] = <<>>
        /\ Top \notin DOMAIN T => archive = MembersOf(T, g, n)
        /\ config = list
    BY <1>8, <2>2 DEF Wrote
  <2>4. T = tree
    <3>1. IsList(config)
      BY DEF Inv, ListInv
    <3>2. Len(Loaded(config)) \in Nat
      BY <3>1, LoadedList DEF Loaded, IsList
    <3> QED
      BY <1>3, <2>3, <3>2, TreeUnique DEF TreeOf
  <2>5. n = m /\ \A k \in 0..n : g[k] = h[k]
    BY <1>5, <1>6, <2>3, <2>4, WalkUnique
  <2>6. out = LinesOf(T, g, n) /\ \A k \in 0..n-1 : Head(g[k]) # Top
    <3>1. out = LinesOf(T, h, n) /\ \A k \in 0..n-1 : Head(h[k]) # Top
      BY <1>5, <1>8, <2>4, <2>5 DEF Walked, Writing
    <3>2. LinesOf(T, h, n) = LinesOf(T, g, n)
      <4>1. \A k \in 1..n : k - 1 \in 0..n
        OBVIOUS
      <4>2. \A k \in 1..n : Line(Head(h[k - 1]), T[Head(h[k - 1])]) = Line(Head(g[k - 1]), T[Head(g[k - 1])])
        BY <2>5, <4>1
      <4> QED
        BY <4>2 DEF LinesOf
    <3>3. \A k \in 0..n-1 : k \in 0..n
      OBVIOUS
    <3> QED
      BY <2>5, <3>1, <3>2, <3>3
  <2>7. Top \notin DOMAIN T
    <3>1. SUFFICES ASSUME Top \in DOMAIN T PROVE FALSE
      OBVIOUS
    <3>2. ReachedIn(T, Top)
      <4>1. Top \in Seq(Range(Names))
        BY <1>3, <2>4, <3>1 DEF Shape
      <4>3. Len(Top) = 1
        BY DEF Top
      <4>2. ASSUME NEW q \in Prefixes(Top) PROVE q = <<>> \/ q = Top
        BY <4>1, <4>3, OnePrefixes
      <4> QED
        BY <4>2 DEF ReachedIn
    <3>3. \E k \in 0..n-1 : Top = Head(g[k])
      BY <1>3, <2>3, <2>4, <3>1, <3>2, WalkOver
    <3> QED
      BY <2>6, <3>3
  <2>8. config' = [k \in 1..n |-> Read(LinesOf(T, g, n)[k])]
    <3>1. DOMAIN LinesOf(T, g, n) = 1..n
      BY DEF LinesOf
    <3> QED
      BY <1>1, <1>8, <2>6, <3>1
  <2>9. Wrote(list, T, n, g)'
    BY <1>1, <1>8, <2>3, <2>7, <2>8 DEF Wrote
  <2> QED
    BY <1>2, <2>9 DEF Rerun, HistoryInv
<1> QED
  BY <1>1, <1>7, <1>8

LEMMA RerunKept == Inv /\ Rerun /\ [Next]_vars => Rerun'
<1> SUFFICES ASSUME Inv, Rerun, [Next]_vars PROVE Rerun'
  OBVIOUS
<1>1. CASE Load
  BY <1>1, RerunLoad
<1>2. CASE RenderEntry
  BY <1>2, RerunRenderEntry
<1>3. CASE Rendered
  BY <1>3, RerunRendered
<1>4. CASE WriteNode \/ PrintNode
  BY <1>4, RerunNode
<1>5. CASE WriteFails \/ Finish \/ UNCHANGED vars
  BY <1>5, RerunIdle
<1>6. CASE RunAgain
  BY <1>6, RerunRunAgain
<1> QED
  BY <1>1, <1>2, <1>3, <1>4, <1>5, <1>6 DEF Next, Terminated

LEMMA RerunAlways == Spec => []Rerun
BY InitInv, InvKept, RerunInit, RerunKept, PTL DEF Spec

LEMMA ReachedOnWay ==
    ASSUME NEW T, NEW S, NEW p \in Seq(S), ReachedIn(T, p), NEW q \in Prefixes(p)
    PROVE  ReachedIn(T, q)
<1> SUFFICES ASSUME NEW r \in Prefixes(q) \ {<<>>, q} PROVE DirIn(T, r)
  BY DEF ReachedIn
<1>1. q \in Seq(S) /\ Len(q) <= Len(p)
  BY PrefixIs
<1>2. r \in Prefixes(p) /\ Len(r) <= Len(q) /\ r \in Seq(S)
  BY <1>1, PrefixIs, PrefixTransitive
<1>3. r # p
  <2>1. SUFFICES ASSUME r = p PROVE FALSE
    OBVIOUS
  <2>2. Len(r) = Len(q)
    <3>1. Len(p) \in Nat /\ Len(q) \in Nat
      BY <1>1, ShortSequences
    <3> QED
      BY <1>1, <1>2, <2>1, <3>1
  <2>3. r = q
    BY <1>1, <2>2, PrefixUnique, PrefixSelf
  <2> QED
    BY <2>3
<1> QED
  BY <1>2, <1>3 DEF ReachedIn

(* The names of the nodes, when the list is clean and no path is absolute. *)
LEMMA NodesFull ==
    ASSUME CleanLists, NEW list \in Configs, NEW T, TreeOf(list, T), Top \notin DOMAIN T,
           NEW p \in DOMAIN T
    PROVE  /\ p \in Seq(Range(Names)) /\ p # <<>> /\ p[1] # "" /\ NamesFull(p)
           /\ Clean(p) = p
           /\ T[p].type # "d" => T[p].dst = p
           /\ T[p].type \in {"f", "d", "l", "c", "b64"}
<1> DEFINE A == Loaded(list)
<1>1. IsList(list)
  BY TreeAssumption
<1>2. IsList(A) /\ Range(A) \subseteq Range(list)
  BY <1>1, LoadedList DEF Loaded
<1>3. IsTree(A, Len(A), T)
  BY DEF TreeOf
<1> HIDE DEF A
<1>4. Len(A) \in Nat /\ Len(A) \in 0..Len(A) /\ DOMAIN A = 1..Len(A)
  BY <1>2 DEF IsList
<1>5. /\ p \in Seq(Range(Names)) /\ p # <<>> /\ Len(p) \in Nat \ {0}
      /\ \A q \in Prefixes(p) \ {<<>>} : q \in DOMAIN T
      /\ IsEntry(T[p]) /\ (T[p].type # "d" => T[p].dst = p)
  BY <1>2, <1>3, <1>4, NodeIs DEF Paths
<1>6. PICK k \in 1..Len(A) : Makes(A, k, p)
  BY <1>3 DEF IsTree
<1>7. PICK d : d = A[k].dst
  OBVIOUS
<1>8. d \in Seq(Range(Names)) /\ ~Skipped(d) /\ p \in Prefixes(d)
  BY <1>2, <1>6, <1>7, EntryAt DEF Makes, Leads
<1>9. PICK i \in DOMAIN list : A[k] = list[i]
  BY <1>2, <1>4 DEF Range
<1>10. \A j \in 2..Len(d) : d[j] # ""
  BY <1>7, <1>8, <1>9 DEF CleanLists
<1>11. Len(p) <= Len(d) /\ \A j \in 1..Len(p) : p[j] = d[j]
  BY <1>8, PrefixIs
<1>12. p[1] # ""
  <2>1. SUFFICES ASSUME p[1] = "" PROVE FALSE
    OBVIOUS
  <2>2. Top \in Prefixes(p) /\ Top # <<>>
    BY <1>5, <2>1, FirstPrefix DEF Top
  <2> QED
    BY <1>5, <2>2
<1>13. NamesFull(p)
  <2>1. ASSUME NEW j \in 1..Len(p) PROVE p[j] # ""
    <3>1. Len(d) \in Nat
      BY <1>8
    <3>2. j = 1 \/ j \in 2..Len(d)
      BY <1>5, <1>11, <3>1
    <3> QED
      BY <1>10, <1>11, <1>12, <3>2
  <2> QED
    BY <2>1 DEF NamesFull
<1>14. Clean(p) = p
  BY <1>5, <1>13, CleanSame
<1> QED
  BY <1>5, <1>12, <1>13, <1>14 DEF IsEntry

(* What is read of a node's line is written as the node is, but for the time. *)
LEMMA ReadLine ==
    ASSUME NEW p, Clean(p) = p, NEW e, e.type # "d" => e.dst = p
    PROVE  LET r == Read(Line(p, e)) IN
           /\ r.dst = p /\ (r.type = "d" <=> e.type = "d")
           /\ [Member(p, r) EXCEPT !.time = 0] = [Member(p, e) EXCEPT !.time = 0]
<1> DEFINE r == Read(Line(p, e))
           Kind(t) == IF t = "b64" THEN "c" ELSE t
           Src(t, s) == IF t = "d" THEN "" ELSE s
           Nm(t, d) == IF t = "d" THEN DirName(p) ELSE d
<1>1. PICK ty : ty = IF B64 /\ e.type = "c" THEN "b64" ELSE e.type
  OBVIOUS
<1>2. PICK sr : sr = IF e.type = "d" THEN "" ELSE e.src
  OBVIOUS
<1>3. PICK ds : ds = IF e.type = "d" THEN p ELSE e.dst
  OBVIOUS
<1>4. Line(p, e) = [type |-> ty, dst |-> ds, src |-> sr, mode |-> e.mode, own |-> e.own]
  BY <1>1, <1>2, <1>3, Zenon DEF Line
<1>5. ds = p
  BY <1>3
<1>6. r = [type |-> ty, dst |-> p, src |-> sr, mode |-> e.mode, own |-> e.own, time |-> 0]
  BY <1>4, <1>5 DEF Read
<1>7. r.type = ty /\ r.dst = p /\ r.src = sr /\ r.mode = e.mode /\ r.own = e.own
  BY <1>6
<1>8. (ty = "d" <=> e.type = "d") /\ Kind(ty) = Kind(e.type)
  BY <1>1
<1>9. ASSUME NEW x
      PROVE  [Member(p, x) EXCEPT !.time = 0] =
                [name |-> Nm(x.type, x.dst), kind |-> Kind(x.type), mode |-> x.mode,
                 own |-> x.own, src |-> Src(x.type, x.src), time |-> 0]
  <2>1. PICK nm : nm = Nm(x.type, x.dst)
    OBVIOUS
  <2>2. PICK kd : kd = Kind(x.type)
    OBVIOUS
  <2>3. PICK so : so = Src(x.type, x.src)
    OBVIOUS
  <2>4. PICK ti : ti = IF x.type \in {"d", "l"} THEN 0 ELSE x.time
    OBVIOUS
  <2>5. Member(p, x) = [name |-> nm, kind |-> kd, mode |-> x.mode, own |-> x.own,
                        src |-> so, time |-> ti]
    BY <2>1, <2>2, <2>3, <2>4, Zenon DEF Member
  <2>6. [Member(p, x) EXCEPT !.time = 0] = [name |-> nm, kind |-> kd, mode |-> x.mode,
                                            own |-> x.own, src |-> so, time |-> 0]
    <3> HIDE DEF Kind, Src, Nm
    <3> QED
      BY <2>5
  <2> QED
    BY <2>1, <2>2, <2>3, <2>6, Zenon
<1>10. Nm(r.type, r.dst) = Nm(e.type, e.dst)
  <2> HIDE DEF r
  <2> QED
    BY <1>7, <1>8
<1>11. Src(r.type, r.src) = Src(e.type, e.src)
  <2> HIDE DEF r
  <2> QED
    BY <1>2, <1>7, <1>8
<1>12. Kind(r.type) = Kind(e.type)
  <2> HIDE DEF r, Kind
  <2> QED
    BY <1>7, <1>8
<1> HIDE DEF Kind, Src, Nm
<1>14. PICK q : q = r
  OBVIOUS
<1> HIDE DEF r
<1>15. /\ Nm(q.type, q.dst) = Nm(e.type, e.dst) /\ Src(q.type, q.src) = Src(e.type, e.src)
       /\ Kind(q.type) = Kind(e.type) /\ q.mode = e.mode /\ q.own = e.own
  BY <1>7, <1>10, <1>11, <1>12, <1>14
<1>16. [Member(p, q) EXCEPT !.time = 0] =
          [name |-> Nm(q.type, q.dst), kind |-> Kind(q.type), mode |-> q.mode,
           own |-> q.own, src |-> Src(q.type, q.src), time |-> 0]
  BY <1>9
<1>17. [Member(p, e) EXCEPT !.time = 0] =
          [name |-> Nm(e.type, e.dst), kind |-> Kind(e.type), mode |-> e.mode,
           own |-> e.own, src |-> Src(e.type, e.src), time |-> 0]
  BY <1>9
<1>13. [Member(p, r) EXCEPT !.time = 0] = [Member(p, e) EXCEPT !.time = 0]
  BY <1>14, <1>15, <1>16, <1>17, Zenon
<1> QED
  BY <1>7, <1>8, <1>13 DEF r

(* read has the lines of the nodes of a walk, and U those nodes as they were. *)
ReadOf(read, T, g, n) ==
    /\ DOMAIN read = 1..n
    /\ \A k \in 1..n : read[k] = Read(Line(Head(g[k - 1]), T[Head(g[k - 1])]))
NodesOf(U, T, g, n) ==
    /\ DOMAIN U = {Head(g[k]) : k \in 0..n-1}
    /\ \A k \in 0..n-1 : U[Head(g[k])] = Read(Line(Head(g[k]), T[Head(g[k])]))

(* The tree of what was printed has the nodes the walk came to, as they were. *)
LEMMA PrintedTree ==
    ASSUME CleanLists, NEW list \in Configs, NEW T, TreeOf(list, T), Shape(T), Top \notin DOMAIN T,
           NEW n \in Nat, NEW g, IsWalk(g, T, n), g[n] = <<>>,
           NEW read, IsList(read), ReadOf(read, T, g, n),
           NEW U, TreeOf(read, U)
    PROVE  NodesOf(U, T, g, n)
<1> DEFINE S == Range(Names)
           o(k) == Head(g[k - 1])
<1>0. (\A k \in 1..n : k - 1 \in 0..n-1) /\ (\A k \in 0..n-1 : k + 1 \in 1..n /\ (k + 1) - 1 = k)
  OBVIOUS
<1>1. /\ \A p \in DOMAIN T : ReachedIn(T, p) => \E k \in 1..n : p = o(k)
      /\ \A k \in 1..n : /\ o(k) \in DOMAIN T /\ ReachedIn(T, o(k))
                         /\ \A j \in 1..k-1 : o(k) \notin Prefixes(o(j))
      /\ \A j, k \in 1..n : o(j) = o(k) => j = k
  <2>1. /\ \A p \in DOMAIN T : ReachedIn(T, p) => \E k \in 0..n-1 : p = Head(g[k])
        /\ \A k \in 0..n-1 :
              /\ Head(g[k]) \in DOMAIN T /\ ReachedIn(T, Head(g[k]))
              /\ \A j \in 0..k-1 : Head(g[k]) \notin Prefixes(Head(g[j]))
        /\ \A j, k \in 0..n-1 : Head(g[j]) = Head(g[k]) => j = k
    BY WalkOver
  <2>2. ASSUME NEW p \in DOMAIN T, ReachedIn(T, p) PROVE \E k \in 1..n : p = o(k)
    <3>1. PICK j \in 0..n-1 : p = Head(g[j])
      BY <2>1, <2>2
    <3>2. j + 1 \in 1..n /\ p = o(j + 1)
      BY <1>0, <3>1
    <3> QED
      BY <3>2
  <2>3. ASSUME NEW k \in 1..n
        PROVE  /\ o(k) \in DOMAIN T /\ ReachedIn(T, o(k))
               /\ \A j \in 1..k-1 : o(k) \notin Prefixes(o(j))
    <3>1. \A j \in 1..k-1 : j - 1 \in 0..(k - 1)-1
      OBVIOUS
    <3> QED
      BY <1>0, <2>1, <3>1
  <2>4. ASSUME NEW j \in 1..n, NEW k \in 1..n, o(j) = o(k) PROVE j = k
    <3>1. j - 1 = k - 1
      BY <1>0, <2>1, <2>4
    <3> QED
      BY <3>1
  <2> QED
    BY <2>2, <2>3, <2>4
<1>2. \A p \in DOMAIN T : /\ p \in Seq(S) /\ p # <<>> /\ p[1] # "" /\ Clean(p) = p
                          /\ T[p].type # "d" => T[p].dst = p
  BY NodesFull
<1>3. DOMAIN read = 1..n /\ Len(read) = n /\ \A k \in 1..n : read[k] = Read(Line(o(k), T[o(k)]))
  <2>1. read \in Seq(Range(read))
    BY DEF IsList
  <2>2. DOMAIN read = 1..n
    BY DEF ReadOf
  <2>3. Len(read) = n
    BY <2>1, <2>2
  <2> QED
    BY <2>2, <2>3 DEF ReadOf
<1> HIDE DEF o
<1>4. \A k \in 1..n : read[k].dst = o(k)
  <2> SUFFICES ASSUME NEW k \in 1..n PROVE read[k].dst = o(k)
    OBVIOUS
  <2>1. PICK p, e : p = o(k) /\ e = T[p]
    OBVIOUS
  <2>2. Clean(p) = p /\ (e.type # "d" => e.dst = p)
    BY <1>1, <1>2, <2>1
  <2>3. Read(Line(p, e)).dst = p
    BY <2>2, ReadLine
  <2> QED
    BY <1>3, <2>1, <2>3
<1>5. Loaded(read) = read
  BY <1>1, <1>3, <1>4, LoadedSame DEF Distinct
<1>6. IsTree(read, n, U)
  BY <1>3, <1>5 DEF TreeOf
<1>7. ASSUME NEW k \in 1..n PROVE Leads(read, k, o(k))
  <2>1. o(k) \in Seq(S) /\ o(k) # <<>> /\ o(k)[1] # ""
    BY <1>1, <1>2
  <2>2. o(k) \in Prefixes(o(k))
    BY <2>1, PrefixSelf
  <2>3. ~Skipped(o(k))
    BY <2>1 DEF Skipped
  <2> QED
    BY <1>4, <2>1, <2>2, <2>3 DEF Leads
<1>8. ASSUME NEW k \in 1..n PROVE o(k) \in DOMAIN U
  <2>1. o(k) \in Prefixes(read[k].dst)
    BY <1>7 DEF Leads
  <2> QED
    BY <1>6, <1>7, <2>1 DEF IsTree
<1>9. ASSUME NEW p \in DOMAIN U PROVE \E k \in 1..n : p = o(k) /\ U[p] = read[k]
  <2>1. PICK k \in 1..n : Makes(read, k, p) /\ U[p] = NodeOf(read, k, p)
    BY <1>6 DEF IsTree
  <2>2. p \in Prefixes(o(k)) /\ p # <<>>
    BY <1>4, <2>1 DEF Makes, Leads
  <2>3. o(k) \in DOMAIN T /\ o(k) \in Seq(S) /\ ReachedIn(T, o(k))
    BY <1>1, <1>2
  <2>4. p \in DOMAIN T /\ ReachedIn(T, p)
    <3>1. p \in DOMAIN T
      BY <2>2, <2>3 DEF Shape
    <3> QED
      BY <2>2, <2>3, <3>1, ReachedOnWay
  <2>5. PICK i \in 1..n : p = o(i)
    BY <1>1, <2>4
  <2>6. i \notin 1..k-1
    BY <1>7, <2>1, <2>5 DEF Makes
  <2>7. k \notin 1..i-1
    BY <1>1, <2>2, <2>5
  <2>8. i = k
    BY <2>6, <2>7
  <2>9. U[p] = read[k]
    BY <1>4, <2>1, <2>5, <2>8 DEF NodeOf
  <2> QED
    BY <2>5, <2>8, <2>9
<1>10. ASSUME NEW k \in 1..n PROVE U[o(k)] = read[k]
  <2>1. PICK i \in 1..n : o(k) = o(i) /\ U[o(k)] = read[i]
    BY <1>8, <1>9
  <2> QED
    BY <1>1, <2>1
<1>11. DOMAIN U = {o(k) : k \in 1..n}
  BY <1>8, <1>9
<1>12. \A k \in 0..n-1 : Head(g[k]) = o(k + 1) /\ k + 1 \in 1..n
  BY <1>0 DEF o
<1>13. {o(k) : k \in 1..n} = {Head(g[k]) : k \in 0..n-1}
  <2>1. \A k \in 1..n : o(k) = Head(g[k - 1]) /\ k - 1 \in 0..n-1
    BY <1>0 DEF o
  <2> QED
    BY <1>12, <2>1
<1>14. \A k \in 0..n-1 : U[Head(g[k])] = Read(Line(Head(g[k]), T[Head(g[k])]))
  BY <1>3, <1>10, <1>12
<1> QED
  BY <1>11, <1>13, <1>14 DEF NodesOf

(***************************************************************************)
(* For all lists whose paths have no empty name but the first: the archive *)
(* of what is printed is the archive, but for the times of members.        *)
(***************************************************************************)
THEOREM PrintedIsSame ==
    ASSUME CleanLists
    PROVE  Spec => []SameButTimes
<1>1. Inv /\ Rerun => SameButTimes
  <2> SUFFICES ASSUME Inv, Rerun, pc = "done", run = 3 PROVE Timeless(out) = Timeless(archive)
    BY DEF SameButTimes
  <2>1. PICK T, g : \E list \in Configs, n \in Nat : Wrote(list, T, n, g)
    BY DEF Rerun, HistoryInv
  <2>2. PICK list \in Configs, n \in Nat : Wrote(list, T, n, g)
    BY <2>1
  <2>3. /\ TreeOf(list, T) /\ IsWalk(g, T, n) /\ g[n] = <<>>
        /\ archive = MembersOf(T, g, n) /\ Top \notin DOMAIN T
        /\ config = [k \in 1..n |-> Read(LinesOf(T, g, n)[k])]
    BY <2>2 DEF Wrote
  <2>4. Shape(T)
    <3>1. IsList(list)
      BY TreeAssumption
    <3>2. IsList(Loaded(list))
      BY <3>1, LoadedList DEF Loaded
    <3>3. Len(Loaded(list)) \in 0..Len(Loaded(list))
      <4>1. Len(Loaded(list)) \in Nat
        BY <3>2 DEF IsList
      <4> QED
        BY <4>1
    <3> QED
      BY <2>3, <3>2, <3>3, TreeShape DEF TreeOf
  <2>5. TreeOf(config, tree) /\ \E m \in Nat : \E h : Walked(m, h) /\ h[m] = <<>>
    BY SameTree
  <2>6. PICK m \in Nat : \E h : Walked(m, h) /\ h[m] = <<>>
    BY <2>5
  <2>7. PICK h : Walked(m, h) /\ h[m] = <<>>
    BY <2>6
  <2>8. /\ DOMAIN tree = {Head(g[k]) : k \in 0..n-1}
        /\ \A k \in 0..n-1 : tree[Head(g[k])] = Read(Line(Head(g[k]), T[Head(g[k])]))
    <3>1. IsList(config)
      BY DEF Inv, ListInv
    <3>2. PICK read, U : read = config /\ U = tree
      OBVIOUS
    <3>3. IsList(read) /\ TreeOf(read, U) /\ ReadOf(read, T, g, n)
      BY <2>3, <2>5, <3>1, <3>2 DEF LinesOf, ReadOf
    <3>4. NodesOf(U, T, g, n)
      BY <2>1, <2>2, <2>3, <2>4, <3>3, PrintedTree
    <3> QED
      BY <3>2, <3>4 DEF NodesOf
  <2>9. ASSUME NEW k \in 0..n-1
        PROVE  /\ Head(g[k]) \in DOMAIN T
               /\ DirIn(tree, Head(g[k])) <=> DirIn(T, Head(g[k]))
               /\ [Member(Head(g[k]), tree[Head(g[k])]) EXCEPT !.time = 0] =
                     [Member(Head(g[k]), T[Head(g[k])]) EXCEPT !.time = 0]
    <3>1. PICK p : p = Head(g[k])
      OBVIOUS
    <3>2. p \in DOMAIN T
      BY <2>3, <2>4, <3>1, WalkOver
    <3>3. Clean(p) = p /\ (T[p].type # "d" => T[p].dst = p)
      BY <2>3, <3>2, NodesFull
    <3>4. PICK e : e = T[p]
      OBVIOUS
    <3>5. tree[p] = Read(Line(p, e))
      BY <2>8, <3>1, <3>4
    <3>6. PICK r : r = Read(Line(p, e))
      OBVIOUS
    <3>7. /\ r.type = "d" <=> e.type = "d"
          /\ [Member(p, r) EXCEPT !.time = 0] = [Member(p, e) EXCEPT !.time = 0]
      <4>1. e.type # "d" => e.dst = p
        BY <3>3, <3>4
      <4>2. LET q == Read(Line(p, e)) IN
            /\ q.dst = p /\ (q.type = "d" <=> e.type = "d")
            /\ [Member(p, q) EXCEPT !.time = 0] = [Member(p, e) EXCEPT !.time = 0]
        BY <3>3, <4>1, ReadLine
      <4> QED
        BY <3>6, <4>2, Zenon
    <3> QED
      BY <3>1, <3>2, <3>4, <3>5, <3>6, <3>7, Zenon DEF DirIn
  <2>10. IsWalk(g, tree, n)
    <3>1. \A q \in DOMAIN tree : DirIn(tree, q) <=> DirIn(T, q)
      BY <2>8, <2>9
    <3> QED
      BY <2>3, <2>4, <2>8, <3>1, WalkSame
  <2>11. m = n /\ \A k \in 0..n : g[k] = h[k]
    <3>1. IsWalk(h, tree, m)
      BY <2>7 DEF Walked
    <3> QED
      BY <2>3, <2>7, <2>10, <3>1, WalkUnique
  <2>12. out = MembersOf(tree, h, n)
    <3>1. Top \notin DOMAIN tree
      BY <2>3, <2>8, <2>9
    <3> QED
      BY <2>7, <2>11, <3>1 DEF Walked, Writing
  <2>13. (\A k \in 1..n : k - 1 \in 0..n-1 /\ k - 1 \in 0..n)
    OBVIOUS
  <2>14. /\ DOMAIN out = 1..n /\ DOMAIN archive = 1..n
         /\ \A k \in 1..n : out[k] = Member(Head(g[k - 1]), tree[Head(g[k - 1])])
         /\ \A k \in 1..n : archive[k] = Member(Head(g[k - 1]), T[Head(g[k - 1])])
    BY <2>3, <2>11, <2>12, <2>13 DEF MembersOf
  <2>15. \A k \in 1..n : [out[k] EXCEPT !.time = 0] = [archive[k] EXCEPT !.time = 0]
    BY <2>9, <2>13, <2>14, Zenon
  <2> QED
    BY <2>14, <2>15, Zenon DEF Timeless
<1> QED
  BY <1>1, InvAlways, RerunAlways, PTL
=============================================================================
