---------------------------- MODULE DataInduction ----------------------------
(***************************************************************************)
(* Induction over the data of the models, without a predicate as a         *)
(* parameter: a set of numbers that holds 0 and the successor of each of   *)
(* its members holds all.  From it follow what Max and Min choose and what *)
(* the recursive functions behind FoldLeft and FlattenSeq are.             *)
(***************************************************************************)
EXTENDS SequencesExt, SequenceTheorems, WellFoundedInduction, TLAPS

(* Every set of numbers that is not empty has a least one. *)
LEMMA LeastNumber ==
    ASSUME NEW T, T \subseteq Nat, T # {}
    PROVE  \E x \in T : \A y \in T : x <= y
<1> DEFINE R == OpToRel(<, Nat)
<1>1. IsWellFoundedOn(R, Nat)
  BY NatLessThanWellFounded
<1>2. \E x \in T : \A y \in T : <<y, x>> \notin R
  <2> HIDE DEF R
  <2> QED
    BY <1>1, WFMin
<1>3. R = {ss \in Nat \X Nat : ss[1] < ss[2]}
  BY DEF OpToRel
<1>4. PICK x \in T : \A y \in T : ~(y < x)
  BY <1>2, <1>3
<1> QED
  BY <1>4

(* The principle of induction, for the set of the numbers that are good. *)
LEMMA SetInduction ==
    ASSUME NEW good, 0 \in good, \A n \in Nat : n \in good => n + 1 \in good
    PROVE  Nat \subseteq good
<1> DEFINE T == Nat \ good
<1>1. SUFFICES ASSUME T # {} PROVE FALSE
  OBVIOUS
<1>2. PICK x \in T : \A y \in T : x <= y
  BY <1>1, LeastNumber
<1>3. x # 0 /\ x - 1 \in Nat /\ x - 1 \notin T
  BY <1>2
<1> QED
  BY <1>3

(* Min and Max choose what their names say. *)
LEMMA MinIs ==
    ASSUME NEW S, S \subseteq Nat, S # {}
    PROVE  Min(S) \in S /\ \A y \in S : Min(S) <= y
<1>1. \E x \in S : \A y \in S : x <= y
  BY LeastNumber
<1> QED
  BY <1>1 DEF Min

LEMMA MaxIs ==
    ASSUME NEW n \in Nat, NEW S \in SUBSET (1..n), S # {}
    PROVE  Max(S) \in S /\ \A y \in S : Max(S) >= y
<1> DEFINE T == {n - k : k \in S}
<1>1. T # {}
  OBVIOUS
<1>2. ASSUME NEW t \in T PROVE t \in Nat
  OBVIOUS
<1>3. PICK x \in T : \A y \in T : x <= y
  <2> HIDE DEF T
  <2>1. T \subseteq Nat
    BY <1>2
  <2> QED
    BY <1>1, <2>1, LeastNumber
<1>4. PICK k \in S : x = n - k
  BY <1>3
<1>5. ASSUME NEW j \in S PROVE k >= j
  <2>1. n - j \in T
    OBVIOUS
  <2>2. x <= n - j /\ j \in Nat /\ k \in Nat
    BY <1>3, <2>1
  <2> QED
    BY <1>4, <2>2
<1> QED
  BY <1>5 DEF Max

LEMMA MaxLast ==
    ASSUME NEW n \in Nat, NEW S \in SUBSET (1..(n + 1)), n + 1 \in S
    PROVE  Max(S) = n + 1
<1>1. n + 1 \in Nat /\ S # {}
  OBVIOUS
<1>2. Max(S) \in S /\ \A y \in S : Max(S) >= y
  BY <1>1, MaxIs
<1>3. Max(S) \in 1..(n + 1) /\ Max(S) >= n + 1
  BY <1>2
<1> QED
  BY <1>3

-----------------------------------------------------------------------------
(* The function behind FlattenSeq, for the first n sequences. *)
IsFlatten(f, ss, n) ==
    f = [i \in 1..n |-> IF i = 1 THEN ss[i] ELSE f[i-1] \o ss[i]]

LEMMA FlattenExists ==
    ASSUME NEW ss, NEW n \in Nat
    PROVE  \E f : IsFlatten(f, ss, n)
<1> DEFINE good == {k \in Nat : \E f : IsFlatten(f, ss, k)}
<1>1. 0 \in good
  <2>1. IsFlatten(<<>>, ss, 0)
    BY DEF IsFlatten
  <2> QED
    BY <2>1
<1>2. ASSUME NEW k \in Nat, k \in good PROVE k + 1 \in good
  <2>1. PICK f : IsFlatten(f, ss, k)
    BY <1>2
  <2> DEFINE g == [i \in 1..(k + 1) |-> IF i \in 1..k THEN f[i]
                                        ELSE IF i = 1 THEN ss[i] ELSE f[i-1] \o ss[i]]
  <2>2. ASSUME NEW i \in 1..(k + 1)
        PROVE  g[i] = IF i = 1 THEN ss[i] ELSE g[i-1] \o ss[i]
    <3>1. CASE i \in 1..k
      <4>1. f[i] = IF i = 1 THEN ss[i] ELSE f[i-1] \o ss[i]
        BY <2>1, <3>1 DEF IsFlatten
      <4>2. i # 1 => i - 1 \in 1..k
        BY <3>1
      <4> QED
        BY <3>1, <4>1, <4>2
    <3>2. CASE i \notin 1..k
      <4>1. i # 1 => i - 1 \in 1..k
        BY <3>2
      <4> QED
        BY <3>2, <4>1
    <3> QED
      BY <3>1, <3>2
  <2>3. g = [i \in 1..(k + 1) |-> g[i]]
    OBVIOUS
  <2>4. IsFlatten(g, ss, k + 1)
    <3> HIDE DEF g
    <3> QED
      BY <2>2, <2>3 DEF IsFlatten
  <2>5. k + 1 \in Nat
    OBVIOUS
  <2> HIDE DEF g
  <2> QED
    BY <2>4, <2>5
<1>3. Nat \subseteq good
  <2> HIDE DEF good
  <2> QED
    BY <1>1, <1>2, SetInduction
<1> QED
  BY <1>3

(* A sequence of sequences over T, flattened, is a sequence over T. *)
LEMMA FlattenTyped ==
    ASSUME NEW T, NEW ss \in Seq(Seq(T))
    PROVE  FlattenSeq(ss) \in Seq(T)
<1>1. CASE Len(ss) = 0
  <2>1. ss = <<>>
    BY <1>1
  <2> QED
    BY <1>1, <2>1 DEF FlattenSeq
<1>2. CASE Len(ss) # 0
  <2> DEFINE n == Len(ss)
             flat == CHOOSE f : IsFlatten(f, ss, n)
             good == {k \in Nat : k \in 1..n => flat[k] \in Seq(T)}
  <2>1. n \in Nat /\ n # 0 /\ \A i \in 1..n : ss[i] \in Seq(T)
    BY <1>2
  <2>2. IsFlatten(flat, ss, n)
    BY <2>1, FlattenExists
  <2>3. FlattenSeq(ss) = flat[n]
    BY <1>2 DEF FlattenSeq, IsFlatten
  <2> HIDE DEF flat
  <2>4. 0 \in good
    BY <2>1
  <2>5. ASSUME NEW k \in Nat, k \in good PROVE k + 1 \in good
    <3>1. SUFFICES ASSUME k + 1 \in 1..n PROVE flat[k + 1] \in Seq(T)
      OBVIOUS
    <3>2. flat[k + 1] = IF k + 1 = 1 THEN ss[k + 1] ELSE flat[k] \o ss[k + 1]
      <4>1. (k + 1) - 1 = k
        OBVIOUS
      <4>2. \A i \in 1..n : flat[i] = IF i = 1 THEN ss[i] ELSE flat[i-1] \o ss[i]
        BY <2>2 DEF IsFlatten
      <4>3. flat[k + 1] = IF k + 1 = 1 THEN ss[k + 1] ELSE flat[(k + 1) - 1] \o ss[k + 1]
        BY <3>1, <4>2
      <4> QED
        BY <4>1, <4>3
    <3>3. CASE k = 0
      BY <2>1, <3>1, <3>2, <3>3
    <3>4. CASE k # 0
      <4>1. flat[k] \in Seq(T) /\ ss[k + 1] \in Seq(T)
        BY <2>1, <2>5, <3>1, <3>4
      <4>2. flat[k + 1] = flat[k] \o ss[k + 1]
        <5>1. k + 1 # 1
          BY <3>4
        <5> QED
          BY <3>2, <5>1
      <4> QED
        BY <4>1, <4>2
    <3> QED
      BY <3>3, <3>4
  <2>6. Nat \subseteq good
    <3> HIDE DEF good
    <3> QED
      BY <2>4, <2>5, SetInduction
  <2> QED
    BY <2>1, <2>3, <2>6
<1> QED
  BY <1>1, <1>2

(* And what stands in one of them stands in the flattened one. *)
LEMMA FlattenHas ==
    ASSUME NEW T, NEW ss \in Seq(Seq(T)), NEW i \in 1..Len(ss), NEW x \in Range(ss[i])
    PROVE  x \in Range(FlattenSeq(ss))
<1> DEFINE n == Len(ss)
           flat == CHOOSE f : IsFlatten(f, ss, n)
           good == {k \in Nat : k \in 1..n => /\ flat[k] \in Seq(T)
                                              /\ i <= k => x \in Range(flat[k])}
<1>1. n \in Nat /\ n # 0 /\ \A k \in 1..n : ss[k] \in Seq(T)
  OBVIOUS
<1>2. IsFlatten(flat, ss, n)
  BY <1>1, FlattenExists
<1>3. FlattenSeq(ss) = flat[n]
  BY <1>1 DEF FlattenSeq, IsFlatten
<1> HIDE DEF flat
<1>4. 0 \in good
  BY <1>1
<1>5. ASSUME NEW k \in Nat, k \in good PROVE k + 1 \in good
  <2>1. SUFFICES ASSUME k + 1 \in 1..n
                 PROVE  flat[k + 1] \in Seq(T) /\ (i <= k + 1 => x \in Range(flat[k + 1]))
    OBVIOUS
  <2>2. flat[k + 1] = IF k + 1 = 1 THEN ss[k + 1] ELSE flat[k] \o ss[k + 1]
    <3>1. (k + 1) - 1 = k
      OBVIOUS
    <3>2. \A j \in 1..n : flat[j] = IF j = 1 THEN ss[j] ELSE flat[j-1] \o ss[j]
      BY <1>2 DEF IsFlatten
    <3>3. flat[k + 1] = IF k + 1 = 1 THEN ss[k + 1] ELSE flat[(k + 1) - 1] \o ss[k + 1]
      BY <2>1, <3>2
    <3> QED
      BY <3>1, <3>3
  <2>3. CASE k = 0
    <3>1. flat[k + 1] = ss[k + 1] /\ k + 1 = 1 /\ (i <= k + 1 => i = k + 1)
      BY <2>2, <2>3
    <3>2. flat[k + 1] \in Seq(T)
      BY <1>1, <2>1, <3>1
    <3> QED
      BY <3>1, <3>2
  <2>4. CASE k # 0
    <3>1. flat[k] \in Seq(T) /\ ss[k + 1] \in Seq(T) /\ (i <= k => x \in Range(flat[k]))
      BY <1>1, <1>5, <2>1, <2>4
    <3>2. flat[k + 1] = flat[k] \o ss[k + 1]
      <4>1. k + 1 # 1
        BY <2>4
      <4> QED
        BY <2>2, <4>1
    <3>3. flat[k + 1] \in Seq(T)
      BY <3>1, <3>2
    <3>4. Range(flat[k + 1]) = Range(flat[k]) \cup Range(ss[k + 1])
      BY <3>1, <3>2, RangeConcatenation
    <3>5. i <= k + 1 => i <= k \/ i = k + 1
      OBVIOUS
    <3> QED
      BY <3>1, <3>3, <3>4, <3>5
  <2> QED
    BY <2>3, <2>4
<1>6. Nat \subseteq good
  <2> HIDE DEF good
  <2> QED
    BY <1>4, <1>5, SetInduction
<1>7. n \in good /\ n \in 1..n /\ i <= n
  BY <1>1, <1>6
<1> QED
  BY <1>3, <1>7
-----------------------------------------------------------------------------
(* The function of sets behind FoldLeft, for the step F over the first n
   members of s; what of it is needed when F is right in V alone; and the
   states that the steps go through. *)
IsFold(it, V, F, base, n, s) ==
    /\ it \in [SUBSET (1..n) -> V]
    /\ \A S \in SUBSET (1..n) :
          it[S] = IF S = {} THEN base ELSE F[<<it[S \ {Max(S)}], s[Max(S)]>>]
FoldsIn(it, V, F, base, n, s) ==
    /\ it[{}] = base
    /\ \A S \in SUBSET (1..n) : S # {} /\ it[S \ {Max(S)}] \in V =>
          it[S] = F[<<it[S \ {Max(S)}], s[Max(S)]>>]
IsRun(g, V, F, base, n, s) ==
    /\ g \in [0..n -> V] /\ g[0] = base
    /\ \A k \in 0..n-1 : g[k + 1] = F[<<g[k], s[k + 1]>>]
FoldReaches(x, V, F, base, n, s) == \E g : IsRun(g, V, F, base, n, s) /\ x = g[n]

(* There is one for a step that stays in V. *)
LEMMA FoldExists ==
    ASSUME NEW V, NEW D, NEW F \in [V \X D -> V], NEW base \in V,
           NEW n \in Nat, NEW s \in [1..n -> D]
    PROVE  \E it : IsFold(it, V, F, base, n, s)
<1> DEFINE Good(k) ==
        \E it \in [SUBSET (1..k) -> V] : \A S \in SUBSET (1..k) :
               it[S] = IF S = {} THEN base ELSE F[<<it[S \ {Max(S)}], s[Max(S)]>>]
           good == {k \in Nat : k <= n => Good(k)}
<1>1. 0 \in good
  <2> DEFINE it == [S \in SUBSET (1..0) |-> base]
  <2>1. it \in [SUBSET (1..0) -> V]
    OBVIOUS
  <2>2. \A S \in SUBSET (1..0) : S = {} /\ it[S] = base
    OBVIOUS
  <2>3. Good(0)
    <3> HIDE DEF it
    <3> QED
      BY <2>1, <2>2
  <2> QED
    BY <2>3
<1>2. ASSUME NEW k \in Nat, k \in good PROVE k + 1 \in good
  <2>1. SUFFICES ASSUME k + 1 <= n PROVE Good(k + 1)
    <3> HIDE DEF Good
    <3> QED
      OBVIOUS
  <2>a. Good(k)
    <3> HIDE DEF Good
    <3> QED
      BY <1>2, <2>1
  <2>2. PICK it \in [SUBSET (1..k) -> V] : \A S \in SUBSET (1..k) :
               it[S] = IF S = {} THEN base ELSE F[<<it[S \ {Max(S)}], s[Max(S)]>>]
    BY <2>a
  <2> DEFINE jt == [S \in SUBSET (1..(k + 1)) |->
                      IF k + 1 \in S THEN F[<<it[S \ {k + 1}], s[k + 1]>>] ELSE it[S]]
  <2>3. ASSUME NEW S \in SUBSET (1..(k + 1))
        PROVE  /\ S \ {k + 1} \in SUBSET (1..k)
               /\ k + 1 \notin S => S \in SUBSET (1..k)
    OBVIOUS
  <2>4. s[k + 1] \in D
    BY <2>1
  <2>5. jt \in [SUBSET (1..(k + 1)) -> V]
    <3>1. ASSUME NEW S \in SUBSET (1..(k + 1))
          PROVE  (IF k + 1 \in S THEN F[<<it[S \ {k + 1}], s[k + 1]>>] ELSE it[S]) \in V
      <4>1. CASE k + 1 \in S
        <5>1. it[S \ {k + 1}] \in V
          BY <2>3
        <5> QED
          BY <2>4, <4>1, <5>1
      <4>2. CASE k + 1 \notin S
        BY <2>3, <4>2
      <4> QED
        BY <4>1, <4>2
    <3> QED
      BY <3>1
  <2>6. ASSUME NEW S \in SUBSET (1..(k + 1))
        PROVE  jt[S] = IF S = {} THEN base ELSE F[<<jt[S \ {Max(S)}], s[Max(S)]>>]
    <3>1. CASE k + 1 \in S
      <4>1. Max(S) = k + 1
        BY <3>1, MaxLast
      <4>2. S \ {k + 1} \in SUBSET (1..(k + 1)) /\ k + 1 \notin S \ {k + 1}
        OBVIOUS
      <4>3. jt[S \ {k + 1}] = it[S \ {k + 1}]
        BY <4>2
      <4>4. jt[S] = F[<<it[S \ {k + 1}], s[k + 1]>>]
        BY <3>1
      <4> HIDE DEF jt
      <4> QED
        BY <3>1, <4>1, <4>3, <4>4
    <3>2. CASE k + 1 \notin S
      <4>1. S \in SUBSET (1..k) /\ jt[S] = it[S]
        BY <2>3, <3>2
      <4>2. S \ {Max(S)} \in SUBSET (1..(k + 1)) /\ k + 1 \notin S \ {Max(S)}
        BY <3>2
      <4>3. jt[S \ {Max(S)}] = it[S \ {Max(S)}]
        BY <4>2
      <4> HIDE DEF jt
      <4> QED
        BY <2>2, <4>1, <4>3
    <3> QED
      BY <3>1, <3>2
  <2> HIDE DEF jt
  <2> QED
    BY <2>5, <2>6
<1>3. n \in good
  <2> HIDE DEF good
  <2> QED
    BY <1>1, <1>2, SetInduction
<1>4. Good(n)
  <2> HIDE DEF Good
  <2> QED
    BY <1>3
<1> QED
  BY <1>4 DEF IsFold

(* What such a function makes of a whole sequence is where the run of its
   steps ends. *)
LEMMA FoldSteps ==
    ASSUME NEW V, NEW D, NEW F \in [V \X D -> V], NEW base \in V,
           NEW n \in Nat, NEW s \in [1..n -> D], NEW it, FoldsIn(it, V, F, base, n, s)
    PROVE  FoldReaches(it[1..n], V, F, base, n, s)
<1> DEFINE good == {k \in Nat : k <= n => it[1..k] \in V}
           g == [k \in 0..n |-> it[1..k]]
<1>1. 1..0 = {}
  OBVIOUS
<1>2. ASSUME NEW k \in Nat, k + 1 <= n, it[1..k] \in V
      PROVE  it[1..(k + 1)] = F[<<it[1..k], s[k + 1]>>] /\ s[k + 1] \in D
  <2>1. 1..(k + 1) \in SUBSET (1..(k + 1)) /\ 1..(k + 1) \in SUBSET (1..n) /\ k + 1 \in 1..(k + 1)
    BY <1>2
  <2>2. Max(1..(k + 1)) = k + 1
    BY <2>1, MaxLast
  <2>3. (1..(k + 1)) \ {k + 1} = 1..k
    OBVIOUS
  <2>4. 1..(k + 1) # {}
    BY <2>1
  <2>5. s[k + 1] \in D
    BY <1>2
  <2> QED
    BY <1>2, <2>1, <2>2, <2>3, <2>4, <2>5 DEF FoldsIn
<1>3. 0 \in good
  BY <1>1 DEF FoldsIn
<1>4. ASSUME NEW k \in Nat, k \in good PROVE k + 1 \in good
  <2>1. SUFFICES ASSUME k + 1 <= n PROVE it[1..(k + 1)] \in V
    OBVIOUS
  <2>2. it[1..k] \in V
    BY <1>4, <2>1
  <2>3. it[1..(k + 1)] = F[<<it[1..k], s[k + 1]>>] /\ s[k + 1] \in D
    BY <1>2, <2>1, <2>2
  <2> QED
    BY <2>2, <2>3
<1>5. \A k \in Nat : k <= n => it[1..k] \in V
  <2>1. Nat \subseteq good
    <3> HIDE DEF good
    <3> QED
      BY <1>3, <1>4, SetInduction
  <2> QED
    BY <2>1
<1>6. g \in [0..n -> V]
  BY <1>5
<1>7. g[0] = base /\ g[n] = it[1..n]
  BY <1>1 DEF FoldsIn
<1>8. ASSUME NEW k \in 0..n-1 PROVE g[k + 1] = F[<<g[k], s[k + 1]>>]
  <2>1. k \in Nat /\ k + 1 <= n
    OBVIOUS
  <2>2. it[1..(k + 1)] = F[<<it[1..k], s[k + 1]>>]
    BY <1>2, <1>5, <2>1
  <2>3. g[k + 1] = it[1..(k + 1)] /\ g[k] = it[1..k]
    BY <2>1
  <2> HIDE DEF g
  <2> QED
    BY <2>2, <2>3
<1> HIDE DEF g
<1> QED
  BY <1>6, <1>7, <1>8 DEF IsRun, FoldReaches
=============================================================================
