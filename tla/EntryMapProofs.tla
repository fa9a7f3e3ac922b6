--------------------------- MODULE EntryMapProofs ---------------------------
(***************************************************************************)
(* Lemmas about EntryMap: the index stays right whatever is put.           *)
(***************************************************************************)
EXTENDS EntryMap, TLAPS

(* What stands in a list. *)
Values(s) == {s[i] : i \in DOMAIN s}

(* A map's list is a sequence and its index a function; nothing is said of
   the entries, so that the lemmas hold for every kind of entry. *)
IsMap(map) ==
    /\ map = [A |-> map.A, m |-> map.m]
    /\ map.A \in Seq(Values(map.A))
    /\ map.m = [d \in Dsts(map) |-> map.m[d]]

WellFormed(map) == IsMap(map) /\ Indexed(map)

(* A sequence is one over what stands in it. *)
LEMMA SeqOfValues ==
    ASSUME NEW S, NEW s \in Seq(S)
    PROVE  s \in Seq(Values(s))
<1>1. s \in [1..Len(s) -> S] /\ Len(s) \in Nat
  OBVIOUS
<1>2. s \in [1..Len(s) -> Values(s)]
  BY <1>1 DEF Values
<1> QED
  BY <1>1, <1>2

LEMMA EmptyWellFormed == WellFormed(EmptyMap)
BY DEF WellFormed, IsMap, Values, EmptyMap, Indexed, EntryOf, Dsts

(* Replacing at an indexed place keeps the list and the index in agreement. *)
LEMMA ReplaceWellFormed ==
    ASSUME NEW map, NEW e, WellFormed(map), e.dst \in Dsts(map)
    PROVE  WellFormed(PutEntry(map, e))
<1> DEFINE A == map.A
           m == map.m
           i0 == m[e.dst]
           B == [A EXCEPT ![i0] = e]
<1>1. A \in Seq(Values(A)) /\ DOMAIN A = 1..Len(A) /\ Len(A) \in Nat
  BY DEF WellFormed, IsMap
<1>2. i0 \in DOMAIN A /\ A[i0].dst = e.dst
  BY DEF WellFormed, Indexed, EntryOf
<1>3. PutEntry(map, e) = [A |-> B, m |-> m]
  BY DEF PutEntry, WellFormed, IsMap
<1>4. /\ B \in Seq(Values(A) \cup {e})
      /\ DOMAIN B = DOMAIN A
      /\ \A i \in DOMAIN A : B[i] = IF i = i0 THEN e ELSE A[i]
  BY <1>1, <1>2
<1>5. B \in Seq(Values(B))
  BY <1>4, SeqOfValues
<1>6. IsMap([A |-> B, m |-> m])
  BY <1>5 DEF WellFormed, IsMap, Dsts
<1>7. \A i \in DOMAIN B : B[i].dst = A[i].dst
  BY <1>2, <1>4
<1>8. Indexed([A |-> B, m |-> m])
  <2>1. \A d \in DOMAIN m : m[d] \in DOMAIN A /\ A[m[d]].dst = d
    BY DEF WellFormed, Indexed, EntryOf, Dsts
  <2>2. \A i \in DOMAIN A : A[i].dst \in DOMAIN m /\ m[A[i].dst] = i
    BY DEF WellFormed, Indexed, EntryOf, Dsts
  <2> HIDE DEF A, B, m
  <2> QED
    BY <1>4, <1>7, <2>1, <2>2 DEF Indexed, EntryOf, Dsts
<1> QED
  BY <1>3, <1>6, <1>8 DEF WellFormed

(* So does appending an entry of a new destination. *)
LEMMA AppendWellFormed ==
    ASSUME NEW map, NEW e, WellFormed(map), e.dst \notin Dsts(map)
    PROVE  WellFormed(PutEntry(map, e))
<1> DEFINE A == map.A
           m == map.m
           B == Append(A, e)
           n == [d \in DOMAIN m \cup {e.dst} |-> IF d = e.dst THEN Len(A) + 1 ELSE m[d]]
<1>1. A \in Seq(Values(A)) /\ DOMAIN A = 1..Len(A) /\ Len(A) \in Nat
  BY DEF WellFormed, IsMap
<1>2. PutEntry(map, e) = [A |-> B, m |-> n]
  BY DEF PutEntry, Dsts
<1>3. A \in Seq(Values(A) \cup {e}) /\ e \in Values(A) \cup {e}
  <2>1. A \in [1..Len(A) -> Values(A) \cup {e}]
    BY <1>1 DEF Values
  <2> QED
    BY <1>1, <2>1
<1>4. /\ B \in Seq(Values(A) \cup {e})
      /\ DOMAIN B = 1..Len(A)+1
      /\ \A i \in 1..Len(A) : B[i] = A[i]
      /\ B[Len(A)+1] = e
  <2> HIDE DEF A
  <2> QED
    BY <1>1, <1>3
<1>5. B \in Seq(Values(B))
  BY <1>4, SeqOfValues
<1>6. IsMap([A |-> B, m |-> n])
  BY <1>5 DEF IsMap, Dsts
<1>7. Indexed([A |-> B, m |-> n])
  <2>1. \A d \in DOMAIN m : m[d] \in 1..Len(A) /\ A[m[d]].dst = d
    BY <1>1 DEF WellFormed, Indexed, EntryOf, Dsts
  <2>2. \A i \in 1..Len(A) : A[i].dst \in DOMAIN m /\ m[A[i].dst] = i
    BY <1>1 DEF WellFormed, Indexed, EntryOf, Dsts
  <2>3. e.dst \notin DOMAIN m
    BY DEF Dsts
  <2>4. /\ DOMAIN n = DOMAIN m \cup {e.dst}
        /\ n[e.dst] = Len(A) + 1
        /\ \A d \in DOMAIN m : n[d] = m[d]
    BY <2>3
  <2> HIDE DEF A, B, m, n
  <2>5. \A d \in DOMAIN n : n[d] \in DOMAIN B /\ B[n[d]].dst = d
    BY <1>1, <1>4, <2>1, <2>4
  <2>6. \A i \in DOMAIN B : B[i].dst \in DOMAIN n /\ n[B[i].dst] = i
    BY <1>1, <1>4, <2>2, <2>3, <2>4
  <2> QED
    BY <2>5, <2>6 DEF Indexed, EntryOf, Dsts
<1> QED
  BY <1>2, <1>6, <1>7 DEF WellFormed

(* Add and the end of add keep every map well formed. *)
LEMMA PutWellFormed ==
    ASSUME NEW map, NEW e, WellFormed(map)
    PROVE  WellFormed(PutEntry(map, e))
BY ReplaceWellFormed, AppendWellFormed
=============================================================================
