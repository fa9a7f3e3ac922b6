------------------------------ MODULE EntryMap ------------------------------
(***************************************************************************)
(* The entry list of a configuration: the pair (A, m) of config.Map in     *)
(* config/map.go.  A is the list of entries in archive order, m the index  *)
(* that says at which place of A the entry of a destination stands.        *)
(* Places are 1-based here, 0-based in the code.                           *)
(***************************************************************************)
EXTENDS Naturals, Sequences

(* config.Entry: the fields that say what is put where.  own stands for mode,
   user and group, lib for the library path a mask gives an ELF entry. *)
Entry == [type : STRING, src : STRING, dst : Seq(STRING), own : STRING,
          time : Nat, lib : STRING]

(* newMap: no entry, nothing indexed. *)
EmptyMap == [A |-> <<>>, m |-> << >>]

(* The destinations of the map. *)
Dsts(map) == DOMAIN map.m

(* The entry of destination d, for d in Dsts(map). *)
EntryOf(map, d) == map.A[map.m[d]]

(* The map as the dictionary it stands for. *)
Content(map) == [d \in Dsts(map) |-> EntryOf(map, d)]

(* Mutants of PutEntry: an index one too large, and an old entry that stays. *)
PutBeyond(map, e) ==
    IF e.dst \in Dsts(map)
    THEN [map EXCEPT !.A[map.m[e.dst]] = e]
    ELSE [A |-> Append(map.A, e),
          m |-> [d \in Dsts(map) \cup {e.dst} |->
                   IF d = e.dst THEN Len(map.A) + 2 ELSE map.m[d]]]
PutOnce(map, e) ==
    IF e.dst \in Dsts(map) THEN map
    ELSE [A |-> Append(map.A, e),
          m |-> [d \in Dsts(map) \cup {e.dst} |->
                   IF d = e.dst THEN Len(map.A) + 1 ELSE map.m[d]]]

(***************************************************************************)
(* The tail of (m *Map) add and of (m *Map) Add: an entry whose            *)
(* destination is taken replaces the old one at its place, any other is    *)
(* appended.                                                               *)
(***************************************************************************)
PutEntry(map, e) ==
    IF e.dst \in Dsts(map)
    THEN [map EXCEPT !.A[map.m[e.dst]] = e]
    ELSE [A |-> Append(map.A, e),
          m |-> [d \in Dsts(map) \cup {e.dst} |->
                   IF d = e.dst THEN Len(map.A) + 1 ELSE map.m[d]]]

(***************************************************************************)
(* The list and its index agree: every indexed place exists and holds an   *)
(* entry of that destination, and every entry is the one its destination   *)
(* is indexed at.  No two entries of A then share a destination, so the    *)
(* archive never holds an entry twice and a replacement never misses.      *)
(***************************************************************************)
Indexed(map) ==
    /\ \A d \in Dsts(map) : map.m[d] \in DOMAIN map.A /\ EntryOf(map, d).dst = d
    /\ \A i \in DOMAIN map.A : /\ map.A[i].dst \in Dsts(map)
                               /\ map.m[map.A[i].dst] = i
=============================================================================
