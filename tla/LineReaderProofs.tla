-------------------------- MODULE LineReaderProofs --------------------------
(***************************************************************************)
(* Theorems about LineReader, for all files, sets of -X and depths of the  *)
(* stack.                                                                  *)
(*                                                                         *)
(* In VariablesKept a value is looked up in the replacer, which finds the  *)
(* first of a name; what it says rests on the replacer having each         *)
(* variable once, with the value it has in the map.                        *)
(***************************************************************************)
EXTENDS LineReader, DataInduction, FiniteSetTheorems

(* The replacer r has the variables vs, each once and with its value. *)
Lists(r, vs) ==
    /\ Len(r) \in Nat
    /\ \A i \in 1..Len(r) : /\ r[i].name \in DOMAIN vs
                            /\ r[i].value = vs[r[i].name].value
    /\ \A name \in DOMAIN vs : \E i \in 1..Len(r) : r[i].name = name
    /\ \A i, j \in 1..Len(r) : r[i].name = r[j].name => i = j

VarsInv ==
    /\ IsFiniteSet(DOMAIN vars)
    /\ Lists(replacer, vars)

(* The one of a set of one number. *)
LEMMA MinOfOne ==
    ASSUME NEW i \in Nat
    PROVE  Min({i}) = i
<1>1. Min({i}) \in {i}
  BY MinIs
<1> QED
  BY <1>1

(* A replacer puts for each variable the value that the map has. *)
LEMMA ValueListed ==
    ASSUME NEW r, NEW vs, Lists(r, vs), NEW name \in DOMAIN vs
    PROVE  ValueIn(r, name) = vs[name].value
<1>1. PICK i \in 1..Len(r) : r[i].name = name
  BY DEF Lists
<1>2. {k \in 1..Len(r) : r[k].name = name} = {i}
  <2>1. \A k \in 1..Len(r) : r[k].name = name => k = i
    BY <1>1, Zenon DEF Lists
  <2> QED
    BY <1>1, <2>1
<1>3. i \in Nat /\ i # 0 /\ Min({i}) = i
  <2>1. i \in Nat /\ i # 0
    BY <1>1 DEF Lists
  <2> QED
    BY <2>1, MinOfOne
<1>4. SelectInSeq(r, LAMBDA x : x.name = name) = i
  BY <1>2, <1>3 DEF SelectInSeq
<1> QED
  BY <1>1, <1>3, <1>4 DEF ValueIn, Lists

(* A replacer that is built from a map, in whatever order, has its variables. *)
LEMMA BuiltLists ==
    ASSUME NEW vs, IsFiniteSet(DOMAIN vs), NEW order \in SetToSeqs(DOMAIN vs)
    PROVE  Lists([i \in DOMAIN order |-> [name |-> order[i], value |-> vs[order[i]].value]], vs)
<1> DEFINE S == DOMAIN vs
           l == Cardinality(S)
           r == [i \in DOMAIN order |-> [name |-> order[i], value |-> vs[order[i]].value]]
<1>1. l \in Nat
  BY FS_CardinalityType
<1>2. order \in [1..l -> S] /\ \A i, j \in 1..l : i # j => order[i] # order[j]
  BY DEF SetToSeqs
<1>3. Len(r) = l
  BY <1>1, <1>2
<1>4. order \in Injection(1..l, S)
  BY <1>2 DEF Injection, IsInjective
<1>5. order \in Surjection(1..l, S)
  <2>1. IsFiniteSet(1..l) /\ Cardinality(1..l) = l
    BY <1>1, FS_Interval
  <2> QED
    BY <1>4, <2>1, FS_Injection
<1>6. \A name \in S : \E i \in 1..l : order[i] = name
  BY <1>5 DEF Surjection
<1> QED
  BY <1>1, <1>2, <1>3, <1>6 DEF Lists

-----------------------------------------------------------------------------
(* What a step does to the variables: nothing, unless it is one of add for a
   line $ of a variable that -X has not set. *)
Defines(f) ==
    /\ pc = "add" /\ e' = f /\ f[1] = <<"$">> /\ ~Pinned(f) /\ Define(f)

(* So it is with every step. *)
LEMMA VarsStep ==
    ASSUME [Next]_allvars
    PROVE  UNCHANGED <<vars, replacer>> \/ Defines(ReplaceFields(replacer, e))
<1>1. CASE Add
  <2> DEFINE f == ReplaceFields(replacer, e)
  <2>1. CASE Len(calls) < MaxDepth
    <3>1. pc = "add" /\ AddWith(f)
      BY <1>1, <2>1 DEF Add
    <3> HIDE DEF f
    <3>2. e' = f
      BY <3>1 DEF AddWith
    <3>3. UNCHANGED <<vars, replacer>> \/ (f[1] = <<"$">> /\ Define(f))
      BY <3>1 DEF AddWith
    <3>4. Pinned(f) /\ Define(f) => UNCHANGED <<vars, replacer>>
      BY DEF Define
    <3>5. UNCHANGED <<vars, replacer>> \/ Defines(f)
      BY <3>1, <3>2, <3>3, <3>4, Zenon DEF Defines
    <3> QED
      BY <3>5 DEF f
  <2>2. CASE ~(Len(calls) < MaxDepth)
    BY <1>1, <2>2 DEF Add, evars
  <2> QED
    BY <2>1, <2>2
<1>2. CASE NextPart \/ PartsDone
  BY <1>2 DEF NextPart, PartsDone
<1>3. CASE ScanLine \/ JoinLine \/ HereLine
  BY <1>3 DEF ScanLine, JoinLine, HereLine
<1>4. CASE ScanEnds \/ ReadError \/ Rejected \/ Terminated
  BY <1>4 DEF ScanEnds, ReadError, Rejected, Terminated, evars, allvars
<1>5. CASE JoinEnds \/ HereEnds
  BY <1>5 DEF JoinEnds, HereEnds
<1>6. CASE UNCHANGED allvars
  BY <1>6 DEF allvars, evars
<1> QED
  BY <1>1, <1>2, <1>3, <1>4, <1>5, <1>6 DEF Next, Expanding

(* A $ line gives its variable a value and leaves the others theirs, and the
   replacer is built from the map. *)
LEMMA DefineLists ==
    ASSUME VarsInv, NEW f, ~Pinned(f), Define(f)
    PROVE  /\ DOMAIN vars' = DOMAIN vars \cup {f[2]}
           /\ \A name \in DOMAIN vars : name # f[2] => vars'[name] = vars[name]
           /\ VarsInv'
<1> DEFINE new == [value |-> IF Len(f) > 2 THEN f[3] ELSE <<>>, flag |-> FALSE]
<1>1. vars' = [name \in DOMAIN vars \cup {f[2]} |-> IF name # f[2] THEN vars[name] ELSE new]
  BY Zenon DEF Define
<1>2. PICK order \in SetToSeqs(DOMAIN vars') :
        replacer' = [i \in DOMAIN order |-> [name |-> order[i], value |-> vars'[order[i]].value]]
  BY Zenon DEF Define
<1> HIDE DEF new
<1>3. DOMAIN vars' = DOMAIN vars \cup {f[2]}
  BY <1>1
<1>4. \A name \in DOMAIN vars : name # f[2] => vars'[name] = vars[name]
  BY <1>1
<1>5. IsFiniteSet(DOMAIN vars')
  BY <1>3, FS_AddElement DEF VarsInv
<1>6. Lists(replacer', vars')
  BY <1>2, <1>5, BuiltLists
<1> QED
  BY <1>3, <1>4, <1>5, <1>6 DEF VarsInv

(* newVariableMap builds both from -X. *)
LEMMA VarsInit ==
    ASSUME ExpansionAssumption, FlagsOnce, Init
    PROVE  VarsInv
<1>1. PICK flags \in Flags :
        /\ vars = [name \in {flags[i].name : i \in DOMAIN flags} |->
                     [value |-> flags[SelectLastInSeq(flags, LAMBDA x : x.name = name)].value,
                      flag |-> TRUE]]
        /\ replacer = flags
  BY DEF Init, InitExpansion
<1>2. flags \in Seq([name : Texts, value : Texts])
  BY DEF ExpansionAssumption
<1> DEFINE names == {flags[i].name : i \in DOMAIN flags}
           l == Len(flags)
<1>3. DOMAIN flags = 1..l /\ l \in Nat
  BY <1>2
<1>4. \A i, j \in 1..l : flags[i].name = flags[j].name => i = j
  <2> DEFINE name == [i \in DOMAIN flags |-> flags[i].name]
  <2>1. IsInjective(name)
    BY DEF FlagsOnce
  <2> QED
    BY <2>1, <1>3 DEF IsInjective
<1>5. DOMAIN vars = names
  BY <1>1
<1>6. ASSUME NEW i \in 1..l
      PROVE  flags[i].name \in names /\ flags[i].value = vars[flags[i].name].value
  <2> DEFINE at == SelectLastInSeq(flags, LAMBDA x : x.name = flags[i].name)
  <2>1. {k \in 1..Len(flags) : flags[k].name = flags[i].name} = {i}
    BY <1>4
  <2>2. i \in 1..l /\ {i} \in SUBSET (1..l) /\ {i} # {}
    OBVIOUS
  <2>3. Max({i}) \in {i}
    BY <1>3, <2>2, MaxIs
  <2>4. at = i
    BY <2>1, <2>3 DEF SelectLastInSeq
  <2>5. flags[i].name \in names
    BY <1>3
  <2>6. vars[flags[i].name] = [value |-> flags[at].value, flag |-> TRUE]
    BY <1>1, <2>5
  <2> QED
    BY <2>4, <2>5, <2>6
<1>7. IsFiniteSet(names)
  <2>1. [i \in 1..l |-> flags[i].name] \in Surjection(1..l, names)
    BY <1>3 DEF Surjection
  <2>2. IsFiniteSet(1..l)
    BY <1>3, FS_Interval
  <2> QED
    BY <2>1, <2>2, FS_Surjection
<1> HIDE DEF l
<1>8. Lists(flags, vars)
  BY <1>3, <1>4, <1>5, <1>6 DEF Lists, l
<1> QED
  BY <1>1, <1>5, <1>7, <1>8 DEF VarsInv

(* So they always agree. *)
LEMMA VarsNext ==
    ASSUME VarsInv, [Next]_allvars
    PROVE  VarsInv'
<1>1. CASE UNCHANGED <<vars, replacer>>
  BY <1>1 DEF VarsInv, Lists
<1>2. CASE Defines(ReplaceFields(replacer, e))
  BY <1>2, DefineLists DEF Defines
<1> QED
  BY <1>1, <1>2, VarsStep

(* What the steps of a file change of what is put for a variable. *)
Kept ==
    \A name \in DOMAIN vars' :
        ValueIn(replacer', name) # ValueIn(replacer, name) =>
            /\ pc = "add" /\ e'[1] = <<"$">> /\ e'[2] = name
            /\ name \in DOMAIN vars => ~vars[name].flag

(* A step changes what is put for a variable only as VariablesKept says. *)
LEMMA KeptByStep ==
    ASSUME VarsInv, [Next]_allvars
    PROVE  Kept
<1>1. CASE UNCHANGED <<vars, replacer>>
  BY <1>1 DEF Kept
<1>2. CASE Defines(ReplaceFields(replacer, e))
  <2>1. PICK f : Defines(f)
    BY <1>2
  <2>2. /\ DOMAIN vars' = DOMAIN vars \cup {f[2]}
        /\ \A name \in DOMAIN vars : name # f[2] => vars'[name] = vars[name]
        /\ VarsInv'
    BY <2>1, DefineLists DEF Defines
  <2>3. ASSUME NEW name \in DOMAIN vars', name # f[2]
        PROVE  ValueIn(replacer', name) = ValueIn(replacer, name)
    <3>1. name \in DOMAIN vars /\ vars'[name] = vars[name]
      BY <2>2, <2>3
    <3>2. ValueIn(replacer, name) = vars[name].value
      BY <3>1, ValueListed DEF VarsInv
    <3>3. ValueIn(replacer', name) = vars'[name].value
      BY <2>2, ValueListed DEF VarsInv
    <3> QED
      BY <3>1, <3>2, <3>3
  <2>4. pc = "add" /\ e'[1] = <<"$">> /\ e'[2] = f[2]
        /\ (f[2] \in DOMAIN vars => ~vars[f[2]].flag)
    BY <2>1 DEF Defines, Pinned
  <2> QED
    BY <2>3, <2>4 DEF Kept
<1> QED
  BY <1>1, <1>2, VarsStep

(* Whatever lines a file has and in whatever order the replacer is built from
   the map, a $ line changes what is put for its own variable alone, and never
   for one of -X, if -X names each once. *)
THEOREM LinesKeepVariables ==
    ASSUME FlagsOnce
    PROVE  Spec => VariablesKept
<1> USE ExpansionAssumption
<1>1. Init => VarsInv
  BY VarsInit
<1>2. VarsInv /\ [Next]_allvars => VarsInv'
  BY VarsNext
<1>3. VarsInv /\ [Next]_allvars => [Kept]_allvars
  BY KeptByStep
<1> QED
  BY <1>1, <1>2, <1>3, PTL DEF Spec, VariablesKept, Kept
-----------------------------------------------------------------------------
(* The fields of a line, whatever they are. *)
IsSeq(f) == f \in Seq(Range(f))

(* A sequence over any set is one. *)
LEMMA SeqIs ==
    ASSUME NEW T, NEW f \in Seq(T)
    PROVE  IsSeq(f) /\ DOMAIN f = 1..Len(f) /\ Len(f) \in Nat
<1>1. DOMAIN f = 1..Len(f) /\ Len(f) \in Nat
  OBVIOUS
<1>2. \A i \in 1..Len(f) : f[i] \in Range(f)
  BY <1>1 DEF Range
<1>3. f = [i \in 1..Len(f) |-> f[i]]
  OBVIOUS
<1> DEFINE l == Len(f)
<1>4. [i \in 1..l |-> f[i]] \in Seq(Range(f))
  <2> HIDE DEF l
  <2> QED
    BY <1>1, <1>2 DEF l
<1> QED
  BY <1>1, <1>3, <1>4 DEF IsSeq

(* A sequence is still one when a place is written, joined or behind another. *)
LEMMA SeqExcept ==
    ASSUME NEW f, IsSeq(f), NEW i, NEW x
    PROVE  IsSeq([f EXCEPT ![i] = x]) /\ Len([f EXCEPT ![i] = x]) = Len(f)
<1> DEFINE T == Range(f) \cup {x}
           g == [f EXCEPT ![i] = x]
<1>1. f \in Seq(T)
  <2>1. ASSUME NEW S, NEW U, S \subseteq U, NEW s \in Seq(S) PROVE s \in Seq(U)
    BY <2>1
  <2>2. Range(f) \subseteq T
    OBVIOUS
  <2> QED
    BY <2>1, <2>2, Zenon DEF IsSeq
<1>2. g \in Seq(T) /\ Len(g) = Len(f)
  <2>1. x \in T
    OBVIOUS
  <2> HIDE DEF T
  <2>2. CASE i \in DOMAIN f
    BY <1>1, <2>1, <2>2
  <2>3. CASE i \notin DOMAIN f
    <3>1. g = f
      BY <1>1, <2>3
    <3> QED
      BY <1>1, <3>1
  <2> QED
    BY <2>2, <2>3
<1> QED
  BY <1>2, SeqIs

(* So are two of them, one behind the other. *)
LEMMA SeqJoined ==
    ASSUME NEW f, IsSeq(f), NEW g, IsSeq(g)
    PROVE  IsSeq(f \o g) /\ Len(f \o g) = Len(f) + Len(g)
<1> DEFINE T == Range(f) \cup Range(g)
<1>1. ASSUME NEW S, NEW U, S \subseteq U, NEW s \in Seq(S) PROVE s \in Seq(U)
  BY <1>1
<1>2. f \in Seq(T) /\ g \in Seq(T)
  <2>1. Range(f) \subseteq T /\ Range(g) \subseteq T
    OBVIOUS
  <2> QED
    BY <1>1, <2>1, Zenon DEF IsSeq
<1>3. f \o g \in Seq(T) /\ Len(f \o g) = Len(f) + Len(g)
  <2> HIDE DEF T
  <2> QED
    BY <1>2
<1> QED
  BY <1>3, SeqIs

(* So is what is left without the first. *)
LEMMA SeqTail ==
    ASSUME NEW f, IsSeq(f), f # <<>>
    PROVE  IsSeq(Tail(f)) /\ Len(Tail(f)) = Len(f) - 1 /\ Len(f) >= 1
<1>1. Tail(f) \in Seq(Range(f)) /\ Len(Tail(f)) = Len(f) - 1 /\ Len(f) >= 1
  BY DEF IsSeq
<1> QED
  BY <1>1, SeqIs

(* And one field. *)
LEMMA SeqOne ==
    ASSUME NEW x
    PROVE  IsSeq(<<x>>) /\ Len(<<x>>) = 1
<1>1. <<x>> \in Seq({x})
  OBVIOUS
<1> QED
  BY <1>1, SeqIs

(* Blanks are trimmed from a text. *)
LEMMA TrimTyped ==
    ASSUME NEW T, NEW s \in Seq(T)
    PROVE  Trim(s) \in Seq(T)
<1>1. ASSUME NEW t \in Seq(T), NEW k \in Nat \ {0}, NEW l \in 0..Len(t)
      PROVE  SubSeq(t, k, l) \in Seq(T)
  OBVIOUS
<1>2. PICK none : none = ""
  OBVIOUS
<1> DEFINE a == Append(s, none)
           I == {i \in 1..Len(a) : a[i] \notin Blanks}
           k == SelectInSeq(a, LAMBDA c : c \notin Blanks)
<1>3. Len(a) = Len(s) + 1 /\ a[Len(a)] = none /\ Len(s) \in Nat
  <2>1. ASSUME NEW U, NEW u \in Seq(U), NEW x \in U
        PROVE  Len(Append(u, x)) = Len(u) + 1 /\ Append(u, x)[Len(u) + 1] = x
    OBVIOUS
  <2> DEFINE U == T \cup {none}
  <2>2. s \in Seq(U) /\ none \in U /\ Len(s) \in Nat
    OBVIOUS
  <2>3. Len(a) = Len(s) + 1 /\ a[Len(s) + 1] = none
    <3> HIDE DEF U
    <3> QED
      BY <2>1, <2>2, Zenon
  <2> QED
    BY <2>2, <2>3
<1>4. Len(a) \in I
  <2>1. none \notin Blanks
    BY <1>2 DEF Blanks
  <2> HIDE DEF a
  <2> QED
    BY <1>3, <2>1
<1>5. I \subseteq 1..Len(a)
  OBVIOUS
<1>6. Min(I) \in I
  <2> HIDE DEF I, a
  <2>1. I \subseteq Nat /\ I # {}
    BY <1>3, <1>4, <1>5
  <2> QED
    BY <2>1, MinIs, Zenon
<1>7. k = Min(I)
  BY <1>4 DEF SelectInSeq
<1>8. k \in Nat \ {0} /\ Len(s) \in 0..Len(s)
  <2> HIDE DEF I, k, a
  <2>1. k \in 1..Len(a)
    BY <1>5, <1>6, <1>7, Zenon
  <2> QED
    BY <1>3, <2>1
<1>9. TrimLeft(s) = SubSeq(s, k, Len(s))
  BY <1>2 DEF TrimLeft
<1>10. TrimLeft(s) \in Seq(T)
  <2> HIDE DEF k
  <2> QED
    BY <1>1, <1>8, <1>9
<1> HIDE DEF k, I, a
<1> DEFINE t == TrimLeft(s)
           J == {i \in 1..Len(t) : t[i] \notin Blanks}
           m == SelectLastInSeq(t, LAMBDA c : c \notin Blanks)
<1>11. Len(t) \in Nat
  BY <1>10
<1>12. J # {} => Max(J) \in J
  BY <1>11, MaxIs
<1>13. m = IF J # {} THEN Max(J) ELSE 0
  BY DEF SelectLastInSeq
<1>14. m \in 0..Len(t)
  BY <1>11, <1>12, <1>13
<1>15. Trim(s) = SubSeq(t, 1, m)
  BY DEF Trim
<1> HIDE DEF m, t, J
<1>16. SubSeq(t, 1, m) \in Seq(T)
  BY <1>1, <1>10, <1>14 DEF t
<1> QED
  BY <1>15, <1>16

(* The places that CutStep goes through, and what it has cut off. *)
Cuts(s, T, pass) ==
    [ret : Seq(Seq(T)), from : 0..Len(s), end : BOOLEAN, prev : T \cup {pass.prev}]

(* CutStep cuts the text at its own places. *)
LEMMA CutStepTyped ==
    ASSUME NEW T, NEW s \in Seq(T), NEW max, NEW pass,
           NEW st \in Cuts(s, T, pass), NEW k \in 1..Len(s)
    PROVE  CutStep(s, max, pass.c, st, k) \in Cuts(s, T, pass)
<1> DEFINE on == [st EXCEPT !.prev = s[k]]
           cut == SubSeq(s, st.from, k - 1)
           sep == IsSep(st.prev, s[k])
<1>1. s[k] \in T /\ Len(s) \in Nat
  OBVIOUS
<1>2. [st EXCEPT !.from = k, !.end = TRUE] \in Cuts(s, T, pass)
  <2>1. PICK yes \in BOOLEAN : yes = TRUE
    OBVIOUS
  <2>2. [st EXCEPT !.from = k, !.end = yes] \in Cuts(s, T, pass)
    <3>1. k \in 0..Len(s)
      BY <1>1
    <3> QED
      BY <3>1 DEF Cuts
  <2> QED
    BY <2>1, <2>2
<1>3. on \in Cuts(s, T, pass) /\ on.from = st.from /\ on.ret = st.ret
  BY <1>1 DEF Cuts
<1> HIDE DEF on
<1>4. [on EXCEPT !.from = k] \in Cuts(s, T, pass)
  <2>1. k \in 0..Len(s)
    BY <1>1
  <2> QED
    BY <1>3, <2>1 DEF Cuts
<1>5. st.from > 0 => cut \in Seq(T)
  BY <1>1 DEF Cuts
<1> HIDE DEF cut
<1>6. st.from > 0 => [on EXCEPT !.ret = Append(@, cut), !.from = 0] \in Cuts(s, T, pass)
  <2>1. st.from > 0 => Append(on.ret, cut) \in Seq(Seq(T))
    BY <1>3, <1>5 DEF Cuts
  <2>2. 0 \in 0..Len(s)
    BY <1>1
  <2> QED
    BY <1>3, <2>1, <2>2 DEF Cuts
<1>7. CutStep(s, max, pass.c, st, k) \in
        {st, [st EXCEPT !.from = k, !.end = TRUE], on, [on EXCEPT !.from = k]}
      \/ /\ st.from > 0
         /\ CutStep(s, max, pass.c, st, k) = [on EXCEPT !.ret = Append(@, cut), !.from = 0]
  BY Zenon DEF CutStep, on, cut
<1> QED
  BY <1>2, <1>3, <1>4, <1>6, <1>7

(* Whatever the first pass counted, the second cuts a text into texts. *)
LEMMA FieldsTyped ==
    ASSUME NEW T, NEW s \in Seq(T), NEW max
    PROVE  FieldsFuncN(s, max) \in Seq(Seq(T))
<1> DEFINE pass == CountFields(s, max)
<1> HIDE DEF pass
<1> DEFINE V == Cuts(s, T, pass)
           l == Len(s)
           places == [k \in 1..l |-> k]
           base == [ret |-> <<>>, from |-> 0, end |-> FALSE, prev |-> pass.prev]
           IsIt(it) == it = [S \in SUBSET DOMAIN places |->
                               IF S = {} THEN base
                               ELSE CutStep(s, max, pass.c, it[S \ {Max(S)}], places[Max(S)])]
           it == CHOOSE f : IsIt(f)
<1>1. l \in Nat /\ places \in [1..l -> 1..l] /\ DOMAIN places = 1..l
  OBVIOUS
<1>2. base \in V
  <2>1. PICK no \in BOOLEAN : no = FALSE
    OBVIOUS
  <2>2. [ret |-> <<>>, from |-> 0, end |-> no, prev |-> pass.prev] \in V
    BY <1>1 DEF Cuts
  <2> QED
    BY <2>1, <2>2
<1> HIDE DEF V, base, l, places
<1>3. PICK F : F = [x \in V \X (1..l) |-> CutStep(s, max, pass.c, x[1], x[2])]
  OBVIOUS
<1>4. ASSUME NEW st \in V, NEW k \in 1..l
      PROVE  F[<<st, k>>] = CutStep(s, max, pass.c, st, k)
  BY <1>3
<1>5. F \in [V \X (1..l) -> V]
  <2>1. ASSUME NEW x \in V \X (1..l) PROVE CutStep(s, max, pass.c, x[1], x[2]) \in V
    BY CutStepTyped DEF V, l
  <2> QED
    BY <1>3, <2>1
<1>6. \A S \in SUBSET (1..l) : S # {} => Max(S) \in 1..l /\ S \ {Max(S)} \in SUBSET (1..l)
  BY <1>1, MaxIs
<1>7. PICK f : IsFold(f, V, F, base, l, places)
  BY <1>1, <1>2, <1>5, FoldExists, Zenon
<1>8. IsIt(f)
  <2>1. ASSUME NEW S \in SUBSET (1..l)
        PROVE  f[S] = IF S = {} THEN base
                      ELSE CutStep(s, max, pass.c, f[S \ {Max(S)}], places[Max(S)])
    BY <1>1, <1>4, <1>6, <1>7 DEF IsFold
  <2>2. f = [S \in SUBSET (1..l) |-> f[S]]
    BY <1>7 DEF IsFold
  <2> QED
    BY <1>1, <2>1, <2>2
<1>9. IsIt(it)
  BY <1>8
<1>10. FoldLeft(LAMBDA r, k : CutStep(s, max, pass.c, r, k), base, places) = it[DOMAIN places]
  BY DEF FoldLeft, MapThenFoldSet
<1> HIDE DEF it
<1>11. FoldsIn(it, V, F, base, l, places)
  <2>1. \A S \in SUBSET (1..l) :
            it[S] = IF S = {} THEN base
                    ELSE CutStep(s, max, pass.c, it[S \ {Max(S)}], places[Max(S)])
    BY <1>1, <1>9
  <2> QED
    BY <1>1, <1>4, <1>6, <2>1 DEF FoldsIn
<1>12. FoldReaches(it[1..l], V, F, base, l, places)
  <2>1. l \in Nat /\ base \in V /\ places \in [1..l -> 1..l]
    BY <1>1, <1>2
  <2> QED
    BY <1>5, <1>11, <2>1, FoldSteps, Zenon
<1>13. it[1..l] \in V
  BY <1>1, <1>12 DEF FoldReaches, IsRun
<1> DEFINE end == FoldLeft(LAMBDA r, k : CutStep(s, max, pass.c, r, k), base, places)
<1>14. end \in V
  BY <1>1, <1>10, <1>13
<1>15. FieldsFuncN(s, max) =
         IF end.from > 0 THEN Append(end.ret, SubSeq(s, end.from, Len(s))) ELSE end.ret
  BY Zenon DEF FieldsFuncN, CutFields, base, places, l, pass
<1> HIDE DEF end
<1> QED
  BY <1>14, <1>15 DEF V, Cuts

(* A text with no $ stays the same. *)
LEMMA ReplaceNone ==
    ASSUME NEW r
    PROVE  Replace(r, <<"m", "c">>) = <<"m", "c">>
<1> DEFINE text == <<"m", "c">>
           here(i) == SelectInSeq(r, LAMBDA x : text[i] = "$" /\ IsPrefix(x.name, SubSeq(text, i + 1, Len(text))))
           Step(f, i) == IF i > Len(text) THEN <<>>
                         ELSE IF here(i) = 0 THEN <<text[i]>> \o f[i + 1]
                         ELSE r[here(i)].value \o f[i + 1 + Len(r[here(i)].name)]
           IsIt(f) == f = [i \in 1..Len(text) + 1 |-> Step(f, i)]
           it == CHOOSE f : IsIt(f)
<1>1. Len(text) = 2 /\ text[1] = "m" /\ text[2] = "c"
  OBVIOUS
<1>2. ASSUME NEW i \in {1, 2} PROVE here(i) = 0
  <2>1. text[i] # "$"
    BY <1>1
  <2> HIDE DEF text
  <2> QED
    BY <2>1 DEF SelectInSeq
<1>3. Replace(r, text) = it[1]
  BY DEF Replace
<1>4. ASSUME NEW f
      PROVE  Step(f, 3) = <<>> /\ Step(f, 2) = <<"c">> \o f[3] /\ Step(f, 1) = <<"m">> \o f[2]
  <2> HIDE DEF here, text
  <2>1. here(1) = 0 /\ here(2) = 0
    BY <1>2
  <2>2. Step(f, 3) = <<>>
    BY <1>1
  <2>3. Step(f, 2) = <<text[2]>> \o f[3]
    BY <1>1, <2>1
  <2>4. Step(f, 1) = <<text[1]>> \o f[2]
    BY <1>1, <2>1
  <2> QED
    BY <1>1, <2>2, <2>3, <2>4
<1> HIDE DEF here, text, Step
<1>5. 1..Len(text) + 1 = {1, 2, 3}
  BY <1>1
<1>6. \E f : IsIt(f)
  <2>1. PICK one, two : one = <<"m">> \o two /\ two = <<"c">> \o <<>>
    OBVIOUS
  <2> DEFINE f == [i \in {1, 2, 3} |-> IF i = 3 THEN <<>> ELSE IF i = 2 THEN two ELSE one]
  <2>2. f[3] = <<>> /\ f[2] = two /\ f[1] = one
    OBVIOUS
  <2>3. f = [i \in {1, 2, 3} |-> f[i]]
    OBVIOUS
  <2> HIDE DEF f
  <2>4. Step(f, 1) = f[1] /\ Step(f, 2) = f[2] /\ Step(f, 3) = f[3]
    BY <1>4, <2>1, <2>2
  <2>5. IsIt(f)
    BY <1>5, <2>3, <2>4
  <2> QED
    BY <2>5
<1>7. IsIt(it)
  BY <1>6
<1> HIDE DEF it
<1>8. it[1] = Step(it, 1) /\ it[2] = Step(it, 2) /\ it[3] = Step(it, 3)
  BY <1>5, <1>7
<1>9. it[3] = <<>> /\ it[2] = <<"c">> \o <<>> /\ it[1] = <<"m">> \o it[2]
  BY <1>4, <1>8
<1>10. <<"m">> \o (<<"c">> \o <<>>) = <<"m", "c">>
  <2>1. ASSUME NEW x, NEW y PROVE <<x>> \o (<<y>> \o <<>>) = <<x, y>>
    <3>1. <<y>> \o <<>> = <<y>>
      OBVIOUS
    <3>2. <<x>> \o <<y>> = <<x, y>>
      <4> DEFINE a == <<x>> \o <<y>>
                 b == <<x, y>>
      <4>1. a \in Seq({x, y}) /\ Len(a) = 2 /\ a[1] = x /\ a[2] = y
        OBVIOUS
      <4>2. b \in Seq({x, y}) /\ Len(b) = 2 /\ b[1] = x /\ b[2] = y
        OBVIOUS
      <4> HIDE DEF a, b
      <4>3. \A i \in 1..Len(a) : a[i] = b[i]
        <5>1. 1..Len(a) = {1, 2}
          BY <4>1
        <5> QED
          BY <4>1, <4>2, <5>1
      <4>4. Len(a) = Len(b)
        BY <4>1, <4>2
      <4>5. a = b
        BY <4>1, <4>2, <4>3, <4>4, SeqEqual, Zenon
      <4> QED
        BY <4>5 DEF a, b
    <3> QED
      BY <3>1, <3>2
  <2> QED
    BY <2>1, Zenon
<1> QED
  BY <1>3, <1>9, <1>10, Zenon DEF text

(* What makes TypeOK inductive: the fields and the calls are sequences, and
   fields that are at add have a source or are of the mask that needs none. *)
Addable(f) == Len(f) >= 2 \/ (Len(f) = 1 /\ f[1] = <<"m", "c">>)

LineInv ==
    /\ TypeOK
    /\ input \in Seq(Texts) /\ n \in Nat /\ first \in Nat
    /\ IsSeq(e) /\ IsSeq(calls)
    /\ DOMAIN block = {"idx", "text", "last", "eof"} /\ block.last \in Texts
    /\ calls # <<>> => Len(e) >= 2
    /\ pc = "add" => Addable(e)

(* What FromReader gives to add. *)
LEMMA AddFieldsTyped ==
    ASSUME NEW f, IsSeq(f), AddFields(f)
    PROVE  IsSeq(e') /\ pc' \in {"panicked", "failed", "add"} /\ (pc' = "add" => Addable(e'))
<1>1. CASE f = <<>>
  BY <1>1 DEF AddFields
<1>2. CASE f # <<>>
  <2>1. e' = Failable(f) /\ pc' = IF Len(f) < 2 /\ f[1] # <<"m", "c">> THEN "failed" ELSE "add"
    BY <1>2, Zenon DEF AddFields
  <2>2. IsSeq(Tail(f)) /\ Len(Tail(f)) = Len(f) - 1 /\ Len(f) >= 1 /\ Head(f) = f[1] /\ Len(f) \in Nat
    BY <1>2, SeqTail DEF IsSeq
  <2> DEFINE g == <<Tail(Head(f))>> \o Tail(f)
  <2>3. IsSeq(g) /\ Len(g) = Len(f)
    <3>1. PICK one : one = <<Tail(Head(f))>> /\ IsSeq(one) /\ Len(one) = 1
      BY SeqOne
    <3> QED
      BY <2>2, <3>1, SeqJoined
  <2>4. Failable(f) \in {f, g} /\ (f[1] = <<"m", "c">> => Failable(f) = f)
    <3>1. <<"m", "c">>[1] # "?"
      OBVIOUS
    <3>2. Failable(f) = IF f[1][1] = "?" THEN g ELSE f
      BY <2>2 DEF Failable
    <3> QED
      BY <3>1, <3>2
  <2> HIDE DEF g
  <2>5. IsSeq(e') /\ Len(e') = Len(f)
    BY <2>1, <2>3, <2>4
  <2>6. pc' = "add" => Addable(e')
    BY <2>1, <2>2, <2>4, <2>5 DEF Addable
  <2> QED
    BY <2>1, <2>5, <2>6
<1> QED
  BY <1>1, <1>2

(* A line goes to add, or its list or heredoc is begun. *)
LEMMA ReadFieldsTyped ==
    ASSUME LineInv, NEW line, NEW f, IsSeq(f), ReadFields(line, f)
    PROVE  /\ IsSeq(e') /\ pc' \in {"panicked", "failed", "add", "here", "join"}
           /\ pc' = "add" => Addable(e')
           /\ DOMAIN block' = {"idx", "text", "last", "eof"} /\ block'.last \in Texts
<1>1. ASSUME NEW idx, NEW text, NEW eof, block' = [idx |-> idx, text |-> text, last |-> <<>>, eof |-> eof]
      PROVE  DOMAIN block' = {"idx", "text", "last", "eof"} /\ block'.last \in Texts
  BY <1>1 DEF Texts
<1>2. CASE UNCHANGED block /\ pc' = "panicked" /\ e' = f
  BY <1>2 DEF LineInv
<1>3. CASE OpenHeredoc(f) /\ e' = f
  BY <1>1, <1>3 DEF OpenHeredoc, NoBlock
<1>4. ASSUME NEW idx, OpenBlock(f, idx), e' = f
      PROVE  /\ pc' \in {"panicked", "join"}
             /\ DOMAIN block' = {"idx", "text", "last", "eof"} /\ block'.last \in Texts
  BY <1>1, <1>4 DEF OpenBlock, NoBlock, LineInv
<1>5. CASE AddFields(TrimLast(f)) /\ UNCHANGED block
  <2>1. IsSeq(TrimLast(f))
    BY SeqExcept DEF TrimLast
  <2> QED
    BY <1>5, <2>1, AddFieldsTyped DEF LineInv
<1>6. CASE AddFields(f) /\ UNCHANGED block
  BY <1>6, AddFieldsTyped DEF LineInv
<1>7. CASE OpenBlock(f, BlockIdx(line, f)) /\ e' = f
  BY <1>4, <1>7
<1> QED
  BY <1>2, <1>3, <1>5, <1>6, <1>7, Zenon DEF ReadFields

(* The end of a list, and what is behind its brace. *)
LEMMA CloseBlockTyped ==
    ASSUME LineInv, NEW r \in Texts, CloseBlock(r)
    PROVE  IsSeq(e') /\ pc' \in {"panicked", "failed", "add"} /\ (pc' = "add" => Addable(e'))
<1> DEFINE rr == FieldsFuncN(r, AllFields)
<1>1. rr \in Seq(Texts)
  BY FieldsTyped DEF Texts
<1>2. IsSeq(rr)
  BY <1>1, SeqIs
<1> HIDE DEF rr
<1>3. CASE rr = <<>>
  BY <1>3 DEF CloseBlock, rr, LineInv
<1>4. CASE rr # <<>>
  <2>1. CloseWith(rr)
    BY <1>4 DEF CloseBlock, rr
  <2>2. PICK named : AddFields([e EXCEPT ![block.idx] = named] \o Tail(rr))
    BY <2>1, Zenon DEF CloseWith
  <2>3. IsSeq([e EXCEPT ![block.idx] = named]) /\ IsSeq(Tail(rr))
    BY <1>2, <1>4, SeqExcept, SeqTail DEF LineInv
  <2>4. IsSeq([e EXCEPT ![block.idx] = named] \o Tail(rr))
    BY <2>3, SeqJoined
  <2> QED
    BY <2>2, <2>4, AddFieldsTyped
<1> QED
  BY <1>3, <1>4

(* The end of a heredoc. *)
LEMMA CloseHeredocTyped ==
    ASSUME LineInv, CloseHeredoc
    PROVE  IsSeq(e') /\ pc' \in {"panicked", "failed", "add"} /\ (pc' = "add" => Addable(e'))
<1>1. PICK text, eof : AddFields([e EXCEPT ![IdxData] = text] \o <<eof>>)
  BY Zenon DEF CloseHeredoc
<1>2. IsSeq([e EXCEPT ![IdxData] = text]) /\ IsSeq(<<eof>>)
  BY SeqExcept, SeqOne DEF LineInv
<1>3. IsSeq([e EXCEPT ![IdxData] = text] \o <<eof>>)
  BY <1>2, SeqJoined
<1> QED
  BY <1>1, <1>3, AddFieldsTyped

(* A step of the reader, which has no calls of add. *)
LEMMA ReaderStep ==
    ASSUME LineInv, pc \in {"scan", "join", "here"}, UNCHANGED <<calls, input>>,
           n' \in {n, n + 1}, n' <= Len(input), first' \in {first, n'}, IsSeq(e'),
           pc' \in {"scan", "join", "here", "add", "failed", "panicked", "done"},
           pc' = "add" => Addable(e'),
           DOMAIN block' = {"idx", "text", "last", "eof"}, block'.last \in Texts
    PROVE  LineInv'
<1>1. calls = <<>> /\ calls' = <<>>
  BY DEF LineInv, TypeOK
<1>2. n \in Nat /\ first \in Nat /\ first <= n /\ input \in Seq(Texts)
  BY DEF LineInv, TypeOK
<1>3. n' \in Nat /\ first' \in Nat /\ first' <= n' /\ n' <= Len(input')
  BY <1>2
<1>4. Len(calls') <= MaxDepth
  BY <1>1 DEF LineInv, TypeOK
<1>5. TypeOK'
  BY <1>1, <1>3, <1>4 DEF TypeOK
<1>6. IsSeq(calls')
  BY DEF LineInv
<1>7. input' \in Seq(Texts)
  BY <1>2
<1> QED
  BY <1>1, <1>3, <1>5, <1>6, <1>7, Zenon DEF LineInv, Addable, IsSeq

(* The steps that read a line. *)
LEMMA ScanStep ==
    ASSUME LineInv, ScanLine
    PROVE  LineInv'
<1> DEFINE line == input[n + 1]
           f == FieldsFuncN(line, MaxFields(line))
<1>1. pc = "scan" /\ UNCHANGED <<calls, input>> /\ n' = n + 1 /\ first' = n + 1 /\ n # Len(input)
  BY DEF ScanLine, AtEnd
<1>2. n \in Nat /\ n <= Len(input) /\ input \in Seq(Texts)
  BY DEF LineInv, TypeOK
<1>3. n' <= Len(input) /\ line \in Texts
  BY <1>1, <1>2
<1>4. IsSeq(f)
  <2>1. f \in Seq(Texts)
    BY <1>3, FieldsTyped DEF Texts
  <2> QED
    BY <2>1, SeqIs
<1>5. IsSeq(<<>>)
  BY DEF IsSeq
<1>6. CASE e' = <<>> /\ (UNCHANGED pc \/ pc' = "panicked") /\ UNCHANGED block
  BY <1>1, <1>3, <1>5, <1>6, ReaderStep DEF LineInv
<1>7. CASE ReadFields(line, f)
  BY <1>1, <1>3, <1>4, <1>7, ReadFieldsTyped, ReaderStep
<1>8. \/ e' = <<>> /\ (UNCHANGED pc \/ pc' = "panicked") /\ UNCHANGED block
      \/ ReadFields(line, f)
  BY Zenon DEF ScanLine
<1> QED
  BY <1>6, <1>7, <1>8

(* One that belongs to a list goes on, or closes it. *)
LEMMA JoinStep ==
    ASSUME LineInv, JoinLine
    PROVE  LineInv'
<1> DEFINE r == Trim(input[n + 1])
<1>1. pc = "join" /\ UNCHANGED <<calls, input, first>> /\ n' = n + 1 /\ n # Len(input)
  BY DEF JoinLine, AtEnd
<1>2. n \in Nat /\ n <= Len(input) /\ input \in Seq(Texts)
  BY DEF LineInv, TypeOK
<1>3. n' <= Len(input) /\ input[n + 1] \in Texts
  BY <1>1, <1>2
<1>4. r \in Texts
  BY <1>3, TrimTyped DEF Texts
<1>5. \/ \E text : block' = [block EXCEPT !.last = r, !.text = text] /\ UNCHANGED <<pc, e>>
      \/ block' = [block EXCEPT !.last = r] /\ UNCHANGED <<pc, e>>
      \/ CloseBlock(r) /\ UNCHANGED block
  BY Zenon DEF JoinLine
<1> HIDE DEF r
<1>6. CASE \/ \E text : block' = [block EXCEPT !.last = r, !.text = text] /\ UNCHANGED <<pc, e>>
           \/ block' = [block EXCEPT !.last = r] /\ UNCHANGED <<pc, e>>
  <2>1. DOMAIN block' = {"idx", "text", "last", "eof"} /\ block'.last = r
    BY <1>6 DEF LineInv
  <2> QED
    BY <1>1, <1>3, <1>4, <1>6, <2>1, ReaderStep DEF LineInv
<1>7. CASE CloseBlock(r) /\ UNCHANGED block
  <2>1. IsSeq(e') /\ pc' \in {"panicked", "failed", "add"} /\ (pc' = "add" => Addable(e'))
    BY <1>4, <1>7, CloseBlockTyped
  <2> QED
    BY <1>1, <1>3, <1>7, <2>1, ReaderStep DEF LineInv
<1> QED
  BY <1>5, <1>6, <1>7

(* One that belongs to a heredoc goes on, or closes it. *)
LEMMA HereStep ==
    ASSUME LineInv, HereLine
    PROVE  LineInv'
<1>1. pc = "here" /\ UNCHANGED <<calls, input, first>> /\ n' = n + 1 /\ n # Len(input)
  BY DEF HereLine, AtEnd
<1>2. n \in Nat /\ n <= Len(input) /\ input \in Seq(Texts)
  BY DEF LineInv, TypeOK
<1>3. n' <= Len(input)
  BY <1>1, <1>2
<1>4. \/ \E text : block' = [block EXCEPT !.text = text] /\ UNCHANGED <<pc, e>>
      \/ CloseHeredoc /\ UNCHANGED block
  BY Zenon DEF HereLine
<1>5. CASE \E text : block' = [block EXCEPT !.text = text] /\ UNCHANGED <<pc, e>>
  <2>1. DOMAIN block' = {"idx", "text", "last", "eof"} /\ block'.last = block.last
    BY <1>5 DEF LineInv
  <2> QED
    BY <1>1, <1>3, <1>5, <2>1, ReaderStep DEF LineInv
<1>6. CASE CloseHeredoc /\ UNCHANGED block
  <2>1. IsSeq(e') /\ pc' \in {"panicked", "failed", "add"} /\ (pc' = "add" => Addable(e'))
    BY <1>6, CloseHeredocTyped
  <2> QED
    BY <1>1, <1>3, <1>6, <2>1, ReaderStep DEF LineInv
<1> QED
  BY <1>4, <1>5, <1>6

(* The steps in which no line is read. *)
LEMMA EndStep ==
    ASSUME LineInv, ScanEnds \/ JoinEnds \/ HereEnds \/ ReadError
    PROVE  LineInv'
<1>1. pc \in {"scan", "join", "here"} /\ n \in Nat /\ n <= Len(input)
  BY DEF ScanEnds, JoinEnds, HereEnds, ReadError, LineInv, TypeOK
<1>2. CASE ScanEnds
  BY <1>2, ReaderStep DEF ScanEnds, evars, rvars, LineInv, TypeOK
<1>3. CASE ReadError
  BY <1>3, ReaderStep DEF ReadError, evars, LineInv, TypeOK
<1>4. CASE JoinEnds
  <2>1. IsSeq(e') /\ pc' \in {"panicked", "failed", "add"} /\ (pc' = "add" => Addable(e'))
    BY <1>4, CloseBlockTyped DEF JoinEnds, LineInv
  <2> QED
    BY <1>4, <2>1, ReaderStep DEF JoinEnds, rvars, LineInv, TypeOK
<1>5. CASE HereEnds
  <2>1. IsSeq(e') /\ pc' \in {"panicked", "failed", "add"} /\ (pc' = "add" => Addable(e'))
    BY <1>5, CloseHeredocTyped DEF HereEnds
  <2> QED
    BY <1>5, <2>1, ReaderStep DEF HereEnds, rvars, LineInv, TypeOK
<1> QED
  BY <1>2, <1>3, <1>4, <1>5

(* A step of add, which reads no line and keeps the number of the fields. *)
LEMMA ExpansionStep ==
    ASSUME LineInv, UNCHANGED rvars, IsSeq(e'), DOMAIN e' = DOMAIN e, Len(e') = Len(e),
           IsSeq(calls'), Len(calls') <= MaxDepth,
           \A i \in DOMAIN calls' : calls'[i].idx \in DOMAIN e,
           calls' # <<>> => Len(e) >= 2,
           \/ pc' \in {"failed", "panicked"}
           \/ pc' = "scan" /\ calls' = <<>>
           \/ pc' = "part" /\ calls' # <<>>
           \/ pc' = "add" /\ Addable(e')
    PROVE  LineInv'
<1>1. UNCHANGED <<input, n, first, block>>
  BY DEF rvars
<1>2. TypeOK'
  BY <1>1 DEF LineInv, TypeOK
<1> QED
  BY <1>1, <1>2 DEF LineInv, Addable

(* A call of add: it goes to the masks, Entry or the variables, or is at its parts. *)
LEMMA AddStep ==
    ASSUME ExpansionAssumption, LineInv, Add, UNCHANGED rvars
    PROVE  LineInv'
<1> DEFINE f == ReplaceFields(replacer, e)
           call == Repeated(f)
<1>1. pc = "add" /\ Addable(e) /\ IsSeq(e) /\ DOMAIN e = 1..Len(e) /\ Len(e) \in Nat
  BY SeqIs DEF Add, LineInv, IsSeq
<1>2. IsSeq(f) /\ DOMAIN f = DOMAIN e /\ Len(f) = Len(e)
  <2> DEFINE g == [i \in 1..Len(e) |-> Replace(replacer, e[i])]
             T == {Replace(replacer, e[i]) : i \in 1..Len(e)}
  <2>1. f = g
    BY <1>1 DEF ReplaceFields
  <2>2. g \in [1..Len(e) -> T]
    OBVIOUS
  <2> HIDE DEF g, T
  <2>3. g \in Seq(T) /\ Len(g) = Len(e)
    BY <1>1, <2>2
  <2> QED
    BY <1>1, <2>1, <2>3, SeqIs
<1>3. e[1] = <<"m", "c">> /\ Len(e) = 1 => f[1] \in Masks
  <2>1. SUFFICES ASSUME e[1] = <<"m", "c">>, Len(e) = 1 PROVE f[1] \in Masks
    OBVIOUS
  <2>2. f[1] = Replace(replacer, e[1])
    BY <1>1, <2>1 DEF ReplaceFields
  <2>3. f[1] = <<"m", "c">>
    BY <2>1, <2>2, ReplaceNone
  <2> QED
    BY <2>3 DEF Masks
<1> HIDE DEF f
<1>4. IsSeq(calls) /\ Len(calls) <= MaxDepth /\ Len(calls) \in Nat /\ MaxDepth \in Nat
      /\ \A i \in DOMAIN calls : calls[i].idx \in DOMAIN e
  BY SeqIs DEF LineInv, TypeOK, IsSeq, ExpansionAssumption
<1>5. calls # <<>> => Len(e) >= 2
  BY DEF LineInv
<1>6. CASE UNCHANGED calls /\ (Return \/ pc' = "panicked") /\ e' \in {e, f}
  BY <1>1, <1>2, <1>4, <1>5, <1>6, ExpansionStep DEF Return
<1>7. CASE /\ Len(calls) < MaxDepth /\ f[1] \notin Masks
           /\ calls' = <<call>> \o calls /\ pc' = "part" /\ e' = f
  <2>1. Len(e) >= 2
    BY <1>1, <1>3, <1>7 DEF Addable
  <2>2. call.idx \in DOMAIN e
    <3>1. call.idx = 2 \/ (call.idx = 3 /\ Len(f) > 2)
      BY DEF Repeated, HasDst
    <3> QED
      BY <1>1, <1>2, <2>1, <3>1
  <2> HIDE DEF call
  <2>3. IsSeq(calls') /\ Len(calls') = Len(calls) + 1
    <3>1. PICK one : one = <<call>> /\ IsSeq(one) /\ Len(one) = 1
      BY SeqOne
    <3> QED
      BY <1>4, <1>7, <3>1, SeqJoined
  <2>4. \A i \in DOMAIN calls' : calls'[i] = IF i = 1 THEN call ELSE calls[i - 1]
    BY <1>4, <1>7 DEF IsSeq
  <2>5. ASSUME NEW i \in DOMAIN calls' PROVE calls'[i].idx \in DOMAIN e
    <3>1. i \in 1..(Len(calls) + 1) /\ DOMAIN calls = 1..Len(calls)
      BY <1>4, <2>3, SeqIs DEF IsSeq
    <3>2. i # 1 => i - 1 \in DOMAIN calls
      BY <1>4, <3>1
    <3> QED
      BY <1>4, <2>2, <2>4, <3>2
  <2>6. calls' # <<>> /\ Len(calls') <= MaxDepth
    BY <1>4, <1>7, <2>3
  <2> QED
    BY <1>2, <1>7, <2>1, <2>3, <2>5, <2>6, ExpansionStep
<1>8. CASE Len(calls) < MaxDepth
  <2>1. AddWith(f)
    BY <1>8 DEF Add, f
  <2>2. e' = f
    BY <2>1 DEF AddWith
  <2>3. \/ UNCHANGED calls /\ (Return \/ pc' = "panicked")
        \/ f[1] \notin Masks /\ calls' = <<call>> \o calls /\ pc' = "part"
    BY <2>1, Zenon DEF AddWith
  <2> QED
    BY <1>6, <1>7, <1>8, <2>2, <2>3
<1>9. CASE ~(Len(calls) < MaxDepth)
  BY <1>6, <1>9 DEF Add, evars
<1> QED
  BY <1>8, <1>9

(* The next part replaces a field, and the destination. *)
LEMMA PartStep ==
    ASSUME LineInv, NextPart, UNCHANGED rvars
    PROVE  LineInv'
<1>1. IsSeq(calls) /\ calls # <<>> /\ Len(e) >= 2 /\ IsSeq(e) /\ DOMAIN calls = 1..Len(calls)
      /\ DOMAIN e = 1..Len(e) /\ Len(calls) \in Nat /\ Len(e) \in Nat
  BY SeqIs DEF NextPart, LineInv, TypeOK, IsSeq
<1>2. PICK x, y, idx, left :
        /\ e' = [IF calls[1].dst = <<>> THEN e ELSE [e EXCEPT ![3] = x] EXCEPT ![idx] = y]
        /\ calls' = [calls EXCEPT ![1] = [calls[1] EXCEPT !.left = left]]
  BY Zenon DEF NextPart, Joined
<1>3. IsSeq(e') /\ Len(e') = Len(e)
  <2>1. PICK g : g = IF calls[1].dst = <<>> THEN e ELSE [e EXCEPT ![3] = x]
    OBVIOUS
  <2>2. IsSeq(g) /\ Len(g) = Len(e)
    <3>1. IsSeq([e EXCEPT ![3] = x]) /\ Len([e EXCEPT ![3] = x]) = Len(e)
      BY <1>1, SeqExcept, Zenon
    <3> QED
      BY <1>1, <2>1, <3>1
  <2>3. e' = [g EXCEPT ![idx] = y]
    BY <1>2, <2>1
  <2> QED
    BY <2>2, <2>3, SeqExcept, Zenon
<1>4. DOMAIN e' = DOMAIN e
  BY <1>1, <1>3, SeqIs DEF IsSeq
<1>5. IsSeq(calls') /\ Len(calls') = Len(calls)
  BY <1>1, <1>2, SeqExcept
<1>6. DOMAIN calls' = DOMAIN calls /\ calls' # <<>>
  BY <1>1, <1>2, <1>5
<1>7. \A i \in DOMAIN calls : calls'[i].idx = calls[i].idx
  BY <1>2
<1>8. pc' = "add" /\ Addable(e')
  BY <1>1, <1>3 DEF NextPart, Addable
<1> QED
  BY <1>1, <1>3, <1>4, <1>5, <1>6, <1>7, <1>8, ExpansionStep DEF LineInv, TypeOK

(* A call has no more parts. *)
LEMMA DoneStep ==
    ASSUME ExpansionAssumption, LineInv, PartsDone, UNCHANGED rvars
    PROVE  LineInv'
<1>1. IsSeq(calls) /\ calls # <<>> /\ Len(e) >= 2 /\ UNCHANGED e /\ calls' = Tail(calls)
  BY DEF PartsDone, LineInv, TypeOK
<1>2. Len(calls) \in Nat /\ DOMAIN calls = 1..Len(calls)
  BY <1>1, SeqIs DEF IsSeq
<1>3. IsSeq(calls') /\ Len(calls') = Len(calls) - 1
  BY <1>1, SeqTail
<1>4. DOMAIN calls' = 1..(Len(calls) - 1)
  BY <1>3, SeqIs DEF IsSeq
<1>5. \A i \in DOMAIN calls' : i + 1 \in DOMAIN calls /\ calls'[i] = calls[i + 1]
  BY <1>1, <1>2, <1>4 DEF IsSeq
<1>6. IF Len(calls) = 1 THEN pc' = "scan" /\ calls' = <<>> ELSE pc' = "part" /\ calls' # <<>>
  <2>1. pc' = IF Len(calls) = 1 THEN "scan" ELSE "part"
    BY DEF PartsDone
  <2>2. Len(calls) = 1 <=> Len(calls') = 0
    BY <1>2, <1>3
  <2>3. Len(calls') = 0 <=> calls' = <<>>
    <3>1. ASSUME NEW T, NEW f \in Seq(T) PROVE Len(f) = 0 <=> f = <<>>
      OBVIOUS
    <3> QED
      BY <1>3, <3>1, Zenon DEF IsSeq
  <2> QED
    BY <2>1, <2>2, <2>3
<1>7. Len(calls') <= MaxDepth /\ \A i \in DOMAIN calls' : calls'[i].idx \in DOMAIN e
  BY <1>2, <1>3, <1>5 DEF LineInv, TypeOK, ExpansionAssumption
<1>8. \/ pc' = "scan" /\ calls' = <<>>
      \/ pc' = "part" /\ calls' # <<>>
  BY <1>6
<1>9. IsSeq(e')
  BY <1>1 DEF LineInv
<1> QED
  BY <1>1, <1>3, <1>7, <1>8, <1>9, ExpansionStep

(* A file that has not been read. *)
LEMMA LineInit ==
    ASSUME ReaderAssumption, ExpansionAssumption, Init
    PROVE  LineInv
<1>1. input \in Seq(Texts) /\ n = 0 /\ first = 0 /\ block = NoBlock /\ pc = "scan"
      /\ e = <<>> /\ calls = <<>>
  BY DEF Init, InitExpansion, ReaderAssumption
<1>2. IsSeq(<<>>) /\ Len(<<>>) = 0
  BY DEF IsSeq
<1>3. block.last \in Texts /\ DOMAIN block = {"idx", "text", "last", "eof"}
  BY <1>1 DEF NoBlock, Texts
<1>4. TypeOK
  BY <1>1, <1>2 DEF TypeOK, ExpansionAssumption
<1> QED
  BY <1>1, <1>2, <1>3, <1>4 DEF LineInv

(* Whatever is in a file, add is called for fields with a source, no more
   calls of it are inside each other than the stack has room for, and each is
   at the parts of a field that the line has. *)
THEOREM LineTyped == Spec => []TypeOK
<1> USE ExpansionAssumption, ReaderAssumption
<1>1. Init => LineInv
  BY LineInit
<1>2. LineInv /\ [Next]_allvars => LineInv'
  <2> SUFFICES ASSUME LineInv, [Next]_allvars PROVE LineInv'
    OBVIOUS
  <2>1. CASE ScanLine
    BY <2>1, ScanStep
  <2>2. CASE JoinLine
    BY <2>2, JoinStep
  <2>3. CASE HereLine
    BY <2>3, HereStep
  <2>4. CASE ScanEnds \/ JoinEnds \/ HereEnds \/ ReadError
    BY <2>4, EndStep
  <2>5. CASE Rejected
    <3>1. UNCHANGED <<e, calls, rvars>> /\ pc' = "failed"
      BY <2>5 DEF Rejected, evars
    <3> QED
      BY <3>1, ExpansionStep DEF LineInv, TypeOK
  <2>6. CASE Expanding /\ UNCHANGED rvars
    BY <2>6, AddStep, PartStep, DoneStep DEF Expanding
  <2>7. CASE Terminated \/ UNCHANGED allvars
    <3>1. UNCHANGED <<pc, e, calls, input, n, first, block>>
      BY <2>7 DEF Terminated, allvars, evars, rvars
    <3> QED
      BY <3>1 DEF LineInv, TypeOK, Addable, IsSeq
  <2> QED
    BY <2>1, <2>2, <2>3, <2>4, <2>5, <2>6, <2>7 DEF Next
<1>3. LineInv => TypeOK
  BY DEF LineInv
<1> QED
  BY <1>1, <1>2, <1>3, PTL DEF Spec
=============================================================================
