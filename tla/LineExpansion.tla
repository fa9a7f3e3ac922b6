--------------------------- MODULE LineExpansion ---------------------------
(***************************************************************************)
(* The start of add of config/map.go: variables are replaced in the fields *)
(* of a line, and a field with braces makes add call itself for each of    *)
(* its parts.                                                              *)
(*                                                                         *)
(* A text is a sequence of characters, of which only the blank, the slash  *)
(* and the signs of the syntax are told apart.  All calls of add for a     *)
(* line share the slice of its fields, so that they are one variable.      *)
(***************************************************************************)
EXTENDS Integers, SequencesExt, TLC

CONSTANTS
    Flags,      \* sets of -X: sequences of [name, value]
    MaxDepth    \* bound: calls of add inside each other until the stack is full

Texts == Seq(STRING)
ASSUME ExpansionAssumption ==
    /\ MaxDepth \in Nat \ {0}
    /\ Flags \subseteq Seq([name : Texts, value : Texts])

VARIABLES
    pc,         \* "scan", "join" and "here" (the reader), "add", "part", "failed", "panicked", "done"
    vars,       \* variableMap.m: name -> [value, flag]
    replacer,   \* variableMap.r: the [name, value], the first that matches is taken
    e,          \* the fields of the line
    calls,      \* the calls of add that are at their parts, the last one first
    given       \* what the masks and Entry have got of this line, in order

evars == <<vars, replacer, e, calls, given>>

Globs == {<<"r">>, <<"r", "r">>, <<"r", "L">>}
Creates == {<<"d">>, <<"r">>, <<"r", "r">>, <<"c">>, <<"c", "l">>, <<"b", "6", "4">>}
Masks == {<<"m", x>> : x \in {"l", "t", "r", "i", "I", "m", "c"}}
Omit == <<"-">>

InitExpansion ==
    /\ \E flags \in Flags :
        /\ vars = [name \in {flags[i].name : i \in DOMAIN flags} |->
                     [value |-> flags[SelectLastInSeq(flags, LAMBDA x : x.name = name)].value,
                      flag |-> TRUE]]
        /\ replacer = flags
    /\ e = <<>> /\ calls = <<>> /\ given = <<>>
-----------------------------------------------------------------------------
(* Variables *)

(* strings.Replacer: from left to right, and at each place the first of the
   variables that is there; what has been put is not looked at again. *)
Replace(r, text) ==
    LET from[i \in 1..Len(text) + 1] ==
          IF i > Len(text) THEN <<>>
          ELSE LET here(x) == text[i] = "$" /\ IsPrefix(x.name, SubSeq(text, i + 1, Len(text)))
                   k == SelectInSeq(r, here)
               IN IF k = 0 THEN <<text[i]>> \o from[i + 1]
                  ELSE r[k].value \o from[i + 1 + Len(r[k].name)]
    IN from[1]

ReplaceFields(r, fields) == [i \in DOMAIN fields |-> Replace(r, fields[i])]

(* variableMap.add, for the fields f of a $ line.  What -X has set stays.  The
   replacer is built from a Go map, which has no order. *)
PinnedUnlessNew(f) == f[2] \notin DOMAIN vars
Pinned(f) == f[2] \in DOMAIN vars /\ vars[f[2]].flag

Define(f) ==
    IF Pinned(f) THEN UNCHANGED <<vars, replacer>>
    ELSE /\ vars' = [name \in DOMAIN vars \cup {f[2]} |->
                      IF name # f[2] THEN vars[name]
                      ELSE [value |-> IF Len(f) > 2 THEN f[3] ELSE <<>>, flag |-> FALSE]]
         /\ \E order \in SetToSeqs(DOMAIN vars') :
              replacer' = [i \in DOMAIN order |-> [name |-> order[i], value |-> vars'[order[i]].value]]
-----------------------------------------------------------------------------
(* Braces *)

SplitAt(text, sep) ==
    FoldLeft(LAMBDA r, x : IF x = sep THEN Append(r, <<>>) ELSE Front(r) \o <<Append(Last(r), x)>>,
             <<<<>>>>, text)

(* path.Join, of names without dots. *)
Join(dst, name) ==
    LET names == SelectSeq(Append(SplitAt(dst, "/"), name), LAMBDA x : x # <<>>)
        text == FoldLeft(LAMBDA r, x : r \o <<"/">> \o x, <<>>, names)
    IN IF dst[1] = "/" THEN text ELSE Tail(text)
Base(path) == Last(SplitAt(path, "/"))

(* multi: a brace is one of a regular expression unless a backslash is before
   it.  One at the start of an expression makes the slice before it panic. *)
Opening(s) == SelectInSeq(s, LAMBDA x : x = "{")
Closing(s) == SelectLastInSeq(s, LAMBDA x : x = "}")
Braces(s, escape) ==
    /\ Opening(s) # 0 /\ Closing(s) > Opening(s)
    /\ escape /\ Opening(s) > 1 => s[Opening(s) - 1] = "\\"
MultiPanics(s, escape) == Braces(s, escape) /\ escape /\ Opening(s) = 1

(* The parts between the places i and j, each after the first k characters. *)
Parts(s, i, j, k) ==
    LET inner == SplitAt(SubSeq(s, i + 1, j - 1), ",")
    IN [n \in DOMAIN inner |-> SubSeq(s, 1, k) \o inner[n] \o SubSeq(s, j + 1, Len(s))]
Multi(s, escape) ==
    IF ~Braces(s, escape) THEN <<s>>
    ELSE Parts(s, Opening(s), Closing(s), Opening(s) - (IF escape THEN 2 ELSE 1))
-----------------------------------------------------------------------------
(* add *)

HasDst(f) == Len(f) > 2 /\ f[3] # Omit

(* The field with the parts, and the destination they are joined to. *)
Repeated(f) ==
    LET src == Multi(f[2], f[1] \in Globs)
    IN IF f[1] = <<"l">> /\ HasDst(f) /\ Len(src) = 1
       THEN [idx |-> 3, left |-> Multi(f[3], FALSE), dst |-> <<>>]
       ELSE [idx |-> 2, left |-> src,
             dst |-> IF HasDst(f) /\ f[1] \notin Creates THEN f[3] ELSE <<>>]

(* add returns to the line or to the call that is at its parts. *)
ReturnToScan == pc' = "scan"
Return == pc' = IF calls = <<>> THEN "scan" ELSE "part"

(* What add does with the fields f, after variables: the masks and Entry are
   given them, or each of the parts is added. *)
AddWith(f) ==
    LET call == Repeated(f)
        give == /\ given' = Append(given, f) /\ Return
                /\ UNCHANGED <<vars, replacer, calls>>
    IN /\ e' = f
       /\ IF f[1] \in Masks THEN give
          ELSE IF f[1] = <<"$">> THEN Define(f) /\ Return /\ UNCHANGED <<calls, given>>
          ELSE IF MultiPanics(f[2], f[1] \in Globs)
          THEN pc' = "panicked" /\ UNCHANGED <<vars, replacer, calls, given>>
          ELSE IF Len(call.left) = 1 THEN give
          ELSE /\ calls' = <<call>> \o calls /\ pc' = "part"
               /\ UNCHANGED <<vars, replacer, given>>

Add ==
    /\ pc = "add"
    /\ IF Len(calls) < MaxDepth THEN AddWith(ReplaceFields(replacer, e))
       ELSE pc' = "panicked" /\ UNCHANGED evars

(* The next part: the destination is joined again to the one of the call. *)
JoinedAgain(f, c) == IF c.dst = <<>> THEN f ELSE [f EXCEPT ![3] = Join(@, Base(Head(c.left)))]
Joined(f, c) == IF c.dst = <<>> THEN f ELSE [f EXCEPT ![3] = Join(c.dst, Base(Head(c.left)))]

NextPart ==
    /\ pc = "part" /\ calls[1].left # <<>>
    /\ e' = [Joined(e, calls[1]) EXCEPT ![calls[1].idx] = Head(calls[1].left)]
    /\ calls' = [calls EXCEPT ![1].left = Tail(@)]
    /\ pc' = "add"
    /\ UNCHANGED <<vars, replacer, given>>

PartsDone ==
    /\ pc = "part" /\ calls[1].left = <<>>
    /\ calls' = Tail(calls)
    /\ pc' = IF Len(calls) = 1 THEN "scan" ELSE "part"
    /\ UNCHANGED <<vars, replacer, e, given>>

Expanding == Add \/ NextPart \/ PartsDone
=============================================================================
