----------------------------- MODULE LineReader -----------------------------
(***************************************************************************)
(* FromReader of config/config.go as far as a line is read: the fields of  *)
(* a line, braces and heredocs over several lines, and the call of add.    *)
(***************************************************************************)
EXTENDS LineExpansion, FiniteSetsExt

CONSTANT Inputs     \* the inputs of the run: sequences of lines, which are texts

ASSUME ReaderAssumption == Inputs \subseteq Seq(Texts)

VARIABLES
    input,      \* the lines of the file
    broken,     \* the reader has met an error after the lines it has read
    n,          \* the lines read so far
    first,      \* the line at which this one began
    block       \* multireader: [idx, text, last, eof]

rvars == <<input, broken, n, first, block>>
allvars == <<pc, evars, rvars>>

NoBlock == [idx |-> 1, text |-> <<>>, last |-> <<>>, eof |-> <<>>]
Init ==
    /\ input \in Inputs /\ broken = FALSE /\ n = 0 /\ first = 0 /\ block = NoBlock
    /\ pc = "scan" /\ InitExpansion
-----------------------------------------------------------------------------
(* Fields *)

Blanks == {" ", "\t"}
IsSep(prev, c) == c = "\t" \/ (c = " " /\ prev # "\\")

(* fieldsFuncN makes two passes with one split, which remembers the character
   before: the second pass begins with what the first has ended with.  The
   first pass counts fields, no more than max if that is above 0. *)
CountFields(s, max) ==
    FoldLeft(LAMBDA st, c :
        IF max > 0 /\ st.c >= max THEN st
        ELSE [c |-> st.c + IF ~st.in /\ ~IsSep(st.prev, c) THEN 1 ELSE 0,
              in |-> ~IsSep(st.prev, c), prev |-> c],
        [c |-> 0, in |-> FALSE, prev |-> ""], s)

(* The second pass: what is left after the field before the last one is the
   last one, if there is a max. *)
CutStep(s, max, count, st, k) ==
    LET sep == IsSep(st.prev, s[k])
        on == [st EXCEPT !.prev = s[k]]
    IN IF st.end THEN st
       ELSE IF max > 0 /\ Len(st.ret) >= count - 1 THEN [st EXCEPT !.from = k, !.end = TRUE]
       ELSE IF sep /\ st.from > 0
       THEN [on EXCEPT !.ret = Append(@, SubSeq(s, st.from, k - 1)), !.from = 0]
       ELSE IF ~sep /\ st.from = 0 THEN [on EXCEPT !.from = k] ELSE on

CutFields(s, max, pass) ==
    LET st == FoldLeft(LAMBDA r, k : CutStep(s, max, pass.c, r, k),
                       [ret |-> <<>>, from |-> 0, end |-> FALSE, prev |-> pass.prev],
                       [k \in 1..Len(s) |-> k])
    IN IF st.from > 0 THEN Append(st.ret, SubSeq(s, st.from, Len(s))) ELSE st.ret

FieldsFuncN(s, max) == CutFields(s, max, CountFields(s, max))
(* An index beyond the count. *)
FieldsPanic(s, max) == Len(FieldsFuncN(s, max)) > CountFields(s, max).c

AllFields == -1
IdxData == 6
MaxFields(line) == IF line[1] = "c" THEN IdxData ELSE AllFields

(* strings.TrimLeft and TrimSpace *)
TrimLeft(s) == SubSeq(s, SelectInSeq(Append(s, ""), LAMBDA c : c \notin Blanks), Len(s))
Trim(s) == SubSeq(TrimLeft(s), 1, SelectLastInSeq(TrimLeft(s), LAMBDA c : c \notin Blanks))
-----------------------------------------------------------------------------
(* What FromReader does with the fields of a line: a line that has none
   panics, a ? is cut off the type. *)
Failable(f) == IF Head(f)[1] = "?" THEN <<Tail(Head(f))>> \o Tail(f) ELSE f
AddFields(f) ==
    /\ e' = IF f = <<>> THEN f ELSE Failable(f)
    /\ pc' = IF f = <<>> THEN "panicked"
             ELSE IF Len(f) < 2 /\ f[1] # <<"m", "c">> THEN "failed"
             ELSE "add"

(* isheredoc, for data longer than two characters: the two after the blanks
   are looked at, which may not be there. *)
HasData(f) == Len(f) = IdxData /\ Len(f[IdxData]) > 2
HeredocPanics(f) == HasData(f) /\ Len(TrimLeft(f[IdxData])) < 2
IsHeredoc(f) ==
    HasData(f) /\ IsStrictPrefix(<<"<", "<">>, TrimLeft(f[IdxData]))

Eof(f) == SubSeq(TrimLeft(f[IdxData]), 3, Len(TrimLeft(f[IdxData])))

(* multireader is called: the field that goes on. *)
BlockIdx(line, f) == IF line[1] = "l" /\ Len(f) > 2 THEN 3 ELSE 2
OpenBlock(f, idx) ==
    IF idx > Len(f) THEN pc' = "panicked" /\ UNCHANGED block
    ELSE pc' = "join" /\ block' = [NoBlock EXCEPT !.idx = idx, !.text = f[idx]]
OpenHeredoc(f) == pc' = "here" /\ block' = [NoBlock EXCEPT !.eof = Eof(f)]

TrimLast(f) == IF Len(f) < IdxData THEN [f EXCEPT ![Len(f)] = Trim(@)] ELSE f

ReadFields(line, f) ==
    IF line[1] = "c"
    THEN IF HeredocPanics(f) THEN pc' = "panicked" /\ e' = f /\ UNCHANGED block
         ELSE IF IsHeredoc(f) THEN OpenHeredoc(f) /\ e' = f
         ELSE AddFields(TrimLast(f)) /\ UNCHANGED block
    ELSE IF Last(line) = "{" THEN OpenBlock(f, BlockIdx(line, f)) /\ e' = f
    ELSE AddFields(f) /\ UNCHANGED block

AtEnd == broken \/ n = Len(input)

ScanLine ==
    /\ pc = "scan" /\ ~AtEnd
    /\ n' = n + 1 /\ first' = n + 1 /\ given' = <<>>
    /\ LET line == input[n + 1]
       IN IF line = <<>> \/ line[1] = "#"
          THEN e' = <<>> /\ UNCHANGED <<pc, block>>
          ELSE IF FieldsPanic(line, MaxFields(line))
          THEN e' = <<>> /\ pc' = "panicked" /\ UNCHANGED block
          ELSE ReadFields(line, FieldsFuncN(line, MaxFields(line)))
    /\ UNCHANGED <<vars, replacer, calls, input, broken>>

ScanEnds ==
    /\ pc = "scan" /\ AtEnd
    /\ pc' = IF broken THEN "failed" ELSE "done"
    /\ UNCHANGED <<evars, rvars>>

TrimSuffix(text, c) == IF text # <<>> /\ Last(text) = c THEN Front(text) ELSE text

(* multireader: the names in braces, one a line, until a line begins with the
   brace that closes them or there are no more lines. *)
CloseWith(rr) ==
    LET text == SelectSeq(TrimSuffix(block.text, "\n") \o rr[1], LAMBDA c : c # "\t")
        named == [i \in DOMAIN text |-> IF text[i] = "\n" THEN "," ELSE text[i]]
    IN AddFields([e EXCEPT ![block.idx] = named] \o Tail(rr))
CloseBlock(r) ==
    LET rr == FieldsFuncN(r, AllFields)
    IN IF rr = <<>> THEN pc' = "panicked" /\ UNCHANGED e ELSE CloseWith(rr)

JoinSkipsBlank(r) == r = <<>>
JoinSkips(r) == r = <<>> \/ r[1] = "#"
JoinLine ==
    /\ pc = "join" /\ ~AtEnd
    /\ n' = n + 1
    /\ LET r == Trim(input[n + 1])
       IN IF JoinSkips(r) THEN block' = [block EXCEPT !.last = r] /\ UNCHANGED <<pc, e>>
          ELSE IF r[1] # "}"
          THEN /\ block' = [block EXCEPT !.last = r, !.text = @ \o r \o <<"\n">>]
               /\ UNCHANGED <<pc, e>>
          ELSE CloseBlock(r) /\ UNCHANGED block
    /\ UNCHANGED <<vars, replacer, calls, given, input, broken, first>>

JoinEnds ==
    /\ pc = "join" /\ AtEnd /\ CloseBlock(block.last)
    /\ UNCHANGED <<vars, replacer, calls, given, rvars>>

(* multireader: a heredoc. *)
CloseHeredoc == AddFields([e EXCEPT ![IdxData] = TrimSuffix(block.text, "\n")] \o <<block.eof>>)

HereLine ==
    /\ pc = "here" /\ ~AtEnd
    /\ n' = n + 1
    /\ IF input[n + 1] = block.eof THEN CloseHeredoc /\ UNCHANGED block
       ELSE /\ block' = [block EXCEPT !.text = @ \o input[n + 1] \o <<"\n">>]
            /\ UNCHANGED <<pc, e>>
    /\ UNCHANGED <<vars, replacer, calls, given, input, broken, first>>

HereEnds ==
    /\ pc = "here" /\ AtEnd /\ CloseHeredoc
    /\ UNCHANGED <<vars, replacer, calls, given, rvars>>

(* Scan ends at an error, which FromReader looks at only when it has no more
   lines. *)
ReadError ==
    /\ pc \in {"scan", "join", "here"} /\ ~broken
    /\ broken' = TRUE
    /\ UNCHANGED <<pc, evars, input, n, first, block>>

(* The masks, Entry or what add does then reject the line. *)
Rejected ==
    /\ pc = "add"
    /\ pc' = "failed"
    /\ UNCHANGED <<evars, rvars>>

Ended == pc \in {"done", "failed", "panicked"}
Terminated == Ended /\ UNCHANGED allvars

Next ==
    \/ ScanLine \/ ScanEnds \/ JoinLine \/ JoinEnds \/ HereLine \/ HereEnds \/ ReadError
    \/ Rejected \/ (Expanding /\ UNCHANGED rvars) \/ Terminated

Spec == Init /\ [][Next]_allvars
-----------------------------------------------------------------------------
(* Properties *)

TypeOK ==
    /\ pc \in {"scan", "join", "here", "add", "part", "failed", "panicked", "done"}
    /\ first <= n /\ n <= Len(input)
    /\ pc \in {"scan", "join", "here", "done"} => calls = <<>>
    /\ pc = "part" => calls # <<>>
    /\ Len(calls) <= MaxDepth
    /\ \A i \in DOMAIN calls : calls[i].idx \in DOMAIN e

(* What a line means, without a pass over it.  A blank parts fields unless it
   is a space with a backslash before it. *)
Seps(s) == {i \in DOMAIN s : s[i] = "\t" \/ (s[i] = " " /\ (i = 1 \/ s[i - 1] # "\\"))}
Starts(s) == SetToSortSeq({i \in DOMAIN s \ Seps(s) : i = 1 \/ i - 1 \in Seps(s)}, <)
EndOf(s, i) == Min({j \in Seps(s) \cup {Len(s) + 1} : j > i})
Words(s) == FoldLeft(LAMBDA r, i : Append(r, SubSeq(s, i, EndOf(s, i) - 1)), <<>>, Starts(s))

(* The data of a c line is all that is left after its five other fields. *)
LineFields(s) ==
    IF s[1] # "c" \/ Len(Words(s)) < IdxData THEN Words(s)
    ELSE Append(SubSeq(Words(s), 1, 5), SubSeq(s, EndOf(s, Starts(s)[5]) + 1, Len(s)))

Lines(texts, end) == FlattenSeq([i \in DOMAIN texts |-> texts[i] \o <<end>>])
Between(i, j) == SubSeq(input, i + 1, j - 1)
Names(texts) == SelectSeq([i \in DOMAIN texts |-> Trim(texts[i])], LAMBDA r : ~(r = <<>> \/ r[1] = "#"))

(* The line from i to j: a list of names in braces, a heredoc, or a line. *)
Whole(i, j) ==
    LET f == LineFields(input[i])
        idx == BlockIdx(input[i], f)
        close == Words(Trim(input[j]))
    IN IF i = j THEN f
       ELSE IF input[i][1] = "c"
       THEN [f EXCEPT ![IdxData] = TrimSuffix(Lines(Between(i, j), "\n"), "\n")] \o <<Eof(f)>>
       ELSE [f EXCEPT ![idx] = @ \o TrimSuffix(Lines(Names(Between(i, j)), ","), ",") \o close[1]]
            \o Tail(close)

(* Lines that are no comments and of which the passes of fieldsFuncN agree; of
   more than one line, those that are closed and whose last field goes on. *)
WellWritten(i, j) ==
    LET f == LineFields(input[i])
    IN /\ i > 0 /\ input[i] # <<>> /\ input[i][1] # "#"
       /\ input[i][1] = " " => Last(input[i]) # "\\"
       /\ IF input[i][1] = "c"
          THEN IF IsHeredoc(f) THEN i < j /\ input[j] = Eof(f)
               ELSE Len(f) < IdxData => IsSuffix(Last(f), Trim(input[i]))
          ELSE Last(input[i]) = "{" =>
                   /\ i < j /\ BlockIdx(input[i], f) = Len(f)
                   /\ Trim(input[j]) # <<>> /\ Trim(input[j])[1] = "}"

(* Each line reaches add once, whole, with the fields it is written with, and
   nothing of the lines before and after it: blanks, comments, braces and
   heredocs move no line into another. *)
LinesRight ==
    pc = "add" /\ calls = <<>> /\ WellWritten(first, n) => e = Failable(Whole(first, n))

(* A text with the values of its variables. *)
Substituted(text) ==
    LET pieces == SplitAt(text, "$")
        of(p) == {name \in DOMAIN vars : IsPrefix(name, p)}
        put(p) == IF of(p) = {} THEN <<"$">> \o p
                  ELSE LET name == CHOOSE x \in of(p) : TRUE
                       IN vars[name].value \o SubSeq(p, Len(name) + 1, Len(p))
    IN pieces[1] \o FlattenSeq([i \in 1..Len(pieces) - 1 |-> put(pieces[i + 1])])

(* Variables none of whose names begins with another's, with values in which
   nothing is replaced; and braces that are not nested. *)
Count(s, c) == Len(SelectSeq(s, LAMBDA x : x = c))
Simple ==
    /\ \A a, b \in DOMAIN vars : IsPrefix(a, b) => a = b
    /\ \A a \in DOMAIN vars : Count(vars[a].value, "$") = 0
Unnested(f) == \A i \in DOMAIN f : Count(f[i], "{") <= 1 /\ Count(f[i], "}") <= 1
(* The fields that may be lists, and whether one is a list of one name. *)
ListFields(f) == {2} \cup (IF f[1] = <<"l">> /\ Len(f) > 2 THEN {3} ELSE {})
OneName(f) == \E i \in ListFields(f) : Braces(f[i], f[1] \in Globs) /\ Len(Multi(f[i], f[1] \in Globs)) = 1

(* The fields of each entry a line stands for: sources in braces are joined to
   the destination, and the destination of a symlink may have braces. *)
Entries(f) ==
    LET srcs == Multi(f[2], f[1] \in Globs)
        joins == Len(srcs) > 1 /\ HasDst(f) /\ f[1] \notin Creates
        at(s) == IF joins THEN [f EXCEPT ![2] = s, ![3] = Join(f[3], Base(s))] ELSE [f EXCEPT ![2] = s]
        dsts(g) == IF f[1] = <<"l">> /\ HasDst(g)
                   THEN LET ds == Multi(g[3], FALSE) IN [i \in DOMAIN ds |-> [g EXCEPT ![3] = ds[i]]]
                   ELSE <<g>>
    IN FlattenSeq([i \in DOMAIN srcs |-> dsts(at(srcs[i]))])

(* After a line the masks and Entry have got just the entries it stands for,
   in their order: no destination is joined twice, and a part keeps nothing of
   the parts before it, although all share the slice of the fields. *)
ExpandedRight ==
    pc = "scan" /\ WellWritten(first, n) /\ Simple =>
        LET f == Failable(Whole(first, n))
            g == FoldLeft(LAMBDA r, x : Append(r, Substituted(x)), <<>>, f)
        IN Unnested(g) /\ (Len(g) > 1 => ~OneName(g)) => IF g[1] = <<"$">> THEN given = <<>>
                          ELSE given = IF g[1] \in Masks THEN <<g>> ELSE Entries(g)

(* A $ line changes the variable it names alone, and none of -X: the replacer
   always has the values that were given last.  It holds if no name is given
   twice with -X. *)
FlagsOnce == \A flags \in Flags : IsInjective([i \in DOMAIN flags |-> flags[i].name])
ValueIn(r, name) ==
    LET k == SelectInSeq(r, LAMBDA x : x.name = name) IN IF k = 0 THEN <<"$">> \o name ELSE r[k].value
VariablesKept ==
    [][\A name \in DOMAIN vars' :
          ValueIn(replacer', name) # ValueIn(replacer, name) =>
              /\ pc = "add" /\ e'[1] = <<"$">> /\ e'[2] = name
              /\ name \in DOMAIN vars => ~vars[name].flag]_allvars

(* config/config.go:192: what is wrong with a line is reported with its
   number.  So no line ends the program otherwise. *)
LineReported == pc # "panicked"
=============================================================================
