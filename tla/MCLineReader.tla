---------------------------- MODULE MCLineReader ----------------------------
(* Files of one to five lines, and sets of -X. *)
EXTENDS LineReader

Text(string) == [i \in 1..Len(string) |-> SubSeq(string, i, i)]
File(lines) == [i \in DOMAIN lines |-> Text(lines[i])]
Var(name, value) == [name |-> Text(name), value |-> Text(value)]
MCFlags == {<<>>, <<Var("a", "x")>>, <<Var("b", "x/y"), Var("a", "z")>>}

(* All short lines of blanks, a backslash and a letter. *)
Short == {<<line>> : line \in UNION {[1..k -> {" ", "\t", "\\", "x"}] : k \in 1..4}}

Files ==
    {File(lines) : lines \in
       {<<"", "# d x", "d x\\ y  0">>,
        <<"c x - - -  <<  y\\ ">>, <<"c x - - -\ty  z ">>, <<"c x ">>, <<"c x\\ ">>,
        <<"c x - - - <<!", "{ $a", "# y", "!", "d !">>, <<"c x - - - <<!", "!", "c y 0">>,
        <<"c x - - -   <<!", "x">>, <<"c x - - - <<">>, <<"c x - - -   x">>,
        <<"f x{", "\t1", "", " # z", " 2 ", "} y 0", "d z">>, <<"f x{", "1,2", "}y -">>,
        <<"l ../{", " x", "y", "} z">>, <<"l x y{", "1", "2", "}">>, <<"l x y/{", "}", "d x">>,
        <<"f x y {", "1", "}">>, <<"f x{", "1", "#">>, <<"f x{">>, <<"f{", "1", "}">>, <<"f x{", " ">>,
        <<"f y/x{1,2} z/">>, <<"f {x,y} $a">>, <<"?fr z/{x,y,} /z">>, <<"f {x,y}{1,2} z">>, <<"f {x,{y,z}}">>,
        <<"l {x,y} z">>, <<"l {x,y} z{1,2}">>, <<"l x {$a,$b}">>, <<"l x">>, <<"l {x,y} -">>,
        <<"d {x,y} 0">>, <<"c {x,y} - - - z">>, <<"rr x\\{y,z} $a">>, <<"r x{2} z">>, <<"r {x,y} z">>,
        <<"r x\\{y,$a} x 0">>, <<"mi - $a">>, <<"mc", "mr - x{1} y">>, <<"d">>,
        <<"$ a y", "d $a$b/$ab">>, <<"$ b x{,y}", "f $b $a", "$ b", "d x$b">>,
        <<"$ ab y", "d $ab", "d $a">>, <<"$ c $a,$b", "l z x/{$c}">>, <<"$ $a c", "d $x">>,
        <<"$ c {x,$c}", "f $c">>, <<"$ c $$b", "f {$c,y} z">>, <<"$", "d x">>, <<"?$ a x", "d $a">>}}
MCInputs == Short \cup Files
=============================================================================
