--------------------------- MODULE MCElfResolver ---------------------------
(* Small root file systems below /r, of programs and libraries that need each
   other, and two or three lines. *)
EXTENDS ElfResolver

MCPrefix == <<"r">>
MCWidth == [name \in {"r", "lib", "opt", "app", "bin", "etc", "usr", "x", "y", "z", "c", "s", "h", "i", "k", "p", "q", "t", "u", "v"} |-> 1]
R(p) == MCPrefix \o p
MCLdSoConf == <<"etc", "c">>
MCDefaultLibs == <<<<"lib">>, <<"usr">>>>

Lib64(needed) == [class |-> 64, interp |-> <<>>, needed |-> needed, rpath |-> <<>>, runpath |-> <<>>]
Lib32(needed) == [Lib64(needed) EXCEPT !.class = 32]
Interp == <<"lib", "h">>
Origin == Directory("$", <<>>)
Opt == Directory("/", <<"opt">>)
Up == Directory("$", <<"..", "app">>)

(* /bin/p and /bin/q need libraries that need each other, and z, which only
   the directory of y has; c is the C library and h the interpreter.  /usr/t
   is a 32-bit program.  /bin/v needs a library by its path, and /bin/u has
   one directory by two paths. *)
MCElfFiles ==
    R(<<"bin", "p">>) :> [Lib64(<<Lib("x"), Lib("c")>>) EXCEPT !.interp = Interp, !.runpath = <<Opt>>] @@
    R(<<"bin", "q">>) :> [Lib64(<<Lib("y"), Lib("s"), Lib("x")>>) EXCEPT !.interp = Interp] @@
    R(<<"bin", "v">>) :> Lib64(<<[abs |-> TRUE, p |-> <<"lib", "c">>], Lib("z")>>) @@
    R(<<"bin", "u">>) :> [Lib64(<<Lib("y"), Lib("x")>>) EXCEPT
                             !.rpath = <<Up, Directory("/", <<"app">>)>>, !.runpath = <<Up, Opt>>] @@
    R(<<"usr", "t">>) :> [Lib32(<<Lib("x")>>) EXCEPT !.interp = <<"usr", "i">>,
                                !.rpath = <<Opt, Directory("", <<"app">>)>>] @@
    R(<<"opt", "x">>) :> [Lib64(<<Lib("y"), Lib("c")>>) EXCEPT !.rpath = <<Origin>>] @@
    R(<<"app", "y">>) :> [Lib64(<<Lib("x"), Lib("z")>>) EXCEPT !.rpath = <<Origin>>] @@
    R(<<"app", "z">>) :> Lib64(<<>>) @@
    R(<<"lib", "c">>) :> [Lib64(<<Lib("h")>>) EXCEPT !.interp = Interp] @@
    R(<<"lib", "h">>) :> Lib64(<<>>) @@
    R(<<"usr", "x">>) :> Lib32(<<>>) @@
    R(<<"usr", "i">>) :> Lib32(<<>>) @@
    R(<<"k", "x">>) :> Lib64(<<Lib("y")>>) @@
    R(<<"k", "y">>) :> Lib64(<<Lib("c"), Lib("z")>>)

Dirs(ps) == [p \in ps |-> Dir]
Files(ps) == [p \in ps |-> File]
Base == Dirs({<<>>, R(<<>>)} \cup {R(<<d>>) : d \in {"lib", "bin", "etc", "usr", "app", "k"}})
        @@ Files({R(<<"etc", e>>) : e \in {"c", "x", "y"}})
        @@ Files(DOMAIN MCElfFiles \ {R(<<"bin", "u">>), R(<<"bin", "v">>), R(<<"opt", "x">>), R(<<"app", "y">>)})

(* /opt and /app/y are there, or they are links to /k and /k/y. *)
Real == Base @@ Dirs({R(<<"opt">>)}) @@ Files({R(<<"opt", "x">>), R(<<"app", "y">>)})
Linked(abs) == Base @@ R(<<"opt">>) :> LinkTo(abs, <<"k">>) @@
               R(<<"app", "y">>) :> LinkTo(TRUE, <<"k", "y">>) @@
               Files({R(<<"app", "x">>)})
(* /opt has an empty file with the name of the C library. *)
MCTruncated == {R(<<"opt", "c">>)}
(* A directory has the name of a library. *)
Odd == Dirs({R(<<"opt">>), R(<<"opt", "x">>)}) @@ Linked(FALSE)

(* ld.so.conf *)
Both == IncludeLine(FALSE, <<<<"x">>, <<"y">>>>)
Nested(dir) == R(<<"etc", "c">>) :> <<Both, DirLine(<<"app">>)>> @@
          R(<<"etc", "x">>) :> <<DirLine(dir), DirLine(dir)>> @@
          R(<<"etc", "y">>) :> <<IncludeLine(TRUE, <<<<"etc", "x">>, <<"etc", "z">>>>), DirLine(<<"bin">>)>>
Cyclic == R(<<"etc", "c">>) :> <<Both>> @@
          R(<<"etc", "y">>) :> <<IncludeLine(TRUE, <<<<"etc", "c">>>>)>>

L(dir, name) == [file |-> R(<<dir, name>>), ld |-> <<>>, find |-> FALSE]
LWith(dir, name, ld) == [L(dir, name) EXCEPT !.ld = <<ld>>]
I(name) == [file |-> <<name>>, ld |-> <<>>, find |-> TRUE]
P == L("bin", "p")
Q == L("bin", "q")
T == LWith("usr", "t", Directory("/", <<"usr">>))

World(nodes, ld, lines) == [fs |-> nodes, conf |-> ld, jobs |-> lines]
MCWorlds ==
    {World(Real, Nested(<<"opt">>), lines) : lines \in
        {<<P, P>>, <<P, L("lib", "c")>>, <<Q, I("y")>>, <<T, I("x")>>, <<T, P>>, <<T, T>>, <<I("x"), Q>>,
         <<L("lib", "c"), I("s")>>}}
    \cup {World(Linked(abs), Nested(<<"opt">>), <<P, Q>>) : abs \in BOOLEAN}
    \cup {World(Odd, Nested(<<"opt">>), <<P>>),
          World(Real @@ Files({R(<<"bin", "v">>)}), Nested(<<"opt">>), <<L("bin", "v"), T>>),
          World(Real @@ Files({R(<<"bin", "u">>)}), Nested(<<"opt">>), <<L("bin", "u"), P>>),
          World(Real @@ Files(MCTruncated), Nested(<<"opt">>), <<P>>),
          World(Real, Nested(<<"lib", "c">>), <<P, I("z")>>),
          World(Real, Nested(<<"usr">>), <<I("x"), P>>),
          World(Real, Cyclic, <<P>>)}
MCLibcSo == "s"

(* Expand keeps its promise here, and there are i lines it is about. *)
ASSUME FindAssumption ==
    /\ ExpandsInRoot
    /\ \E w \in Worlds : Plain(w.fs) /\ \E t \in DOMAIN w.jobs : w.jobs[t].find
=============================================================================
