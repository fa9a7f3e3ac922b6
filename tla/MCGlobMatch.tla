---------------------------- MODULE MCGlobMatch ----------------------------
(* A root file system /r with up to three links, beside a host that has the
   same names. *)
EXTENDS GlobMatch

MCPrefix == <<"r">>
MCWidth == "r" :> 1 @@ "b" :> 1 @@ "cc" :> 2 @@ "ee" :> 2 @@ "ddd" :> 3 @@ "f" :> 1 @@ ".." :> 2
R(p) == MCPrefix \o p

Base == <<>> :> Dir @@ R(<<>>) :> Dir @@ R(<<"b">>) :> Dir @@ R(<<"b", "f">>) :> File @@
        R(<<"ee">>) :> Dir @@ R(<<"ee", "f">>) :> File @@
        <<"b">> :> Dir @@ <<"b", "f">> :> File @@ <<"ee">> :> Dir

Rel(to) == LinkTo(FALSE, to)
Abs(to) == LinkTo(TRUE, to)

(* /r/cc, /r/ddd and /r/b/ddd *)
Out == {Rel(<<"b">>), Rel(<<"ddd">>), Rel(<<"b", "ddd">>), Abs(<<"b">>), Abs(<<"ddd">>), Dir}
In == {Rel(<<"f">>), Rel(<<"..", "b", "f">>), Rel(<<"..", "ee">>), Rel(<<"..", "cc">>),
       Rel(<<"ddd">>), Abs(<<"cc">>), Abs(<<>>), Rel(<<"..", "..", "b">>)}
WithLinks ==
    {R(<<"cc">>) :> x @@ R(<<"ddd">>) :> y @@ R(<<"b", "ddd">>) :> z @@ Base :
        x \in Out \cup {Rel(<<"ee">>)}, y \in Out \cup {Rel(<<"cc">>)}, z \in In}

(* The prefix itself is a link. *)
LinkedRoot == R(<<>>) :> Rel(<<"b">>) @@ <<>> :> Dir @@ <<"b">> :> Dir @@ <<"b", "f">> :> File
MCFileSystems == WithLinks \cup {LinkedRoot}

MCOmit == <<"-">>
Lit(type, p, dst) == [type |-> type, path |-> p, elems |-> <<>>, dst |-> dst]
Glob(type, elems, dst) == [type |-> type, path |-> elems[1].p, elems |-> elems, dst |-> dst]
Elem(p, re) == [p |-> p, re |-> re]
Every == {"b", "cc", "ddd", "ee", "f"}
MCLines ==
    {Lit("fr", R(<<"cc">>), MCOmit), Lit("fr", R(<<"cc", "f">>), MCOmit),
     Lit("fr", R(<<"ddd", "ddd", "f">>), MCOmit),
     Lit("rr", R(<<"cc", "ddd", "f">>), MCOmit), Lit("rr", R(<<"b", "ddd">>), <<"f">>),
     Lit("Rr", R(<<"cc">>), <<"cc">>), Lit("Rr", R(<<>>), MCOmit),
     Glob("rr", <<Elem(R(<<>>), Every), Elem(<<"f">>, Every)>>, MCOmit),
     Glob("rr", <<Elem(R(<<"cc">>), Every)>>, MCOmit),
     Glob("rr", <<Elem(R(<<>>), {"b", "cc"}), Elem(<<>>, Every)>>, <<"ee">>),
     Glob("r", <<Elem(<<>>, Every), Elem(<<"ddd">>, {"b", "f"})>>, MCOmit),
     Glob("r", <<Elem(R(<<"ddd">>), Every)>>, <<"ee">>)}
=============================================================================
