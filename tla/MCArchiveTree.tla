--------------------------- MODULE MCArchiveTree ---------------------------
(***************************************************************************)
(* Lists for ArchiveTree: up to three of a few entries that are above,     *)
(* below and beside each other, in every order.                            *)
(***************************************************************************)
EXTENDS ArchiveTree, TLC

MCNames == <<"", "a", "b", "c">>

E(type, dst, mode, own, time) ==
    [type |-> type, dst |-> dst, src |-> "s", mode |-> mode, own |-> own, time |-> time]

(* Files below and beside each other, directories with modes of their own, a
   link in the way of a directory, and a name that is put twice. *)
Entries ==
    {E("f", <<"a">>, "644", "u", 1),
     E("d", <<"a">>, "700", "u", 0),
     E("f", <<"a", "b">>, "644", "root", 0),
     E("c", <<"a", "c">>, "600", "u", 0),
     E("d", <<"a", "b", "c">>, "711", "u", 0),
     E("l", <<"b">>, "777", "root", 0),
     E("b64", <<"b", "c">>, "644", "u", 0),
     E("d", <<"">>, "700", "root", 0),
     E("d", <<"", "b", "c">>, "700", "u", 0)}

(* Destinations that a rename mask made absolute. *)
Absolute == {E("f", <<"", "a", "b">>, "644", "u", 0), E("d", <<"", "b">>, "700", "u", 0),
             E("f", <<"c">>, "644", "root", 0), E("f", <<"", "", "c">>, "644", "u", 0)}

Lists(S) == UNION {[1..n -> S] : n \in 0..3}

MCConfigs == Lists(Entries \cup Absolute)
=============================================================================
