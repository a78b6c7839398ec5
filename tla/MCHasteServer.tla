--------------------------- MODULE MCHasteServer ---------------------------
(* Instances of HasteServer for TLC: key "a", the dotted key "a.b" that a    *)
(* random generator may produce, and the static document "s".                *)
EXTENDS HasteServer, TLC

CONSTANTS r1, r2, r3

MCKeys == {<<"a">>, <<"a", "b">>, <<"s">>}
MCGeneratedKeys == {<<"a">>, <<"a", "b">>}
MCBodies == {<<"x", "y">>, <<"z", "z", "z">>}
MCStaticDocs == <<[key |-> <<"s">>, content |-> <<"d">>]>>
Symmetry == Permutations(Requests)
=============================================================================
