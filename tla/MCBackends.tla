----------------------------- MODULE MCBackends ----------------------------
(* Instances of Backends for TLC. *)
EXTENDS Backends, TLC

CONSTANTS p1, p2, k1, k2

MCProcs == {p1, p2}
MCKeys == {k1, k2}
MCValues == {<<"a", "b">>, <<"c">>}
MCExpirations == {-1, 0, 1, 3, 9}      \* a .cfg has no negative numbers
Symmetry == Permutations(MCProcs) \cup Permutations(MCKeys)
=============================================================================
