------------------------------- MODULE MCTrees -------------------------------
(* Small instances of Trees for TLC. *)
EXTENDS Trees, TLC

CONSTANTS a, b, c, d, r1, r2, r3

MCNodes == {a, b, c, d}
MCRequests == {r1, r2, r3}
Symmetry == Permutations(MCNodes) \cup Permutations(MCRequests)
=============================================================================
