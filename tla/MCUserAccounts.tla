--------------------------- MODULE MCUserAccounts ---------------------------
(***************************************************************************)
(* TLC instances of UserAccounts.                                          *)
(***************************************************************************)
EXTENDS UserAccounts, TLC

\* Requests are interchangeable.
RequestSymmetry == Permutations(Requests)
=============================================================================
