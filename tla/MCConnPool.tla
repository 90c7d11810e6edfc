----------------------------- MODULE MCConnPool -----------------------------
(***************************************************************************)
(* TLC instances of ConnPool.                                              *)
(***************************************************************************)
EXTENDS ConnPool, TLC

\* Requests of one kind are interchangeable.
RequestSymmetry == Permutations(Assigners) \cup Permutations(Requests \ Assigners)
=============================================================================
