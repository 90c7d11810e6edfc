----------------------------- MODULE MCUserRoles -----------------------------
(***************************************************************************)
(* TLC instances of UserRoles.                                             *)
(***************************************************************************)
EXTENDS UserRoles, TLC

CONSTANTS q1, q2, q3, r1, r2, user, admin

\* The role every user is created with, and another one.
UserAndAdmin == r1 :> user @@ r2 :> admin

RequestSymmetry == Permutations(Requests)
=============================================================================
