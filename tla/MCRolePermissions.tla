-------------------------- MODULE MCRolePermissions --------------------------
(***************************************************************************)
(* TLC instances of RolePermissions.                                       *)
(***************************************************************************)
EXTENDS RolePermissions, TLC

CONSTANTS q1, q2, q3, r1, r2, p1, p2, p3, a, b

\* p1 and p2 are about different resources; p3 is about the one of p2.
TwoResources == p1 :> a @@ p2 :> b
SharedResource == p1 :> a @@ p2 :> b @@ p3 :> b
OneWithout == p1 :> a @@ p2 :> NoResource

\* Requests are interchangeable; used by the runs without temporal properties.
RequestSymmetry == Permutations(Requests)
=============================================================================
