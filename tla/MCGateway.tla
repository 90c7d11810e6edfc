------------------------------ MODULE MCGateway ------------------------------
(* Small instances of Gateway for TLC. *)
EXTENDS Gateway

CONSTANTS u, v, n, p, q, r

MCUsers == {u, v}
MCNames == {n}
MCPasswords == {p, q}
MCRequests == {r}
=============================================================================
