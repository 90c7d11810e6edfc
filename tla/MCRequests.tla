------------------------------ MODULE MCRequests ------------------------------
(* A small instance of Requests for TLC. *)
EXTENDS Requests

CONSTANTS r1, r2, u1, u2, u3

MCRequests == {r1, r2}
MCUsers == {u1, u2, u3}
=============================================================================
