---------------------------- MODULE MCListPaging ----------------------------
(***************************************************************************)
(* TLC instances of ListPaging.                                            *)
(***************************************************************************)
EXTENDS ListPaging

\* No size, a size out of range, the smallest, the default and one above the
\* maximum.
RequestedSizes == {-1, 0, 1, 2, 7}
=============================================================================
