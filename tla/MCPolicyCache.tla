---------------------------- MODULE MCPolicyCache ----------------------------
(***************************************************************************)
(* TLC instance of PolicyCache: two servers and two rules.                 *)
(***************************************************************************)
EXTENDS PolicyCache

CONSTANTS s1, s2, ra, rb

MCServers == {s1, s2}
MCRules == {ra, rb}
=============================================================================
