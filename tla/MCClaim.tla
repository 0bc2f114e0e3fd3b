------------------------------ MODULE MCClaim ------------------------------
(* Small instances of DomainClaim. *)
EXTENDS DomainClaim, TLC

CONSTANTS s1, s2, v1, v2

Symmetric == Permutations(Services) \union Permutations(Requests)
============================================================================
