----------------------------- MODULE MCRouter -----------------------------
(* Small instances of Router. *)
EXTENDS Router, TLC

CONSTANTS c1, c2, c3, p1, p2, k1, k2

Symmetric == Permutations(Calls) \union Permutations(Principals) \union Permutations(Candidates)
===========================================================================
