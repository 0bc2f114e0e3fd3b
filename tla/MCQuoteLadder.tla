--------------------------- MODULE MCQuoteLadder ---------------------------
(* QuoteLadder with four rows, one a proven fallback and one under the floor of
   the wallets, in pages of two, over both routes. *)
EXTENDS QuoteLadder

CONSTANTS k1, k2, k3, k4

MCCatalogSats == (k1 :> 400) @@ (k2 :> 100) @@ (k3 :> 500) @@ (k4 :> 400)
MCScore == (k1 :> 1) @@ (k2 :> 2) @@ (k3 :> 2) @@ (k4 :> 2)
MCLatency == (k1 :> 5) @@ (k2 :> 1) @@ (k3 :> 9) @@ (k4 :> 1)
MCRoutes == <<"direct-l402", "l402space">>
Adapter(name, minSats, real) ==
  [name |-> name, l402 |-> name # "x402-stub", minSats |-> minSats, movesRealFunds |-> real, onlyWhenPinned |-> name = "mock"]
MCAdapters == <<Adapter("golem", 333, TRUE), Adapter("mock", 0, FALSE), Adapter("x402-stub", 0, FALSE)>>
Says(stated, invoice) == [stated |-> stated, invoice |-> invoice]
MCChallenges == {Says(Nil, 400), Says(400, 700), Says(400, 900), Says(200, 200), Says(900, 900), Says(1100, 1100), Says(400, Nil)}
MCDegraded == {Pair(k3, "direct-l402"), Pair(k1, "*")}
============================================================================
