----------------------------- MODULE MCPaywall -----------------------------
(* Paywall with one request per window: a window of one tick for the queries of a
   minute, of three for those of an hour, of two otherwise. *)
EXTENDS Paywall

MCLimit == [l \in Limiters |-> 1]
MCWindow == [l \in Limiters |-> CASE l = "queryMin" -> 1 [] l = "queryHour" -> 3 [] OTHER -> 2]
============================================================================
