---------------------------- MODULE MCLiveProbe ----------------------------
(* LiveProbe with two urls of one host, one stored as L402 behind GET and one
   unknown, and one of another host behind POST. *)
EXTENDS LiveProbe, TLC

CONSTANTS x1, x2, y1

MCHostName == (x1 :> "x") @@ (x2 :> "x") @@ (y1 :> "y")
Stored(protocol, method, failures) == [protocol |-> protocol, method |-> method, failures |-> failures]
MCRow == (x1 :> Stored("L402", "GET", 2)) @@ (x2 :> Stored(Unknown, "GET", 0)) @@ (y1 :> Stored("MPP", "POST", 0))
Offer(protocol, valid) == [protocol |-> protocol, valid |-> valid]
MCReplies ==
  {[status |-> 402, found |-> <<Offer("L402", TRUE), Offer("x402", TRUE)>>],
   [status |-> 402, found |-> <<Offer("MPP", FALSE)>>],
   [status |-> 200, found |-> <<>>], [status |-> 500, found |-> <<>>]}
============================================================================
