---------------------------- MODULE MCRequests ----------------------------
(* What the two services do for a request, side by side: a behaviour is one of
   DomainClaim, Paywall, LiveProbe or QuoteLadder, the others at rest. *)
EXTENDS DomainClaim, MCPaywall, MCLiveProbe, MCQuoteLadder

VARIABLE part   \* which of them this behaviour is about

requestsVars == <<vars, pwVars, lpVars, qlaVars, part>>

(* A component at rest has one initial state. *)
RequestsInit ==
  /\ part \in {"claims", "paywall", "live probe", "quotes"}
  /\ Init /\ PWInit /\ LPInit /\ QLAInit
  /\ part # "claims" => mpp = {} /\ exclusive = {}
  /\ part # "quotes" => degraded = {}

RequestsNext ==
  /\ UNCHANGED part
  /\ \/ part = "claims" /\ Next /\ UNCHANGED <<pwVars, lpVars, qlaVars>>
     \/ part = "paywall" /\ PWNext /\ UNCHANGED <<vars, lpVars, qlaVars>>
     \/ part = "live probe" /\ LPNext /\ UNCHANGED <<vars, pwVars, qlaVars>>
     \/ part = "quotes" /\ QLANext /\ UNCHANGED <<vars, pwVars, lpVars>>

(* Calls of POST /claim/verify are alike, and no property names one. *)
AlikeRequests == Permutations(Requests)

RequestsSpec == RequestsInit /\ [][RequestsNext]_requestsVars
===========================================================================
