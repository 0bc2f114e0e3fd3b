--------------------------- MODULE PaidDelivery ---------------------------
(***************************************************************************)
(* What the router promises about one paid job, without saying how it is   *)
(* carried out: a card hold is placed, the provider is paid at most once   *)
(* and only under the hold, the result is obtained at most once and only   *)
(* from a provider that was paid, and the hold ends in exactly one of two  *)
(* ways: charged, which needs the result, or returned, which excludes it.  *)
(* The tool description in router/src/tools/invoke.ts says it in one line: *)
(* "You are charged only when the result is delivered."                    *)
(***************************************************************************)
CONSTANT Jobs

VARIABLES
  money,    \* money[j]: where the agent's money for job j is
  bought,   \* jobs whose provider credential the router has bought
  result    \* jobs whose result the router has in its hands

vars == <<money, bought, result>>

Init == /\ money = [j \in Jobs |-> "none"]
        /\ bought = {}
        /\ result = {}

(* The card hold is placed. *)
Hold(j) == /\ money[j] = "none"
           /\ money' = [money EXCEPT ![j] = "held"]
           /\ UNCHANGED <<bought, result>>

(* The provider is paid and its credential is the router's. *)
Buy(j) == /\ money[j] = "held"
          /\ j \notin bought
          /\ bought' = bought \union {j}
          /\ UNCHANGED <<money, result>>

(* The provider hands over the result. *)
Obtain(j) == /\ money[j] = "held"
             /\ j \in bought \ result
             /\ result' = result \union {j}
             /\ UNCHANGED <<money, bought>>

(* The hold is captured: the agent pays. *)
Charge(j) == /\ money[j] = "held"
             /\ j \in result
             /\ money' = [money EXCEPT ![j] = "captured"]
             /\ UNCHANGED <<bought, result>>

(* The hold is voided: the agent pays nothing. *)
Return(j) == /\ money[j] = "held"
             /\ j \notin result
             /\ money' = [money EXCEPT ![j] = "voided"]
             /\ UNCHANGED <<bought, result>>

Next == \E j \in Jobs : Hold(j) \/ Buy(j) \/ Obtain(j) \/ Charge(j) \/ Return(j)

Spec == Init /\ [][Next]_vars
===========================================================================
