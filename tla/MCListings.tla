---------------------------- MODULE MCListings ----------------------------
(* How rows come into the index and its search, side by side: a behaviour is
   one of BazaarPass, Intake, ProbeConfig or VectorIndex, the others at rest. *)
EXTENDS BazaarPass, Intake, ProbeConfig, VectorIndex

CONSTANTS u1

MCKeys == {<<u1, "MPP">>, <<u1, "L402">>, <<u1, "x402">>}

Answered(status, challenge) == [status |-> status, challenge |-> challenge]
MCHeadAnswers ==
  {Answered("402", "header"), Answered("402", "none"), Answered("other", "none"), Failed}
MCGetAnswers ==
  {Answered("402", "header"), Answered("402", "body"), Answered("402", "none"),
   Answered("400", "none"), Answered("406", "none"), Answered("405/200", "none")}
MCPostAnswers ==
  {Answered("402", "header"), Answered("402", "body"), Answered("402", "foreign"),
   Answered("405/200", "header"), Answered("400", "none")}

VARIABLE part   \* which of them this behaviour is about

listingsVars == <<vars, inVars, pcVars, viVars, part>>

(* A component at rest has one initial state. *)
RestingCatalog == CHOOSE s \in SetToAllKPermutations(Resources) : Len(s) = 2
RestingSite ==
  [l402 |-> TRUE, head |-> Failed, get |-> Answered("400", "none"),
   post |-> [b \in Bodies |-> Answered("400", "none")], says |-> Unsaid]

ListingsInit ==
  /\ part \in {"bazaar", "intake L402", "intake x402", "probe", "vectors"}
  /\ IF part = "bazaar" THEN Init ELSE catalog = RestingCatalog /\ Init
  /\ InInit
  /\ IF part = "probe" THEN PCInit ELSE site = RestingSite /\ PCInit
  /\ IF part = "vectors" THEN VIInit ELSE svc = [r \in Ids |-> "new"] /\ VIInit

(* The host has two rows at most: MPP and one of the others. *)
IntakeStays ==
  \/ part = "intake L402" /\ \A k \in Keys : Stored(k)' => k[2] # "x402"
  \/ part = "intake x402" /\ \A k \in Keys : Stored(k)' => k[2] # "L402"

ListingsNext ==
  /\ UNCHANGED part
  /\ \/ part = "bazaar" /\ Next /\ UNCHANGED <<inVars, pcVars, viVars>>
     \/ part \in {"intake L402", "intake x402"} /\ InNext /\ IntakeStays /\ UNCHANGED <<vars, pcVars, viVars>>
     \/ part = "probe" /\ PCNext /\ UNCHANGED <<vars, inVars, viVars>>
     \/ part = "vectors" /\ VINext /\ UNCHANGED <<vars, inVars, pcVars>>

ListingsSpec == ListingsInit /\ [][ListingsNext]_listingsVars

(* Every variable of the component at work has its type. *)
ListingsTypeOK ==
  CASE part = "bazaar" -> TypeOK
    [] part \in {"intake L402", "intake x402"} -> InTypeOK
    [] part = "probe" -> PCTypeOK
    [] part = "vectors" -> VITypeOK
===========================================================================
