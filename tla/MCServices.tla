---------------------------- MODULE MCServices ----------------------------
(* Components of the two services that share no state a property of theirs
   depends on, side by side: a behaviour is one of HealthSweep, Webhooks,
   QueryLog, Migrations, Onboarding, Scheduler or Discovery, the others at
   rest. *)
EXTENDS HealthSweep, Webhooks, QueryLog, Migrations, Onboarding, MCScheduler, MCDiscovery

CONSTANTS a1, a2, b1, h1, added, removed

MCUrl == [r \in Rows |-> IF r = b1 THEN "b/1" ELSE "a/1"]
MCHost == [r \in Rows |-> IF r = b1 THEN "b" ELSE "a"]
MCSubscribed == [h \in Hooks |-> IF h = h1 THEN {added, removed} ELSE {added}]

VARIABLE part   \* which of them this behaviour is about

servicesVars == <<vars, whVars, qlVars, mgVars, obVars, scVars, dcVars, part>>

(* A component at rest has one initial state; of the rows others act on, a2 may
   be off the list or unprobeable at the start. *)
ServicesInit ==
  /\ part \in {"health", "webhooks", "log", "boot", "cards", "scheduler", "discovery"}
  /\ Init /\ WHInit /\ QLInit /\ MGInit /\ OBInit /\ SCInit /\ DCInit
  /\ part # "health" =>
       recency = SetToSeq(Rows) /\ a2 \in Candidates({})
  /\ b1 \in Candidates({})
  /\ part # "boot" => services.mpp /\ claims.table = "new"
                     /\ checks = [full |-> TRUE, leftover |-> FALSE]

ServicesNext ==
  /\ UNCHANGED part
  /\ \/ /\ part = "health" /\ Next
        /\ UNCHANGED <<whVars, qlVars, mgVars, obVars, scVars, dcVars>>
     \/ /\ part = "webhooks" /\ WHNext
        /\ UNCHANGED <<vars, qlVars, mgVars, obVars, scVars, dcVars>>
     \/ /\ part = "log" /\ QLNext
        /\ UNCHANGED <<vars, whVars, mgVars, obVars, scVars, dcVars>>
     \/ /\ part = "boot" /\ MGNext
        /\ UNCHANGED <<vars, whVars, qlVars, obVars, scVars, dcVars>>
     \/ /\ part = "cards" /\ OBNext
        /\ UNCHANGED <<vars, whVars, qlVars, mgVars, scVars, dcVars>>
     \/ /\ part = "scheduler" /\ SCNext
        /\ UNCHANGED <<vars, whVars, qlVars, mgVars, obVars, dcVars>>
     \/ /\ part = "discovery" /\ DCNext
        /\ UNCHANGED <<vars, whVars, qlVars, mgVars, obVars, scVars>>

ServicesSpec == ServicesInit /\ [][ServicesNext]_servicesVars

(* Every variable of the component at work has its type. *)
ServicesTypeOK ==
  CASE part = "health" -> TypeOK
    [] part = "webhooks" -> WHTypeOK
    [] part = "log" -> QLTypeOK
    [] part = "boot" -> MGTypeOK
    [] part = "cards" -> OBTypeOK
    [] part = "scheduler" -> SCTypeOK
    [] part = "discovery" -> DCTypeOK
===========================================================================
