-------------------------- MODULE MCServicesFair --------------------------
(* What must eventually happen, side by side: a behaviour is one of
   HealthSweep, Quarantine, QueryEmbedding, Webhooks or ProbeQueue, the others at
   rest.
   The fairness of a component is asked where it is at work. *)
EXTENDS HealthSweep, Quarantine, QueryEmbedding, Webhooks, ProbeQueue

CONSTANTS a1, a2, b1

MCUrl == [r \in Rows |-> IF r = b1 THEN "b/1" ELSE "a/1"]
MCHost == [r \in Rows |-> IF r = b1 THEN "b" ELSE "a"]
MCSubscribed == [h \in Hooks |-> Events]

VARIABLE part   \* which of them this behaviour is about

fairVars == <<vars, qVars, qeVars, whVars, pqVars, part>>

FairInit ==
  /\ part \in {"health", "quarantine", "embedding", "webhooks", "queue"}
  /\ Init /\ QInit /\ QEInit /\ WHInit /\ PQInit
  /\ part # "health" => recency = SetToSeq(Rows) /\ a2 \in Candidates({})

FairNext ==
  /\ UNCHANGED part
  /\ \/ part = "health" /\ Next /\ UNCHANGED <<qVars, qeVars, whVars, pqVars>>
     \/ part = "quarantine" /\ QNext /\ UNCHANGED <<vars, qeVars, whVars, pqVars>>
     \/ part = "embedding" /\ QENext /\ UNCHANGED <<vars, qVars, whVars, pqVars>>
     \/ part = "webhooks" /\ WHNext /\ UNCHANGED <<vars, qVars, qeVars, pqVars>>
     \/ part = "queue" /\ PQNext /\ UNCHANGED <<vars, qVars, qeVars, whVars>>

ServicesFairSpec ==
  /\ FairInit /\ [][FairNext]_fairVars
  /\ WF_vars(part = "health" /\ Advance)
  /\ SF_vars(part = "health" /\ SweepStart)
  /\ WF_qVars(part = "quarantine" /\ TimePasses)
  /\ WF_qVars(part = "quarantine" /\ StartRun)
  /\ SF_qVars(part = "quarantine" /\ SomeVerdict)
  /\ \A s \in Reads : WF_qeVars(part = "embedding" /\ (ReadAnswered(s) \/ ReadFailed(s)))
  /\ WF_qeVars(part = "embedding" /\ \E s \in Reads, t \in Texts : ReadCalls(s, t))
  /\ WF_qeVars(part = "embedding" /\ CoolsDown)
  /\ \A t \in Texts : WF_qeVars(part = "embedding" /\ VectorExpires(t))
  /\ \A s \in Slots : WF_whVars(part = "webhooks" /\ (Delivered(s) \/ DeliveryFailed(s)))
  /\ \A e \in Events : WF_whVars(part = "webhooks" /\ DeliverWebhooks(e))
  /\ \A r \in Requests : WF_pqVars(part = "queue" /\ GoesOn(r))

(* EveryRowChecked of HealthSweep, where the sweep is at work: no row that stays
   on the list is put off for ever. *)
RowsChecked == part = "health" => EveryRowChecked
===========================================================================
