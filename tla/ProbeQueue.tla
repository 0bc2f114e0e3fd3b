----------------------------- MODULE ProbeQueue -----------------------------
(* The probes of registrations for one host (routes/api/register.js,
   withProbeQueue and the probe of the POST handler).  A request takes the gate
   in the map as the one before it, leaves its own gate there, and opens it when
   its probe has returned or thrown; the entry is deleted by the request that
   still finds its own.  HostLock says what this amounts to. *)
EXTENDS Naturals, SequencesExt

CONSTANTS Requests, NoGate
ASSUME ProbeQueueAssumption == NoGate \notin Requests

VARIABLES
  stage,    \* where each request is in the handler
  ahead,    \* the request whose gate it awaits: prev, NoGate once that is open
  lastIn,   \* whose gate domainProbeQueue holds for the host
  arrived   \* history: the requests in the queue, in the order they came

pqVars == <<stage, ahead, lastIn, arrived>>

Stages == {"out", "queued", "probing", "discovering", "reprobing"}

PQTypeOK ==
  /\ stage \in [Requests -> Stages]
  /\ ahead \in [Requests -> Requests \cup {NoGate}]
  /\ lastIn \in Requests \cup {NoGate}
  /\ arrived \in Seq(Requests)

PQInit ==
  /\ stage = [r \in Requests |-> "out"]
  /\ ahead = [r \in Requests |-> NoGate]
  /\ lastIn = NoGate
  /\ arrived = <<>>

(* A registration passes its checks and takes its place; no await in between. *)
Arrives(r) ==
  /\ stage[r] = "out"
  /\ stage' = [stage EXCEPT ![r] = "queued"]
  /\ ahead' = [ahead EXCEPT ![r] = lastIn]
  /\ lastIn' = r
  /\ arrived' = Append(arrived, r)

(* The gate before it is open and the delay between probes is over. *)
Starts(r) ==
  /\ stage[r] = "queued" /\ ahead[r] = NoGate
  /\ stage' = [stage EXCEPT ![r] = "probing"]
  /\ UNCHANGED <<ahead, lastIn, arrived>>

(* An L402 endpoint answered 400 or 406: its host is asked how to call it, and
   it is probed again if the host says. *)
Discovers(r) ==
  /\ stage[r] = "probing"
  /\ stage' = [stage EXCEPT ![r] = "discovering"]
  /\ UNCHANGED <<ahead, lastIn, arrived>>

Reprobes(r) ==
  /\ stage[r] = "discovering"
  /\ stage' = [stage EXCEPT ![r] = "reprobing"]
  /\ UNCHANGED <<ahead, lastIn, arrived>>

(* The request deletes the entry without looking whose it is. *)
EntryDropped(r) == NoGate

EntryAfter(r) == IF lastIn = r THEN NoGate ELSE lastIn

(* The probe returned or threw: the finally block. *)
Finishes(r) ==
  /\ stage[r] \in {"probing", "discovering", "reprobing"}
  /\ stage' = [stage EXCEPT ![r] = "out"]
  /\ ahead' = [q \in Requests |-> IF ahead[q] = r THEN NoGate ELSE ahead[q]]
  /\ lastIn' = EntryAfter(r)
  /\ \E i \in DOMAIN arrived : arrived[i] = r /\ arrived' = RemoveAt(arrived, i)

PQNext ==
  \E r \in Requests : \/ Arrives(r) \/ Starts(r) \/ Discovers(r)
                      \/ Reprobes(r) \/ Finishes(r)

PQSpec == PQInit /\ [][PQNext]_pqVars

(* The delay is a timer and every fetch has a timeout, so a request that may go
   on does; that another one registers is up to the clients. *)
GoesOn(r) == Starts(r) \/ Discovers(r) \/ Reprobes(r) \/ Finishes(r)
PQFairness == \A r \in Requests : WF_pqVars(GoesOn(r))

----------------------------------------------------------------------------
Probing == {r \in Requests : stage[r] \in {"probing", "discovering", "reprobing"}}

Lock == INSTANCE HostLock WITH line <- arrived, served <- Probing # {}

(* The chain of gates is a lock on the host: one probe at a time and first come
   first served, discovery and second probe included, under every interleaving
   of arrivals and ends; and no registration waits forever. *)
ServedInTurn == Lock!LockSpec
============================================================================
