------------------------------ MODULE HostLock ------------------------------
(* What the registration handler promises a host (routes/api/register.js, the
   comment over domainProbeQueue): the probes of one host run one at a time, in
   the order the registrations arrived, and each of them gets its turn. *)
EXTENDS Naturals, Sequences

CONSTANT Requests

VARIABLES
  line,   \* the registrations that arrived and are not done, oldest first
  served  \* whether the first of them has its turn

lockVars == <<line, served>>

LockInit == line = <<>> /\ served = FALSE

Join(r) ==
  /\ \A i \in DOMAIN line : line[i] # r
  /\ line' = Append(line, r)
  /\ UNCHANGED served

Serve ==
  /\ line # <<>> /\ ~served
  /\ served' = TRUE
  /\ UNCHANGED line

Leave ==
  /\ served
  /\ line' = Tail(line) /\ served' = FALSE

LockNext == (\E r \in Requests : Join(r)) \/ Serve \/ Leave

LockSafety == LockInit /\ [][LockNext]_lockVars

LockSpec == LockSafety /\ WF_lockVars(Serve) /\ WF_lockVars(Leave)
============================================================================
