------------------------------ MODULE Webhooks ------------------------------
(* Webhooks: an event is sent to every active hook subscribed to it, all at
   once and with nobody waiting; each delivery writes the failure count it
   computes from the row it read before the request
   (src/src/services/webhooks.js, events.js).  Deliveries of several events to
   one hook overlap.  Their rows survive a crash, the deliveries do not. *)
EXTENDS Naturals, FiniteSets

CONSTANTS
  Hooks,         \* webhooks
  Events,        \* event names
  Subscribed,    \* per hook, the events it is sent (its events and its filter)
  MAX_FAILURES,  \* failure_count at which a hook is deactivated
  Slots,         \* bound: deliveries that may be out at the same time
  MaxCount,      \* bound: failures counted by the history
  MayCrash       \* may the process die?

ASSUME WebhooksAssumption ==
  /\ IsFiniteSet(Hooks) /\ Subscribed \in [Hooks -> SUBSET Events]
  /\ MAX_FAILURES \in Nat \ {0} /\ MaxCount \in Nat /\ MaxCount >= MAX_FAILURES
  /\ MayCrash \in BOOLEAN

VARIABLES
  hook,   \* per hook: its row, or that it was never registered or deleted
  sends,    \* per slot: a delivery with the count it read, or nothing
  answers,\* hooks whose receiver answers 2xx
  failed  \* history: failed deliveries of the hook, counted up to MaxCount

whVars == <<hook, sends, answers, failed>>

NoHook == [is |-> "none"]
Hook(active, n) == [is |-> "row", active |-> active, failure_count |-> n]
NoDelivery == [is |-> "none"]
Delivery(h, n) == [is |-> "sent", to |-> h, read |-> n]

Registered(h) == hook[h].is = "row"
Active(h) == Registered(h) /\ hook[h].active
Free == {s \in Slots : sends[s].is = "none"}

WHTypeOK ==
  /\ hook \in [Hooks -> {NoHook} \cup
       [is : {"row"}, active : BOOLEAN, failure_count : 0..MAX_FAILURES]]
  /\ sends \in [Slots -> {NoDelivery} \cup
       [is : {"sent"}, to : Hooks, read : 0..(MAX_FAILURES - 1)]]
  /\ answers \subseteq Hooks
  /\ failed \in [Hooks -> 0..MaxCount]

WHInit ==
  /\ hook = [h \in Hooks |-> NoHook]
  /\ sends = [s \in Slots |-> NoDelivery]
  /\ answers = Hooks
  /\ failed = [h \in Hooks |-> 0]

----------------------------------------------------------------------------
RegisterWebhook(h) ==
  /\ hook[h].is = "none"
  /\ \A s \in Slots : sends[s].is = "sent" => sends[s].to # h   \* a fresh id
  /\ hook' = [hook EXCEPT ![h] = Hook(TRUE, 0)]
  /\ failed' = [failed EXCEPT ![h] = 0]
  /\ UNCHANGED <<sends, answers>>

(* The owner shows the secret.  Deliveries that are out are not called back. *)
DeleteWebhook(h) ==
  /\ Registered(h)
  /\ hook' = [hook EXCEPT ![h] = NoHook]
  /\ UNCHANGED <<sends, answers, failed>>

Recipients(e) == {h \in Hooks : Active(h) /\ e \in Subscribed[h]}

(* One delivery per matching hook, each holding the row it read. *)
DeliverWebhooks(e) ==
  /\ Recipients(e) # {} /\ Cardinality(Free) >= Cardinality(Recipients(e))
  /\ \E at \in [Recipients(e) -> Free] :
       /\ \A h, i \in Recipients(e) : at[h] = at[i] => h = i
       /\ sends' = [s \in Slots |->
            IF \E h \in Recipients(e) : at[h] = s
            THEN LET h == CHOOSE i \in Recipients(e) : at[i] = s
                 IN Delivery(h, hook[h].failure_count)
            ELSE sends[s]]
  /\ UNCHANGED <<hook, answers, failed>>

(* A 2xx: the count starts over; an inactive hook stays inactive. *)
Delivered(s) ==
  /\ sends[s].is = "sent" /\ sends[s].to \in answers
  /\ LET h == sends[s].to
     IN hook' = IF Registered(h) THEN [hook EXCEPT ![h].failure_count = 0] ELSE hook
  /\ sends' = [sends EXCEPT ![s] = NoDelivery]
  /\ UNCHANGED <<answers, failed>>

(* Deactivated one failure early. *)
OneEarly(h, read) ==
  Hook(hook[h].active /\ read + 1 < MAX_FAILURES - 1, read + 1)

(* The count is written back as it was read. *)
NotCounted(h, read) == Hook(hook[h].active /\ read < MAX_FAILURES, read)

(* incrementFailure: from the row the delivery read, not from the row that is
   there now.  An UPDATE of a deleted hook changes nothing. *)
Incremented(h, read) ==
  LET newCount == read + 1
  IN Hook(hook[h].active /\ newCount < MAX_FAILURES, newCount)

(* Another status, an error, or the 5 s. *)
DeliveryFailed(s) ==
  /\ sends[s].is = "sent" /\ sends[s].to \notin answers
  /\ LET h == sends[s].to
     IN /\ hook' = IF Registered(h)
                   THEN [hook EXCEPT ![h] = Incremented(h, sends[s].read)] ELSE hook
        /\ failed' = [failed EXCEPT ![h] = IF @ < MaxCount THEN @ + 1 ELSE @]
  /\ sends' = [sends EXCEPT ![s] = NoDelivery]
  /\ UNCHANGED answers

(* The receiver goes away or comes back. *)
ReceiverTurns(h) ==
  /\ answers' = IF h \in answers THEN answers \ {h} ELSE answers \cup {h}
  /\ UNCHANGED <<hook, sends, failed>>

WHCrash ==
  /\ MayCrash
  /\ sends' = [s \in Slots |-> NoDelivery]
  /\ UNCHANGED <<hook, answers, failed>>

WHNext ==
  \/ \E h \in Hooks : RegisterWebhook(h) \/ DeleteWebhook(h) \/ ReceiverTurns(h)
  \/ \E e \in Events : DeliverWebhooks(e)
  \/ \E s \in Slots : Delivered(s) \/ DeliveryFailed(s)
  \/ WHCrash

WHSpec == WHInit /\ [][WHNext]_whVars

(* A request ends by its 5 s.  That events of every name keep coming is an
   assumption about the index: nothing deactivates a hook that is sent nothing. *)
WHFairness ==
  /\ \A s \in Slots : WF_whVars(Delivered(s) \/ DeliveryFailed(s))
  /\ \A e \in Events : WF_whVars(DeliverWebhooks(e))

----------------------------------------------------------------------------
(* A hook is deactivated only after MAX_FAILURES of its deliveries failed: the
   stale count a delivery writes may forget failures, and may bring back those
   a success had cleared, but it never invents one. *)
DeactivationEarned ==
  \A h \in Hooks : Registered(h) /\ ~hook[h].active => failed[h] >= MAX_FAILURES

(* A receiver that is gone for good is dropped, provided the process stays up:
   overlapping deliveries that write stale counts delay the count and cannot
   keep it below the limit for ever. *)
DeadHookDropped ==
  ~MayCrash => \A h \in Hooks : <>[](h \notin answers /\ Registered(h)) => <>[]~Active(h)
============================================================================
