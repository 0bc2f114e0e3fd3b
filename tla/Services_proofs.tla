-------------------------- MODULE Services_proofs ---------------------------
(* What runs beside the requests: the delivery of webhooks, the setup of an
   agent of the router, the script that fills the past of the snapshots in and
   the one that looks for endpoints.  Components that share nothing, one
   invariant each; the last part puts them and those of Upkeep_proofs side by
   side. *)
EXTENDS MCServices, Upkeep_proofs

----------------------------------------------------------------------------
(* A hook is deactivated only after its failures, for any number of hooks,
   events and overlapping deliveries.  Neither the count in a row nor the copy a
   delivery holds ever exceeds the failures there were. *)

HookRows == [is : {"row"}, active : BOOLEAN, failure_count : 0..MAX_FAILURES]
SentRows == [is : {"sent"}, to : Hooks, read : 0..(MAX_FAILURES - 1)]

RowIsEarned(h) ==
  Registered(h) =>
    /\ hook[h].failure_count <= failed[h]
    /\ hook[h].active => hook[h].failure_count < MAX_FAILURES
    /\ ~hook[h].active => failed[h] >= MAX_FAILURES

CopyIsEarned(s) == sends[s].is = "sent" => sends[s].read <= failed[sends[s].to]

WHInv ==
  /\ WHTypeOK
  /\ \A h \in Hooks : RowIsEarned(h)
  /\ \A s \in Slots : CopyIsEarned(s)

----------------------------------------------------------------------------
LEMMA Bounds == MAX_FAILURES \in Nat /\ MAX_FAILURES > 0 /\ MaxCount \in Nat /\ MaxCount >= MAX_FAILURES
BY WebhooksAssumption

LEMMA HookFields ==
  ASSUME WHTypeOK, NEW h \in Hooks, Registered(h)
  PROVE  /\ hook[h] \in HookRows /\ hook[h].active \in BOOLEAN
         /\ hook[h].failure_count \in 0..MAX_FAILURES
BY DEF WHTypeOK, Registered, NoHook, HookRows

LEMMA SendFields ==
  ASSUME WHTypeOK, NEW s \in Slots, sends[s].is = "sent"
  PROVE  /\ sends[s] \in SentRows /\ sends[s].to \in Hooks
         /\ sends[s].read \in 0..(MAX_FAILURES - 1)
BY DEF WHTypeOK, NoDelivery, SentRows

LEMMA HookIsRow ==
  ASSUME NEW active \in BOOLEAN, NEW n \in 0..MAX_FAILURES
  PROVE  /\ Hook(active, n) \in HookRows /\ Hook(active, n).is = "row"
         /\ Hook(active, n).active = active /\ Hook(active, n).failure_count = n
BY DEF Hook, HookRows

LEMMA DeliveryIsSent ==
  ASSUME NEW h \in Hooks, NEW n \in 0..(MAX_FAILURES - 1)
  PROVE  /\ Delivery(h, n) \in SentRows /\ Delivery(h, n).is = "sent"
         /\ Delivery(h, n).to = h /\ Delivery(h, n).read = n
BY DEF Delivery, SentRows

LEMMA WHInitInv == WHInit => WHInv
BY Bounds DEF WHInit, WHInv, WHTypeOK, RowIsEarned, CopyIsEarned, Registered, NoHook, NoDelivery

(* What a step that changes one row, one count and ends some deliveries must
   show. *)
LEMMA OneHook ==
  ASSUME WHInv, NEW h \in Hooks, NEW rec \in {NoHook} \cup HookRows, NEW n \in 0..MaxCount,
         hook' = [hook EXCEPT ![h] = rec], failed' = [failed EXCEPT ![h] = n], UNCHANGED answers,
         \A s \in Slots : sends'[s] = sends[s] \/ sends'[s] = NoDelivery,
         sends' \in [Slots -> {NoDelivery} \cup SentRows],
         \A s \in Slots : sends'[s].is = "sent" => sends[s].to # h \/ failed[h] <= n,
         rec.is = "row" => /\ rec.failure_count <= n
                           /\ rec.active => rec.failure_count < MAX_FAILURES
                           /\ ~rec.active => n >= MAX_FAILURES
  PROVE  WHInv'
<1>1. /\ hook'[h] = rec /\ failed'[h] = n
      /\ \A i \in Hooks \ {h} : hook'[i] = hook[i] /\ failed'[i] = failed[i]
  BY DEF WHInv, WHTypeOK
<1>2. WHTypeOK'
  BY DEF WHInv, WHTypeOK, HookRows, SentRows
<1>3. \A i \in Hooks : RowIsEarned(i)'
  BY <1>1 DEF WHInv, RowIsEarned, Registered
<1>4. ASSUME NEW s \in Slots, sends'[s].is = "sent" PROVE sends'[s].read <= failed'[sends'[s].to]
  <2>1. sends'[s] = sends[s] /\ sends[s].to \in Hooks
    BY <1>4, SendFields DEF WHInv, NoDelivery
  <2>2. sends[s].read \in Nat /\ sends[s].read <= failed[sends[s].to] /\ failed[sends[s].to] \in Nat
    BY <1>4, <2>1, SendFields, Bounds DEF WHInv, WHTypeOK, CopyIsEarned
  <2>3. CASE sends[s].to = h
    BY <1>1, <1>4, <2>1, <2>2, <2>3, Bounds
  <2>4. CASE sends[s].to # h
    BY <1>1, <2>1, <2>2, <2>4
  <2>. QED BY <2>3, <2>4
<1>. QED BY <1>2, <1>3, <1>4 DEF WHInv, CopyIsEarned

LEMMA RowsOfInv ==
  ASSUME WHInv, NEW h \in Hooks
  PROVE  /\ failed[h] \in 0..MaxCount
         /\ hook[h] \in {NoHook} \cup HookRows
         /\ sends \in [Slots -> {NoDelivery} \cup SentRows]
         /\ hook = [hook EXCEPT ![h] = hook[h]] /\ failed = [failed EXCEPT ![h] = failed[h]]
         /\ Registered(h) <=> hook[h].is = "row"
BY DEF WHInv, WHTypeOK, HookRows, SentRows, Registered

LEMMA OwnersInv ==
  ASSUME WHInv, NEW h \in Hooks, RegisterWebhook(h) \/ DeleteWebhook(h)
  PROVE  WHInv'
<1>1. /\ sends' = sends /\ UNCHANGED answers
      /\ \A s \in Slots : sends'[s] = sends[s] \/ sends'[s] = NoDelivery
      /\ sends' \in [Slots -> {NoDelivery} \cup SentRows]
  BY RowsOfInv DEF RegisterWebhook, DeleteWebhook
<1>2. CASE RegisterWebhook(h)
  <2>1. 0 \in 0..MAX_FAILURES /\ 0 \in 0..MaxCount /\ 0 < MAX_FAILURES /\ TRUE \in BOOLEAN
    BY Bounds
  <2>2. PICK rec : rec = Hook(TRUE, 0)
    OBVIOUS
  <2>3. rec \in HookRows /\ rec.failure_count = 0 /\ rec.active = TRUE
    BY <2>1, <2>2, HookIsRow
  <2>4. /\ hook' = [hook EXCEPT ![h] = rec] /\ failed' = [failed EXCEPT ![h] = 0]
        /\ \A s \in Slots : sends[s].is = "sent" => sends[s].to # h
    BY <1>2, <2>2 DEF RegisterWebhook
  <2>5. PICK n \in 0..MaxCount : n = 0
    BY <2>1
  <2>6. /\ rec.failure_count <= n /\ (rec.active => rec.failure_count < MAX_FAILURES)
        /\ (~rec.active => n >= MAX_FAILURES)
    BY <2>1, <2>3, <2>5
  <2>7. \A s \in Slots : sends'[s].is = "sent" => sends[s].to # h \/ failed[h] <= n
    BY <1>1, <2>4
  <2>8. failed' = [failed EXCEPT ![h] = n] /\ hook' = [hook EXCEPT ![h] = rec]
    BY <2>4, <2>5
  <2>. QED BY <1>1, <2>3, <2>6, <2>7, <2>8, OneHook
<1>3. CASE DeleteWebhook(h)
  <2>1. PICK n \in 0..MaxCount : n = failed[h] /\ failed[h] <= n /\ failed' = [failed EXCEPT ![h] = n]
    BY <1>3, RowsOfInv, Bounds DEF DeleteWebhook
  <2>2. PICK rec \in {NoHook} \cup HookRows : rec = NoHook
    OBVIOUS
  <2>3. hook' = [hook EXCEPT ![h] = rec]
    BY <1>3, <2>2 DEF DeleteWebhook
  <2>4. rec.is # "row"
    BY <2>2 DEF NoHook
  <2>5. \A s \in Slots : sends'[s].is = "sent" => sends[s].to # h \/ failed[h] <= n
    BY <2>1
  <2>6. hook' = [hook EXCEPT ![h] = rec] /\ failed' = [failed EXCEPT ![h] = n]
    BY <2>1, <2>3
  <2>. QED BY <1>1, <2>4, <2>5, <2>6, OneHook
<1>. QED BY <1>2, <1>3

LEMMA DeliveredInv ==
  ASSUME WHInv, NEW s \in Slots, Delivered(s)
  PROVE  WHInv'
<1>1. PICK h \in Hooks : h = sends[s].to
  BY SendFields DEF Delivered, WHInv
<1>2. /\ sends' = [sends EXCEPT ![s] = NoDelivery] /\ UNCHANGED <<answers, failed>>
      /\ hook' = IF Registered(h) THEN [hook EXCEPT ![h].failure_count = 0] ELSE hook
  BY <1>1 DEF Delivered
<1>3. PICK n \in 0..MaxCount : n = failed[h] /\ failed[h] <= n /\ failed' = [failed EXCEPT ![h] = n]
  BY <1>2, RowsOfInv, Bounds
<1>4. /\ \A t \in Slots : sends'[t] = sends[t] \/ sends'[t] = NoDelivery
      /\ sends' \in [Slots -> {NoDelivery} \cup SentRows]
  BY <1>1, <1>2, RowsOfInv
<1>5. CASE Registered(h)
  <2>1. PICK rec : rec = [hook[h] EXCEPT !.failure_count = 0]
    OBVIOUS
  <2>2. hook' = [hook EXCEPT ![h] = rec]
    BY <1>2, <1>5, <2>1
  <2>3. PICK old \in HookRows : old = hook[h]
    BY <1>5, HookFields DEF WHInv
  <2>4. rec \in HookRows /\ rec.failure_count = 0 /\ rec.active = old.active
    BY <2>1, <2>3, Bounds DEF HookRows
  <2>5. ~old.active => n >= MAX_FAILURES
    BY <1>3, <1>5, <2>3 DEF WHInv, RowIsEarned
  <2>6. /\ rec.failure_count <= n
        /\ rec.active => rec.failure_count < MAX_FAILURES
        /\ ~rec.active => n >= MAX_FAILURES
    BY <2>4, <2>5, <1>3, Bounds
  <2>. QED BY <1>2, <1>3, <1>4, <2>2, <2>4, <2>6, OneHook
<1>6. CASE ~Registered(h)
  <2>1. PICK rec \in {NoHook} \cup HookRows : rec = hook[h]
    BY RowsOfInv
  <2>2. hook' = [hook EXCEPT ![h] = rec] /\ rec.is # "row"
    BY <1>2, <1>6, <2>1, RowsOfInv
  <2>. QED BY <1>2, <1>3, <1>4, <2>2, OneHook
<1>. QED BY <1>5, <1>6

LEMMA FailedInv ==
  ASSUME WHInv, NEW s \in Slots, DeliveryFailed(s)
  PROVE  WHInv'
<1>1. PICK h \in Hooks, read \in 0..(MAX_FAILURES - 1) :
        h = sends[s].to /\ read = sends[s].read /\ read <= failed[h]
  BY SendFields DEF DeliveryFailed, WHInv, CopyIsEarned
<1>2. PICK n : n = IF failed[h] < MaxCount THEN failed[h] + 1 ELSE failed[h]
  OBVIOUS
<1>3. /\ sends' = [sends EXCEPT ![s] = NoDelivery] /\ UNCHANGED answers
      /\ failed' = [failed EXCEPT ![h] = n]
      /\ hook' = IF Registered(h) THEN [hook EXCEPT ![h] = Incremented(h, read)] ELSE hook
  BY <1>1, <1>2 DEF DeliveryFailed
<1>4. failed[h] \in 0..MaxCount /\ n \in 0..MaxCount /\ failed[h] <= n /\ read + 1 <= n
  BY <1>1, <1>2, RowsOfInv, Bounds
<1>5. /\ \A t \in Slots : sends'[t] = sends[t] \/ sends'[t] = NoDelivery
      /\ sends' \in [Slots -> {NoDelivery} \cup SentRows]
  BY <1>1, <1>3, RowsOfInv
<1>6. CASE Registered(h)
  <2>1. PICK active \in BOOLEAN : active <=> hook[h].active /\ read + 1 < MAX_FAILURES
    OBVIOUS
  <2>2. hook[h].active \in BOOLEAN /\ (~hook[h].active => failed[h] >= MAX_FAILURES)
    BY <1>6, HookFields DEF WHInv, RowIsEarned
  <2>3. PICK rec : rec = Incremented(h, read)
    OBVIOUS
  <2>4. read + 1 \in 0..MAX_FAILURES
    BY <1>1, Bounds
  <2>5. Incremented(h, read) = Hook(active, read + 1)
    BY <2>1, <2>2 DEF Incremented
  <2>6. rec \in HookRows /\ rec.failure_count = read + 1 /\ rec.active = active
    BY <2>3, <2>4, <2>5, HookIsRow
  <2>7. hook' = [hook EXCEPT ![h] = rec]
    BY <1>3, <1>6, <2>3
  <2>8. rec.failure_count <= n
    BY <1>4, <2>6
  <2>9. active => read + 1 < MAX_FAILURES
    BY <2>1
  <2>10. ~active => n >= MAX_FAILURES
    <3>1. CASE ~hook[h].active
      BY <1>4, <2>2, <3>1, Bounds
    <3>2. CASE ~(read + 1 < MAX_FAILURES)
      BY <1>1, <1>4, <3>2, Bounds
    <3>. QED BY <2>1, <3>1, <3>2
  <2>11. /\ rec.active => rec.failure_count < MAX_FAILURES
         /\ ~rec.active => n >= MAX_FAILURES
    BY <2>6, <2>9, <2>10
  <2>. QED BY <1>3, <1>4, <1>5, <2>6, <2>7, <2>8, <2>11, OneHook
<1>7. CASE ~Registered(h)
  <2>1. PICK rec \in {NoHook} \cup HookRows : rec = hook[h]
    BY RowsOfInv
  <2>2. hook' = [hook EXCEPT ![h] = rec] /\ rec.is # "row"
    BY <1>3, <1>7, <2>1, RowsOfInv
  <2>. QED BY <1>3, <1>4, <1>5, <2>2, OneHook
<1>. QED BY <1>6, <1>7

LEMMA DeliverInv ==
  ASSUME WHInv, NEW e \in Events, DeliverWebhooks(e)
  PROVE  WHInv'
<1>1. PICK at \in [Recipients(e) -> Free] :
        sends' = [s \in Slots |->
          IF \E h \in Recipients(e) : at[h] = s
          THEN LET h == CHOOSE i \in Recipients(e) : at[i] = s
               IN Delivery(h, hook[h].failure_count)
          ELSE sends[s]]
  BY DEF DeliverWebhooks
<1>2. UNCHANGED <<hook, answers, failed>>
  BY DEF DeliverWebhooks
<1>3. ASSUME NEW h \in Recipients(e)
      PROVE  /\ h \in Hooks /\ hook[h].failure_count \in 0..(MAX_FAILURES - 1)
             /\ hook[h].failure_count <= failed[h]
  <2>1. h \in Hooks /\ Registered(h) /\ hook[h].active
    BY DEF Recipients, Active
  <2>. QED BY <2>1, HookFields, Bounds DEF WHInv, RowIsEarned
<1>4. ASSUME NEW s \in Slots
      PROVE  \/ sends'[s] = sends[s]
             \/ \E h \in Recipients(e) : sends'[s] = Delivery(h, hook[h].failure_count)
  <2>1. CASE \E h \in Recipients(e) : at[h] = s
    <3>1. PICK h : h = CHOOSE i \in Recipients(e) : at[i] = s
      OBVIOUS
    <3>2. h \in Recipients(e)
      BY <2>1, <3>1
    <3>. QED BY <1>1, <2>1, <3>1, <3>2
  <2>2. CASE ~\E h \in Recipients(e) : at[h] = s
    BY <1>1, <2>2
  <2>. QED BY <2>1, <2>2
<1>5. \A s \in Slots : sends'[s] \in {NoDelivery} \cup SentRows
  BY <1>3, <1>4, DeliveryIsSent DEF WHInv, WHTypeOK, SentRows
<1>6. sends' \in [Slots -> {NoDelivery} \cup SentRows]
  BY <1>1, <1>5
<1>7. \A s \in Slots : CopyIsEarned(s)'
  <2>1. SUFFICES ASSUME NEW s \in Slots, sends'[s].is = "sent" PROVE sends'[s].read <= failed[sends'[s].to]
    BY <1>2 DEF CopyIsEarned
  <2>2. CASE sends'[s] = sends[s]
    BY <2>1, <2>2 DEF WHInv, CopyIsEarned
  <2>3. CASE \E h \in Recipients(e) : sends'[s] = Delivery(h, hook[h].failure_count)
    BY <2>3, <1>3, DeliveryIsSent
  <2>. QED BY <1>4, <2>2, <2>3
<1>8. WHTypeOK'
  BY <1>2, <1>6 DEF WHInv, WHTypeOK, SentRows
<1>9. \A h \in Hooks : RowIsEarned(h)'
  BY <1>2 DEF WHInv, RowIsEarned, Registered
<1>. QED BY <1>7, <1>8, <1>9 DEF WHInv

LEMMA WHNextInv == WHInv /\ [WHNext]_whVars => WHInv'
<1> SUFFICES ASSUME WHInv, [WHNext]_whVars PROVE WHInv'
  OBVIOUS
<1>1. CASE \E h \in Hooks : RegisterWebhook(h) \/ DeleteWebhook(h)
  BY <1>1, OwnersInv
<1>2. CASE \E h \in Hooks : ReceiverTurns(h)
  BY <1>2 DEF ReceiverTurns, WHInv, WHTypeOK, RowIsEarned, CopyIsEarned, Registered
<1>3. CASE \E e \in Events : DeliverWebhooks(e)
  BY <1>3, DeliverInv
<1>4. CASE \E s \in Slots : Delivered(s) \/ DeliveryFailed(s)
  BY <1>4, DeliveredInv, FailedInv
<1>5. CASE WHCrash
  BY <1>5 DEF WHCrash, WHInv, WHTypeOK, RowIsEarned, CopyIsEarned, Registered, NoDelivery
<1>6. CASE UNCHANGED whVars
  BY <1>6 DEF whVars, WHInv, WHTypeOK, RowIsEarned, CopyIsEarned, Registered
<1>. QED BY <1>1, <1>2, <1>3, <1>4, <1>5, <1>6 DEF WHNext

(* services/webhooks.js: a hook is inactive only after MAX_FAILURES of its
   deliveries failed, whatever stale counts overlapping deliveries write. *)
THEOREM DeactivationsAreEarned == WHSpec => []DeactivationEarned
<1>1. WHInv => DeactivationEarned
  BY DEF WHInv, RowIsEarned, DeactivationEarned
<1>. QED BY <1>1, WHInitInv, WHNextInv, PTL DEF WHSpec

----------------------------------------------------------------------------
(* The token a setup page showed has the card and the budget of its session, for
   any number of sessions, visits, agents and calls.  The invariant follows a
   session from Stripe through the hands that hold it: a visit, a pending row, a
   call. *)

Sold == [is : {"open", "complete", "expired"}, for : {"setup"} \cup Agents]

(* Whose page a card was entered on. *)
PageOf(p) == IF p \in Agents THEN p ELSE "setup"

Steps == {"retrieving", "reading", "shown", "told", "failed"}
Visited == [at : Steps, session : Sessions]

VisitHolds(v) ==
  visit[v].at # "none" =>
    /\ visit[v].session \in Sessions
    /\ Status(visit[v].session) # "none" /\ checkout[visit[v].session].for = "setup"
    /\ visit[v].at = "reading" => Status(visit[v].session) = "complete"

CallHolds(c) ==
  /\ call[c].at # "none" => call[c].agent \in Agents
  /\ call[c].at \in {"checking", "storing", "polling", "minted"} =>
       /\ call[c].session \in Sessions
       /\ Status(call[c].session) # "none" /\ checkout[call[c].session].for = call[c].agent
       /\ call[c].at = "storing" => Status(call[c].session) = "complete"

PendingHolds(a) ==
  pends[a] # None =>
    pends[a] \in Sessions /\ Status(pends[a]) # "none" /\ checkout[pends[a]].for = a

CardHolds(p) ==
  cards[p] # None =>
    cards[p] \in Sessions /\ Status(cards[p]) = "complete" /\ checkout[cards[p]].for = PageOf(p)

ShownHolds(v) ==
  visit[v].at = "shown" =>
    /\ v \in tokens \cup revoked /\ v \in mandates
    /\ cards[v] = visit[v].session /\ usedBy[visit[v].session] = v

Tables ==
  /\ checkout \in [Sessions -> {Absent} \cup Sold]
  /\ visit \in [Visits -> {Nothing} \cup Visited] /\ DOMAIN call = Calls
  /\ DOMAIN cards = Principals /\ DOMAIN pends = Agents /\ DOMAIN usedBy = Sessions
  /\ call = [c \in Calls |-> call[c]]
  /\ cards = [p \in Principals |-> cards[p]] /\ pends = [a \in Agents |-> pends[a]]
  /\ usedBy = [z \in Sessions |-> usedBy[z]]

Hands ==
  /\ \A v \in Visits : VisitHolds(v)
  /\ \A c \in Calls : CallHolds(c)
  /\ \A a \in Agents : PendingHolds(a)

Sales ==
  /\ \A p \in Principals : CardHolds(p)
  /\ \A v \in Visits : ShownHolds(v)

OBInv == Tables /\ Hands /\ Sales

----------------------------------------------------------------------------
LEMMA OBInitInv == OBInit => OBInv
BY DEF OBInit, OBInv, Tables, Hands, Sales, VisitHolds, CallHolds, PendingHolds, CardHolds, ShownHolds,
   Absent, Nothing, Status

LEMMA SoldIs ==
  ASSUME Tables, NEW z \in Sessions
  PROVE  /\ checkout[z] \in {Absent} \cup Sold
         /\ Status(z) # "none" => checkout[z] \in Sold /\ checkout[z] = Made(Status(z), checkout[z].for)
BY DEF Tables, Status, Absent, Sold, Made

(* What Stripe does to its sessions keeps what anybody holds of them. *)
LEMMA SessionsMove ==
  ASSUME OBInv, Tables',
         \A z \in Sessions : Status(z) # "none" =>
           /\ checkout'[z].is # "none" /\ checkout'[z].for = checkout[z].for
           /\ Status(z) = "complete" => checkout'[z].is = "complete"
  PROVE  /\ UNCHANGED visit => \A v \in Visits : VisitHolds(v)'
         /\ UNCHANGED call => \A c \in Calls : CallHolds(c)'
         /\ UNCHANGED pends => \A a \in Agents : PendingHolds(a)'
         /\ UNCHANGED cards => \A p \in Principals : CardHolds(p)'
<1>1. UNCHANGED visit => \A v \in Visits : VisitHolds(v)'
  BY DEF OBInv, Hands, VisitHolds, Status
<1>2. UNCHANGED call => \A c \in Calls : CallHolds(c)'
  BY DEF OBInv, Hands, CallHolds, Status
<1>3. UNCHANGED pends => \A a \in Agents : PendingHolds(a)'
  BY DEF OBInv, Hands, PendingHolds, Status
<1>4. UNCHANGED cards => \A p \in Principals : CardHolds(p)'
  BY DEF OBInv, Sales, CardHolds, Status
<1>. QED BY <1>1, <1>2, <1>3, <1>4

LEMMA CheckoutEndsInv ==
  ASSUME OBInv, NEW z \in Sessions, NEW how \in {"complete", "expired"}, CheckoutEnds(z, how)
  PROVE  OBInv'
<1>1. PICK s : s = [checkout[z] EXCEPT !.is = how]
  OBVIOUS
<1>2. checkout' = [checkout EXCEPT ![z] = s] /\ UNCHANGED <<visit, call>> /\ UNCHANGED obTables /\ Status(z) = "open"
  BY <1>1 DEF CheckoutEnds
<1>3. PICK old \in Sold : old = checkout[z]
  BY <1>2, SoldIs DEF OBInv
<1>4. s \in Sold /\ s.is = how /\ s.for = checkout[z].for
  BY <1>1, <1>3 DEF Sold
<1>5. Tables'
  BY <1>2, <1>4 DEF OBInv, Tables, obTables
<1>6. \A y \in Sessions : checkout'[y] = IF y = z THEN s ELSE checkout[y]
  BY <1>2 DEF OBInv, Tables
<1>7. \A y \in Sessions : Status(y) # "none" =>
        /\ checkout'[y].is # "none" /\ checkout'[y].for = checkout[y].for
        /\ Status(y) = "complete" => checkout'[y].is = "complete"
  BY <1>2, <1>4, <1>6 DEF Status
<1>8. \A v \in Visits : ShownHolds(v)'
  BY <1>2 DEF OBInv, Sales, ShownHolds, obTables
<1>. QED BY <1>2, <1>5, <1>7, <1>8, SessionsMove DEF OBInv, Hands, Sales, obTables

(* A new session, of the setup page or of a call. *)
LEMMA NewSession ==
  ASSUME OBInv, NEW z \in Sessions, Status(z) = "none", NEW s \in Sold,
         checkout' = [checkout EXCEPT ![z] = s]
  PROVE  /\ checkout' \in [Sessions -> {Absent} \cup Sold] /\ checkout'[z] = s
         /\ \A y \in Sessions : Status(y) # "none" =>
              /\ checkout'[y].is # "none" /\ checkout'[y].for = checkout[y].for
              /\ Status(y) = "complete" => checkout'[y].is = "complete"
BY DEF OBInv, Tables, Status

LEMMA MadeIsSold ==
  ASSUME NEW for \in {"setup"} \cup Agents
  PROVE  Made("open", for) \in Sold /\ Made("open", for).for = for /\ Made("open", for).is = "open"
BY DEF Made, Sold

LEMMA CreateSessionInv ==
  ASSUME OBInv, NEW z \in Sessions, CreateSession(z)
  PROVE  OBInv'
<1>1. PICK s \in Sold : s = Made("open", "setup")
  BY MadeIsSold
<1>2. checkout' = [checkout EXCEPT ![z] = s] /\ UNCHANGED <<visit, call>> /\ UNCHANGED obTables /\ Status(z) = "none"
  BY <1>1 DEF CreateSession
<1>3. /\ checkout' \in [Sessions -> {Absent} \cup Sold]
      /\ \A y \in Sessions : Status(y) # "none" =>
              /\ checkout'[y].is # "none" /\ checkout'[y].for = checkout[y].for
              /\ Status(y) = "complete" => checkout'[y].is = "complete"
  BY <1>2, NewSession
<1>4. Tables'
  BY <1>2, <1>3 DEF OBInv, Tables, obTables
<1>5. \A v \in Visits : ShownHolds(v)'
  BY <1>2 DEF OBInv, Sales, ShownHolds, obTables
<1>. QED BY <1>2, <1>3, <1>4, <1>5, SessionsMove DEF OBInv, Hands, Sales, obTables

LEMMA SessionMadeInv ==
  ASSUME OBInv, NEW c \in Calls, NEW z \in Sessions, SessionMade(c, z)
  PROVE  OBInv'
<1>1. PICK a \in Agents : a = call[c].agent
  BY DEF SessionMade, OBInv, Hands, CallHolds
<1>2. PICK s \in Sold : s = Made("open", a) /\ s.for = a /\ s.is = "open"
  BY MadeIsSold
<1>3. checkout' = [checkout EXCEPT ![z] = s] /\ UNCHANGED visit /\ UNCHANGED obTables /\ Status(z) = "none"
      /\ call' = [call EXCEPT ![c] = InCall("minted", a, z)]
  BY <1>1, <1>2 DEF SessionMade
<1>4. /\ checkout' \in [Sessions -> {Absent} \cup Sold] /\ checkout'[z] = s
      /\ \A y \in Sessions : Status(y) # "none" =>
              /\ checkout'[y].is # "none" /\ checkout'[y].for = checkout[y].for
              /\ Status(y) = "complete" => checkout'[y].is = "complete"
  BY <1>3, NewSession
<1>5. Tables'
  BY <1>3, <1>4 DEF OBInv, Tables, obTables
<1>6. ASSUME NEW d \in Calls PROVE CallHolds(d)'
  <2>1. CASE d = c
    <3>1. call'[d] = InCall("minted", a, z)
      BY <1>3, <2>1 DEF OBInv, Tables
    <3>2. call'[d].at = "minted" /\ call'[d].agent = a /\ call'[d].session = z
      BY <3>1 DEF InCall
    <3>. QED BY <1>2, <1>4, <3>2 DEF CallHolds, Status
  <2>2. CASE d # c
    <3>1. call'[d] = call[d]
      BY <1>3, <2>2 DEF OBInv, Tables
    <3>. QED BY <1>4, <3>1 DEF OBInv, Hands, CallHolds, Status
  <2>. QED BY <2>1, <2>2
<1>7. \A v \in Visits : ShownHolds(v)'
  BY <1>3 DEF OBInv, Sales, ShownHolds, obTables
<1>. QED BY <1>3, <1>4, <1>5, <1>6, <1>7, SessionsMove DEF OBInv, Hands, Sales, obTables

----------------------------------------------------------------------------
(* Steps of one visit *)

(* The row of a visit with another step. *)
LEMMA StepOfVisit ==
  ASSUME Tables, NEW v \in Visits, visit[v].at # "none", NEW at \in Steps,
         NEW n, n = [visit[v] EXCEPT !.at = at]
  PROVE  n \in Visited /\ n.at = at /\ n.session = visit[v].session
<1>1. PICK old \in Visited : old = visit[v]
  BY DEF Tables, Nothing
<1>2. n = [old EXCEPT !.at = at]
  BY <1>1
<1>3. n \in Visited /\ n.at = at /\ n.session = old.session
  BY <1>2 DEF Visited
<1>. QED BY <1>1, <1>3

(* A visit moves on and writes nothing. *)
LEMMA VisitMoves ==
  ASSUME OBInv, NEW v \in Visits, UNCHANGED <<checkout, call>>, UNCHANGED obTables,
         NEW n \in Visited, visit' = [visit EXCEPT ![v] = n], n.at # "shown",
         Status(n.session) # "none" /\ checkout[n.session].for = "setup",
         n.at = "reading" => Status(n.session) = "complete"
  PROVE  OBInv'
<1>1. Tables'
  BY DEF OBInv, Tables, obTables
<1>2. visit'[v] = n /\ (\A w \in Visits \ {v} : visit'[w] = visit[w]) /\ n.session \in Sessions
  BY DEF OBInv, Tables, Visited
<1>3. \A w \in Visits : VisitHolds(w)'
  BY <1>2 DEF OBInv, Hands, VisitHolds, Status
<1>4. \A c \in Calls : CallHolds(c)'
  BY DEF OBInv, Hands, CallHolds, Status
<1>5. \A a \in Agents : PendingHolds(a)'
  BY DEF OBInv, Hands, PendingHolds, obTables, Status
<1>6. \A p \in Principals : CardHolds(p)'
  BY DEF OBInv, Sales, CardHolds, obTables, Status
<1>7. \A w \in Visits : ShownHolds(w)'
  BY <1>2 DEF OBInv, Sales, ShownHolds, obTables
<1>. QED BY <1>1, <1>3, <1>4, <1>5, <1>6, <1>7 DEF OBInv, Hands, Sales

LEMMA VisitSteps ==
  ASSUME OBInv, NEW v \in Visits,
         (\E z \in Sessions : CompleteStarts(v, z)) \/ CompleteRetrieved(v) \/ VisitFails(v)
  PROVE  OBInv'
<1>1. CASE \E z \in Sessions : CompleteStarts(v, z)
  <2>1. PICK z \in Sessions : CompleteStarts(v, z)
    BY <1>1
  <2>2. PICK at \in {"told", "retrieving"} : at = IF usedBy[z] # None THEN "told" ELSE "retrieving"
    OBVIOUS
  <2>3. PICK n : n = Place(at, z)
    OBVIOUS
  <2>4. n \in Visited /\ n.at = at /\ n.session = z
    BY <2>2, <2>3 DEF Place, Visited, Steps
  <2>5. visit' = [visit EXCEPT ![v] = n] /\ UNCHANGED <<checkout, call>> /\ UNCHANGED obTables
        /\ Status(z) # "none" /\ checkout[z].for = "setup"
    BY <2>1, <2>2, <2>3 DEF CompleteStarts
  <2>. QED BY <2>2, <2>4, <2>5, VisitMoves
<1>2. CASE CompleteRetrieved(v)
  <2>1. PICK at \in {"reading", "told"} : at = IF Status(visit[v].session) = "complete" THEN "reading" ELSE "told"
    OBVIOUS
  <2>2. PICK n : n = [visit[v] EXCEPT !.at = at]
    OBVIOUS
  <2>3. n \in Visited /\ n.at = at /\ n.session = visit[v].session
    BY <1>2, <2>1, <2>2, StepOfVisit DEF CompleteRetrieved, OBInv, Steps
  <2>4. visit' = [visit EXCEPT ![v] = n] /\ UNCHANGED <<checkout, call>> /\ UNCHANGED obTables
    BY <1>2, <2>1, <2>2 DEF CompleteRetrieved
  <2>5. Status(n.session) # "none" /\ checkout[n.session].for = "setup"
    BY <1>2, <2>3 DEF CompleteRetrieved, OBInv, Hands, VisitHolds
  <2>. QED BY <2>1, <2>3, <2>4, <2>5, VisitMoves
<1>3. CASE VisitFails(v)
  <2>1. PICK n : n = [visit[v] EXCEPT !.at = "failed"]
    OBVIOUS
  <2>2. n \in Visited /\ n.at = "failed" /\ n.session = visit[v].session
    BY <1>3, <2>1, StepOfVisit DEF VisitFails, OBInv, Steps
  <2>3. visit' = [visit EXCEPT ![v] = n] /\ UNCHANGED <<checkout, call>> /\ UNCHANGED obTables
    BY <1>3, <2>1 DEF VisitFails
  <2>4. Status(n.session) # "none" /\ checkout[n.session].for = "setup"
    BY <1>3, <2>2 DEF VisitFails, OBInv, Hands, VisitHolds
  <2>. QED BY <2>2, <2>3, <2>4, VisitMoves
<1>. QED BY <1>1, <1>2, <1>3

(* What a visit that reads its session may insert, and what becomes of it and of
   the others, in a whole run or one that was cut. *)
LEMMA Inserts ==
  ASSUME OBInv, NEW v \in Visits, visit[v].at = "reading", NEW z \in Sessions, z = visit[v].session,
         UNCHANGED <<checkout, revoked, pends>>,
         cards' = [cards EXCEPT ![v] = z],
         tokens \subseteq tokens', mandates \subseteq mandates',
         usedBy' = usedBy \/ (usedBy[z] = None /\ usedBy' = [usedBy EXCEPT ![z] = v]),
         visit' \in [Visits -> {Nothing} \cup Visited],
         \A w \in Visits \ {v} : visit'[w] = visit[w] \/
           (visit'[w].at = "failed" /\ visit[w].at # "none" /\ visit'[w].session = visit[w].session),
         visit'[v].session = z, visit'[v].at \in {"failed", "shown"},
         visit'[v].at = "shown" => v \in tokens' /\ v \in mandates' /\ usedBy'[z] = v,
         DOMAIN call' = Calls, call' = [c \in Calls |-> call'[c]],
         \A c \in Calls : call'[c] = call[c] \/ call'[c] = Nothing
  PROVE  OBInv'
<1>1. /\ v \in Principals /\ v \notin Agents /\ v # None
      /\ cards'[v] = z /\ \A p \in Principals \ {v} : cards'[p] = cards[p]
  BY OnboardingAssumption DEF OBInv, Tables, Principals
<1>2. Tables'
  BY ZenonT(40) DEF OBInv, Tables
<1>3. Status(z) = "complete" /\ checkout[z].for = "setup"
  BY DEF OBInv, Hands, VisitHolds
<1>4. \A w \in Visits : VisitHolds(w)'
  <2>1. VisitHolds(v)'
    BY <1>3 DEF VisitHolds, Status
  <2>2. ASSUME NEW w \in Visits \ {v} PROVE VisitHolds(w)'
    <3>1. VisitHolds(w)
      BY DEF OBInv, Hands
    <3>2. CASE visit'[w] = visit[w]
      BY <3>1, <3>2 DEF VisitHolds, Status
    <3>3. CASE visit'[w].at = "failed" /\ visit[w].at # "none" /\ visit'[w].session = visit[w].session
      BY <3>1, <3>3 DEF VisitHolds, Status
    <3>. QED BY <3>2, <3>3
  <2>. QED BY <2>1, <2>2
<1>5. \A c \in Calls : CallHolds(c)'
  BY DEF OBInv, Hands, CallHolds, Status, Nothing
<1>6. \A a \in Agents : PendingHolds(a)'
  BY DEF OBInv, Hands, PendingHolds, Status
<1>7. \A p \in Principals : CardHolds(p)'
  BY <1>1, <1>3 DEF OBInv, Sales, CardHolds, Status, PageOf
<1>8. ASSUME NEW w \in Visits, visit'[w].at = "shown"
      PROVE  /\ w \in tokens' \cup revoked' /\ w \in mandates'
             /\ cards'[w] = visit'[w].session /\ usedBy'[visit'[w].session] = w
  <2>1. CASE w = v
    BY <1>1, <1>8, <2>1
  <2>2. CASE w # v
    <3>1. visit'[w] = visit[w]
      BY <1>8, <2>2
    <3>2. ShownHolds(w)
      BY DEF OBInv, Sales
    <3>3. cards'[w] = cards[w] /\ w # None
      BY <1>1, <2>2, OnboardingAssumption DEF Principals
    <3>4. usedBy'[visit[w].session] = w
      <4>1. usedBy[visit[w].session] = w
        BY <1>8, <3>1, <3>2 DEF ShownHolds
      <4>2. CASE usedBy' = usedBy
        BY <4>1, <4>2
      <4>3. CASE usedBy[z] = None /\ usedBy' = [usedBy EXCEPT ![z] = v]
        BY <3>3, <4>1, <4>3
      <4>. QED BY <4>2, <4>3
    <3>. QED BY <1>8, <3>1, <3>2, <3>3, <3>4 DEF ShownHolds
  <2>. QED BY <2>1, <2>2
<1>. QED BY <1>2, <1>4, <1>5, <1>6, <1>7, <1>8 DEF OBInv, Hands, Sales, ShownHolds

LEMMA CompleteInsertsInv ==
  ASSUME OBInv, NEW v \in Visits, CompleteInserts(v)
  PROVE  OBInv'
<1>1. PICK z \in Sessions : z = visit[v].session
  BY DEF CompleteInserts, OBInv, Hands, VisitHolds
<1>2. PICK at \in {"shown", "failed"} : at = IF usedBy[z] = None THEN "shown" ELSE "failed"
  OBVIOUS
<1>3. PICK n : n = [visit[v] EXCEPT !.at = at]
  OBVIOUS
<1>4. n \in Visited /\ n.at = at /\ n.session = z
  BY <1>1, <1>2, <1>3, StepOfVisit DEF CompleteInserts, OBInv, Steps
<1>5. /\ visit[v].at = "reading" /\ UNCHANGED <<checkout, call, revoked, pends>>
      /\ cards' = [cards EXCEPT ![v] = z]
      /\ tokens' = tokens \cup {v} /\ mandates' = mandates \cup {v}
      /\ visit' = [visit EXCEPT ![v] = n]
      /\ IF usedBy[z] = None THEN usedBy' = [usedBy EXCEPT ![z] = v] ELSE usedBy' = usedBy
  BY <1>1, <1>2, <1>3 DEF CompleteInserts
<1>6. /\ visit' \in [Visits -> {Nothing} \cup Visited] /\ visit'[v] = n
      /\ \A w \in Visits \ {v} : visit'[w] = visit[w]
  BY <1>4, <1>5 DEF OBInv, Tables
<1>7. at = "shown" => usedBy'[z] = v
  BY <1>2, <1>5 DEF OBInv, Tables
<1>8. usedBy' = usedBy \/ (usedBy[z] = None /\ usedBy' = [usedBy EXCEPT ![z] = v])
  BY <1>5
<1>9. DOMAIN call' = Calls /\ call' = [c \in Calls |-> call'[c]] /\ \A c \in Calls : call'[c] = call[c]
  BY <1>5 DEF OBInv, Tables
<1>10. v \in tokens' /\ v \in mandates' /\ tokens \subseteq tokens' /\ mandates \subseteq mandates'
  BY <1>5
<1>. QED BY <1>1, <1>2, <1>4, <1>5, <1>6, <1>7, <1>8, <1>9, <1>10, Inserts

LEMMA DiesInv ==
  ASSUME OBInv, NEW v \in Visits, NEW done \in 1..4, DiesInserting(v, done)
  PROVE  OBInv'
<1>1. PICK z \in Sessions : z = visit[v].session
  BY DEF DiesInserting, OBInv, Hands, VisitHolds
<1>2. /\ visit[v].at = "reading" /\ UNCHANGED <<checkout, revoked, pends>>
      /\ cards' = [cards EXCEPT ![v] = z]
      /\ tokens \subseteq tokens' /\ mandates \subseteq mandates'
      /\ usedBy' = usedBy \/ (usedBy[z] = None /\ usedBy' = [usedBy EXCEPT ![z] = v])
      /\ visit' = [w \in Visits |->
           IF visit[w].at \in {"retrieving", "reading"} THEN [visit[w] EXCEPT !.at = "failed"]
           ELSE visit[w]]
      /\ call' = [c \in Calls |-> Nothing]
  BY <1>1 DEF DiesInserting
<1>3. ASSUME NEW w \in Visits
      PROVE  /\ visit'[w] \in {Nothing} \cup Visited
             /\ \/ visit'[w] = visit[w] /\ visit[w].at \notin {"retrieving", "reading"}
                \/ visit'[w].at = "failed" /\ visit[w].at # "none" /\ visit'[w].session = visit[w].session
  <2>1. CASE visit[w].at \in {"retrieving", "reading"}
    <3>1. PICK n : n = [visit[w] EXCEPT !.at = "failed"]
      OBVIOUS
    <3>2. n \in Visited /\ n.at = "failed" /\ n.session = visit[w].session
      BY <2>1, <3>1, StepOfVisit DEF OBInv, Steps
    <3>3. visit'[w] = n
      BY <1>2, <2>1, <3>1
    <3>. QED BY <2>1, <3>2, <3>3
  <2>2. CASE visit[w].at \notin {"retrieving", "reading"}
    BY <1>2, <2>2 DEF OBInv, Tables
  <2>. QED BY <2>1, <2>2
<1>4. visit' \in [Visits -> {Nothing} \cup Visited]
  BY <1>2, <1>3
<1>5. visit'[v].at = "failed" /\ visit'[v].session = z
  BY <1>1, <1>2, <1>3
<1>6. DOMAIN call' = Calls /\ call' = [c \in Calls |-> call'[c]] /\ \A c \in Calls : call'[c] = Nothing
  BY <1>2
<1>. QED BY <1>1, <1>2, <1>3, <1>4, <1>5, <1>6, Inserts

LEMMA RevokeInv ==
  ASSUME OBInv, NEW v \in Visits, RevokeToken(v)
  PROVE  OBInv'
<1>1. tokens' \cup revoked' = tokens \cup revoked
      /\ UNCHANGED <<checkout, visit, call, cards, mandates, usedBy, pends>>
  BY DEF RevokeToken
<1>2. Tables' /\ Hands'
  BY <1>1 DEF OBInv, Tables, Hands, VisitHolds, CallHolds, PendingHolds, Status
<1>3. Sales'
  BY <1>1 DEF OBInv, Sales, CardHolds, ShownHolds, Status
<1>. QED BY <1>2, <1>3 DEF OBInv

----------------------------------------------------------------------------
(* Steps of one call *)

(* A call moves on; its agent's pending row and card may change. *)
LEMMA CallMoves ==
  ASSUME OBInv, NEW c \in Calls, NEW a \in Agents, NEW n, call' = [call EXCEPT ![c] = n],
         UNCHANGED <<checkout, visit, mandates, tokens, revoked, usedBy>>,
         \/ n = Nothing
         \/ \E at \in {"checking", "storing", "polling", "creating"}, z \in Sessions \cup {None} :
              /\ n = InCall(at, a, z)
              /\ at # "creating" => z \in Sessions /\ Status(z) # "none" /\ checkout[z].for = a
              /\ at = "storing" => Status(z) = "complete",
         \/ pends' = pends
         \/ \E z \in Sessions \cup {None} :
              /\ pends' = [pends EXCEPT ![a] = z]
              /\ z # None => z \in Sessions /\ Status(z) # "none" /\ checkout[z].for = a,
         \/ cards' = cards
         \/ \E z \in Sessions :
              /\ cards' = [cards EXCEPT ![a] = z] /\ Status(z) = "complete" /\ checkout[z].for = a
  PROVE  OBInv'
<1>1. Tables'
  BY DEF OBInv, Tables
<1>2. \A w \in Visits : VisitHolds(w)'
  BY DEF OBInv, Hands, VisitHolds, Status
<1>3. ASSUME NEW d \in Calls PROVE CallHolds(d)'
  <2>1. CASE d # c
    <3>1. call'[d] = call[d]
      BY <2>1 DEF OBInv, Tables
    <3>. QED BY <3>1 DEF OBInv, Hands, CallHolds, Status
  <2>2. CASE d = c
    <3>1. call'[d] = n
      BY <2>2 DEF OBInv, Tables
    <3>2. CASE n = Nothing
      BY <3>1, <3>2 DEF CallHolds, Nothing
    <3>3. CASE n # Nothing
      <4>1. PICK at \in {"checking", "storing", "polling", "creating"}, z \in Sessions \cup {None} :
              /\ n = InCall(at, a, z)
              /\ at # "creating" => z \in Sessions /\ Status(z) # "none" /\ checkout[z].for = a
              /\ at = "storing" => Status(z) = "complete"
        BY <3>3
      <4>2. call'[d].at = at /\ call'[d].agent = a /\ call'[d].session = z
        BY <3>1, <4>1 DEF InCall
      <4>. QED BY <4>1, <4>2 DEF CallHolds, Status
    <3>. QED BY <3>2, <3>3
  <2>. QED BY <2>1, <2>2
<1>4. ASSUME NEW b \in Agents PROVE PendingHolds(b)'
  <2>1. PendingHolds(b)
    BY DEF OBInv, Hands
  <2>2. CASE pends'[b] = pends[b]
    BY <2>1, <2>2 DEF PendingHolds, Status
  <2>3. CASE pends'[b] # pends[b]
    <3>1. PICK z \in Sessions \cup {None} :
              /\ pends' = [pends EXCEPT ![a] = z]
              /\ z # None => z \in Sessions /\ Status(z) # "none" /\ checkout[z].for = a
      BY <2>3
    <3>2. b = a /\ pends'[b] = z
      BY <2>3, <3>1 DEF OBInv, Tables
    <3>. QED BY <3>1, <3>2 DEF PendingHolds, Status
  <2>. QED BY <2>2, <2>3
<1>5. ASSUME NEW p \in Principals PROVE CardHolds(p)'
  <2>1. CardHolds(p)
    BY DEF OBInv, Sales
  <2>2. CASE cards'[p] = cards[p]
    BY <2>1, <2>2 DEF CardHolds, Status
  <2>3. CASE cards'[p] # cards[p]
    <3>1. PICK z \in Sessions :
              cards' = [cards EXCEPT ![a] = z] /\ Status(z) = "complete" /\ checkout[z].for = a
      BY <2>3
    <3>2. p = a /\ cards'[p] = z
      BY <2>3, <3>1 DEF OBInv, Tables
    <3>. QED BY <3>1, <3>2 DEF CardHolds, Status, PageOf
  <2>. QED BY <2>2, <2>3
<1>6. ASSUME NEW v \in Visits PROVE ShownHolds(v)'
  <2>1. cards'[v] = cards[v]
    <3>1. v # a /\ v \in Principals /\ DOMAIN cards = Principals
      BY OnboardingAssumption DEF OBInv, Tables, Principals
    <3>2. CASE cards' = cards
      BY <3>2
    <3>3. CASE \E z \in Sessions : cards' = [cards EXCEPT ![a] = z]
      BY <3>1, <3>3
    <3>. QED BY <3>2, <3>3
  <2>. QED BY <2>1 DEF OBInv, Sales, ShownHolds
<1>. QED BY <1>1, <1>2, <1>3, <1>4, <1>5, <1>6 DEF OBInv, Hands, Sales

LEMMA CallSteps ==
  ASSUME OBInv, NEW c \in Calls,
         (\E a \in Agents : ColdCall(c, a)) \/ Checked(c) \/ CardStored(c) \/ Polled(c)
           \/ SessionStored(c) \/ CallFails(c)
  PROVE  OBInv'
<1>1. CASE \E a \in Agents : ColdCall(c, a)
  <2>1. PICK a \in Agents : ColdCall(c, a)
    BY <1>1
  <2>2. /\ UNCHANGED <<checkout, visit>> /\ UNCHANGED obTables
        /\ call' = [call EXCEPT ![c] = InCall(IF pends[a] = None THEN "creating" ELSE "checking", a, pends[a])]
    BY <2>1 DEF ColdCall
  <2>3. pends[a] # None => pends[a] \in Sessions /\ Status(pends[a]) # "none" /\ checkout[pends[a]].for = a
    BY DEF OBInv, Hands, PendingHolds
  <2>. QED BY <2>2, <2>3, CallMoves DEF obTables
<1>2. ASSUME call[c].at # "none"
      PROVE  /\ call[c].agent \in Agents
             /\ call[c].at \in {"checking", "storing", "polling", "minted"} =>
                  /\ call[c].session \in Sessions /\ Status(call[c].session) # "none"
                  /\ checkout[call[c].session].for = call[c].agent
             /\ call[c].at = "storing" => Status(call[c].session) = "complete"
  BY <1>2 DEF OBInv, Hands, CallHolds
<1>3. CASE Checked(c)
  <2>1. PICK a \in Agents, z \in Sessions :
          a = call[c].agent /\ z = call[c].session /\ Status(z) # "none" /\ checkout[z].for = a
    BY <1>2, <1>3 DEF Checked
  <2>2. /\ UNCHANGED <<checkout, visit>> /\ UNCHANGED obTables
        /\ call' = [call EXCEPT ![c] =
             IF Status(z) = "complete" THEN InCall("storing", a, z)
             ELSE InCall(IF pends[a] = None THEN "creating" ELSE "polling", a, pends[a])]
    BY <1>3, <2>1 DEF Checked
  <2>3. pends[a] # None => pends[a] \in Sessions /\ Status(pends[a]) # "none" /\ checkout[pends[a]].for = a
    BY DEF OBInv, Hands, PendingHolds
  <2>4. CASE Status(z) = "complete"
    BY <2>1, <2>2, <2>4, CallMoves DEF obTables
  <2>5. CASE Status(z) # "complete"
    BY <2>2, <2>3, <2>5, CallMoves DEF obTables
  <2>. QED BY <2>4, <2>5
<1>4. CASE CardStored(c)
  <2>1. PICK a \in Agents, z \in Sessions :
          a = call[c].agent /\ z = call[c].session /\ Status(z) = "complete" /\ checkout[z].for = a
    BY <1>2, <1>4 DEF CardStored
  <2>2. /\ UNCHANGED <<checkout, visit, mandates, tokens, revoked, usedBy>>
        /\ call' = [call EXCEPT ![c] = Nothing]
        /\ cards' = [cards EXCEPT ![a] = z] /\ pends' = [pends EXCEPT ![a] = None]
    BY <1>4, <2>1 DEF CardStored
  <2>. QED BY <2>1, <2>2, CallMoves
<1>5. CASE Polled(c)
  <2>1. PICK a \in Agents : a = call[c].agent
    BY <1>2, <1>5 DEF Polled
  <2>2. UNCHANGED <<checkout, visit, cards, mandates, tokens, revoked, usedBy>>
        /\ \/ call' = [call EXCEPT ![c] = Nothing] /\ UNCHANGED pends
           \/ call' = [call EXCEPT ![c] = InCall("creating", a, None)] /\ pends' = [pends EXCEPT ![a] = None]
    BY <1>5, <2>1 DEF Polled
  <2>3. CASE call' = [call EXCEPT ![c] = Nothing] /\ UNCHANGED pends
    BY <2>2, <2>3, CallMoves
  <2>4. CASE call' = [call EXCEPT ![c] = InCall("creating", a, None)] /\ pends' = [pends EXCEPT ![a] = None]
    BY <2>2, <2>4, CallMoves
  <2>. QED BY <2>2, <2>3, <2>4
<1>6. CASE SessionStored(c)
  <2>1. PICK a \in Agents, z \in Sessions :
          a = call[c].agent /\ z = call[c].session /\ Status(z) # "none" /\ checkout[z].for = a
    BY <1>2, <1>6 DEF SessionStored
  <2>2. /\ UNCHANGED <<checkout, visit, cards, mandates, tokens, revoked, usedBy>>
        /\ call' = [call EXCEPT ![c] = Nothing] /\ pends' = [pends EXCEPT ![a] = z]
    BY <1>6, <2>1 DEF SessionStored
  <2>. QED BY <2>1, <2>2, CallMoves
<1>7. CASE CallFails(c)
  <2>1. PICK a \in Agents : a = call[c].agent
    BY <1>2, <1>7 DEF CallFails
  <2>2. /\ UNCHANGED <<checkout, visit>> /\ UNCHANGED obTables /\ call' = [call EXCEPT ![c] = Nothing]
    BY <1>7 DEF CallFails
  <2>. QED BY <2>2, CallMoves DEF obTables
<1>. QED BY <1>1, <1>3, <1>4, <1>5, <1>6, <1>7

----------------------------------------------------------------------------
LEMMA OBNextInv == OBInv /\ [OBNext]_obVars => OBInv'
<1> SUFFICES ASSUME OBInv, [OBNext]_obVars PROVE OBInv'
  OBVIOUS
<1>1. CASE UNCHANGED obVars
  BY ZenonT(40), <1>1 DEF obVars, OBInv, Tables, Hands, Sales, VisitHolds, CallHolds, PendingHolds, CardHolds, ShownHolds, Status
<1>2. CASE \E z \in Sessions : CreateSession(z)
  BY <1>2, CreateSessionInv
<1>3. CASE \E z \in Sessions, how \in {"complete", "expired"} : CheckoutEnds(z, how)
  BY <1>3, CheckoutEndsInv
<1>4. CASE \E v \in Visits, z \in Sessions : CompleteStarts(v, z)
  BY <1>4, VisitSteps
<1>5. CASE \E v \in Visits : CompleteRetrieved(v) \/ CompleteInserts(v) \/ VisitFails(v) \/ RevokeToken(v)
  BY <1>5, VisitSteps, CompleteInsertsInv, RevokeInv
<1>6. CASE \E v \in Visits, done \in 1..4 : DiesInserting(v, done)
  BY <1>6, DiesInv
<1>7. CASE \E c \in Calls, a \in Agents : ColdCall(c, a)
  BY <1>7, CallSteps
<1>8. CASE \E c \in Calls : Checked(c) \/ CardStored(c) \/ Polled(c) \/ SessionStored(c) \/ CallFails(c)
  BY <1>8, CallSteps
<1>9. CASE \E c \in Calls, z \in Sessions : SessionMade(c, z)
  BY <1>9, SessionMadeInv
<1>. QED BY <1>1, <1>2, <1>3, <1>4, <1>5, <1>6, <1>7, <1>8, <1>9 DEF OBNext

(* router/src/setup.ts and registration.ts: one token per session, with the card
   and the budget of that session, whatever overlaps and wherever the process
   dies. *)
THEOREM ShownTokensPay == OBSpec => []ShownTokenPays
<1>1. OBInv => ShownTokenPays
  <2> SUFFICES ASSUME OBInv PROVE ShownTokenPays
    OBVIOUS
  <2>1. \A v \in Visits : ShownHolds(v)
    BY DEF OBInv, Sales
  <2>2. ASSUME NEW p \in Principals, cards[p] # None
        PROVE  checkout[cards[p]] = Made("complete", PageOf(p))
    <3>1. cards[p] \in Sessions /\ Status(cards[p]) = "complete" /\ checkout[cards[p]].for = PageOf(p)
      BY <2>2 DEF OBInv, Sales, CardHolds
    <3>. QED BY <3>1, SoldIs DEF OBInv
  <2>. QED BY <2>1, <2>2 DEF ShownTokenPays, ShownHolds, PageOf
<1>. QED BY <1>1, OBInitInv, OBNextInv, PTL DEF OBSpec

(* What a call, a mandate, a token and a used session name. *)
CallsTyped ==
  call \in [Calls -> {Nothing} \cup
    [at : {"checking", "storing", "polling", "creating", "minted"},
     agent : Agents, session : Sessions \cup {None}]]
CardNamesTyped ==
  /\ mandates \subseteq Visits /\ tokens \subseteq Visits /\ revoked \subseteq Visits
  /\ usedBy \in [Sessions -> Visits \cup {None}]

LEMMA CardNamesNext ==
  ASSUME OBInv, CardNamesTyped, [OBNext]_obVars
  PROVE  CardNamesTyped'
<1>. DEFINE Same == UNCHANGED <<mandates, tokens, revoked, usedBy>>
<1>1. CASE Same
  BY <1>1 DEF CardNamesTyped
<1>2. ASSUME NEW v \in Visits, CompleteInserts(v)
      PROVE  CardNamesTyped'
  <2>1. mandates' = mandates \cup {v} /\ tokens' = tokens \cup {v} /\ revoked' = revoked
    BY <1>2 DEF CompleteInserts
  <2>2. usedBy' = [usedBy EXCEPT ![visit[v].session] = v] \/ usedBy' = usedBy
    BY <1>2 DEF CompleteInserts
  <2>. QED BY <2>1, <2>2 DEF CardNamesTyped
<1>3. ASSUME NEW v \in Visits, NEW done \in 1..4, DiesInserting(v, done)
      PROVE  CardNamesTyped'
  <2>1. mandates' \in {mandates, mandates \cup {v}} /\ tokens' \in {tokens, tokens \cup {v}} /\ revoked' = revoked
    BY <1>3 DEF DiesInserting
  <2>2. usedBy' = [usedBy EXCEPT ![visit[v].session] = v] \/ usedBy' = usedBy
    BY <1>3 DEF DiesInserting
  <2>. QED BY <2>1, <2>2 DEF CardNamesTyped
<1>4. ASSUME NEW v \in Visits, RevokeToken(v) PROVE CardNamesTyped'
  BY <1>4 DEF RevokeToken, CardNamesTyped
<1>5. ASSUME NEW z \in Sessions, CreateSession(z) \/ \E how \in {"complete", "expired"} : CheckoutEnds(z, how)
      PROVE  Same
  BY <1>5 DEF CreateSession, CheckoutEnds, obTables
<1>6. ASSUME NEW v \in Visits, (\E z \in Sessions : CompleteStarts(v, z)) \/ CompleteRetrieved(v) \/ VisitFails(v)
      PROVE  Same
  BY <1>6 DEF CompleteStarts, CompleteRetrieved, VisitFails, obTables
<1>7. ASSUME NEW c \in Calls,
             \/ \E a \in Agents : ColdCall(c, a)
             \/ Checked(c) \/ CardStored(c) \/ Polled(c) \/ SessionStored(c) \/ CallFails(c)
             \/ \E z \in Sessions : SessionMade(c, z)
      PROVE  Same
  BY <1>7 DEF ColdCall, Checked, CardStored, Polled, SessionStored, CallFails, SessionMade, obTables
<1>8. CASE UNCHANGED obVars
  BY <1>8 DEF obVars, CardNamesTyped
<1>. HIDE DEF Same
<1>9. ASSUME NEW v \in Visits, CompleteInserts(v) \/ (\E done \in 1..4 : DiesInserting(v, done)) \/ RevokeToken(v)
      PROVE  CardNamesTyped'
  BY <1>2, <1>3, <1>4, <1>9
<1>10. CASE OBNext
  BY <1>1, <1>5, <1>6, <1>7, <1>9, <1>10 DEF OBNext
<1>. QED BY <1>8, <1>10

LEMMA InCallTyped ==
  ASSUME NEW at \in {"checking", "storing", "polling", "creating", "minted"}, NEW a \in Agents,
         NEW z \in Sessions \cup {None}
  PROVE  InCall(at, a, z) \in [at : {"checking", "storing", "polling", "creating", "minted"},
                               agent : Agents, session : Sessions \cup {None}]
BY DEF InCall

LEMMA CallsNext ==
  ASSUME OBInv, CallsTyped, [OBNext]_obVars
  PROVE  CallsTyped'
<1>. DEFINE Calling == [at : {"checking", "storing", "polling", "creating", "minted"},
                     agent : Agents, session : Sessions \cup {None}]
<1>0. \A a \in Agents : pends[a] \in Sessions \cup {None}
  BY DEF OBInv, Hands, PendingHolds
<1>1. CASE UNCHANGED call
  BY <1>1 DEF CallsTyped
<1>2. ASSUME NEW c \in Calls, NEW n \in {Nothing} \cup Calling, call' = [call EXCEPT ![c] = n]
      PROVE  CallsTyped'
  BY <1>2 DEF CallsTyped
<1>3. ASSUME NEW c \in Calls, NEW a \in Agents, ColdCall(c, a)
      PROVE  CallsTyped'
  <2>1. PICK n : n = InCall(IF pends[a] = None THEN "creating" ELSE "checking", a, pends[a])
    OBVIOUS
  <2>2. n \in Calling
    BY <1>0, <2>1, InCallTyped
  <2>. QED BY <1>2, <1>3, <2>1, <2>2 DEF ColdCall
<1>4. ASSUME NEW c \in Calls, Checked(c)
      PROVE  CallsTyped'
  <2>1. PICK a \in Agents : a = call[c].agent
    BY <1>4 DEF Checked, OBInv, Hands, CallHolds
  <2>2. call[c].session \in Sessions
    BY <1>4 DEF Checked, OBInv, Hands, CallHolds
  <2>3. PICK n : n = IF Status(call[c].session) = "complete" THEN InCall("storing", a, call[c].session)
                     ELSE InCall(IF pends[a] = None THEN "creating" ELSE "polling", a, pends[a])
    OBVIOUS
  <2>4. n \in Calling
    BY <1>0, <2>2, <2>3, InCallTyped
  <2>. QED BY <1>2, <1>4, <2>1, <2>3, <2>4 DEF Checked
<1>5. ASSUME NEW c \in Calls, CardStored(c) \/ SessionStored(c) \/ CallFails(c)
      PROVE  CallsTyped'
  <2>1. call' = [call EXCEPT ![c] = Nothing]
    BY <1>5 DEF CardStored, SessionStored, CallFails
  <2>. QED BY <1>2, <2>1
<1>6. ASSUME NEW c \in Calls, Polled(c)
      PROVE  CallsTyped'
  <2>1. PICK a \in Agents : a = call[c].agent
    BY <1>6 DEF Polled, OBInv, Hands, CallHolds
  <2>2. PICK n \in Calling : n = InCall("creating", a, None)
    BY InCallTyped
  <2>3. call' = [call EXCEPT ![c] = Nothing] \/ call' = [call EXCEPT ![c] = n]
    BY <1>6, <2>1, <2>2 DEF Polled
  <2>. QED BY <1>2, <2>3
<1>7. ASSUME NEW c \in Calls, NEW z \in Sessions, SessionMade(c, z)
      PROVE  CallsTyped'
  <2>1. PICK a \in Agents : a = call[c].agent
    BY <1>7 DEF SessionMade, OBInv, Hands, CallHolds
  <2>2. PICK n \in Calling : n = InCall("minted", a, z)
    BY InCallTyped
  <2>3. call' = [call EXCEPT ![c] = n]
    BY <1>7, <2>1, <2>2 DEF SessionMade
  <2>. QED BY <1>2, <2>3
<1>8. ASSUME NEW v \in Visits, NEW done \in 1..4, DiesInserting(v, done)
      PROVE  CallsTyped'
  BY <1>8 DEF DiesInserting, CallsTyped
<1>9. ASSUME NEW z \in Sessions, CreateSession(z) \/ \E how \in {"complete", "expired"} : CheckoutEnds(z, how)
      PROVE  UNCHANGED call
  BY <1>9 DEF CreateSession, CheckoutEnds
<1>10. ASSUME NEW v \in Visits,
              \/ \E z \in Sessions : CompleteStarts(v, z)
              \/ CompleteRetrieved(v) \/ VisitFails(v) \/ CompleteInserts(v) \/ RevokeToken(v)
      PROVE  UNCHANGED call
  BY <1>10 DEF CompleteStarts, CompleteRetrieved, VisitFails, CompleteInserts, RevokeToken
<1>11. CASE UNCHANGED obVars
  BY <1>1, <1>11 DEF obVars
<1>. HIDE DEF Calling
<1>. QED BY <1>1, <1>3, <1>4, <1>5, <1>6, <1>7, <1>8, <1>9, <1>10, <1>11 DEF OBNext

LEMMA CardTypes == ASSUME OBInv, CardNamesTyped, CallsTyped PROVE OBTypeOK
<1>1. cards \in [Principals -> Sessions \cup {None}]
  <2>1. \A p \in Principals : cards[p] \in Sessions \cup {None}
    BY DEF OBInv, Sales, CardHolds
  <2>. QED BY <2>1 DEF OBInv, Tables
<1>2. pends \in [Agents -> Sessions \cup {None}]
  <2>1. \A a \in Agents : pends[a] \in Sessions \cup {None}
    BY DEF OBInv, Hands, PendingHolds
  <2>. QED BY <2>1 DEF OBInv, Tables
<1>3. /\ checkout \in [Sessions -> {Absent} \cup [is : {"open", "complete", "expired"}, for : {"setup"} \cup Agents]]
      /\ visit \in [Visits -> {Nothing} \cup [at : {"retrieving", "reading", "shown", "told", "failed"}, session : Sessions]]
  BY DEF OBInv, Tables, Sold, Visited, Steps
<1>. QED BY <1>1, <1>2, <1>3 DEF CardNamesTyped, CallsTyped, OBTypeOK

----------------------------------------------------------------------------
(* The days the script fills in: between the nearest points on either side. *)

Nearest(points, d, p) ==
  p \in points /\ p.date <= d /\ \A q \in points : q.date <= d => q.date <= p.date
NearestBeyond(points, d, p) ==
  p \in points /\ p.date >= d /\ \A q \in points : q.date >= d => q.date >= p.date

(* What the script may have of a day. *)
TotalOf(d) == OnTheLine(HISTORICAL_DATA, "total", d)
VerifiedOf(d) == OnTheLine(KnownVerified, "verified", d)

Executed(s) == IF s.pass < 3 THEN snapshot[s.date].total # NULL ELSE snapshot[s.date].verified # NULL

DayOK(d) ==
  IF captured[d] # NoSnapshot THEN snapshot[d] = captured[d]
  ELSE \/ snapshot[d] = NoSnapshot
       \/ snapshot[d] = Snapshot(TotalOf(d), VerifiedOf(d))
       \/ snapshot[d] = Snapshot(TotalOf(d), NULL) /\ \A p \in KnownVerified : p.date # d

ScriptInv ==
  /\ today \in Days
  /\ captured \in [Days -> Counts \union {NoSnapshot}] /\ DOMAIN snapshot = Days
  /\ statements # NULL => statements \subseteq Statements
  /\ statements # NULL => \A s \in Statements \ statements : Executed(s)
  /\ filled => \A s \in Statements : Executed(s)
  /\ \A d \in Days : DayOK(d)

----------------------------------------------------------------------------
(* The points and the lines between them *)

Points(P) ==
  /\ \A p \in P : p.date \in Days
  /\ \A p, q \in P : p.date = q.date => p = q

LEMMA ThePoints ==
  /\ Points(HISTORICAL_DATA) /\ Points(KnownVerified)
  /\ \A p \in HISTORICAL_DATA : p.total \in Nat
  /\ \A p \in KnownVerified : p \in HISTORICAL_DATA /\ p.verified \in Nat
  /\ NULL \notin Int /\ LastDay \in Nat
<1>1. KnownVerified \subseteq HISTORICAL_DATA /\ \A p \in KnownVerified : p.verified # NULL
  BY DEF KnownVerified
<1>2. HISTORICAL_DATA \subseteq [date : 1..LastDay, total : Nat, verified : Nat \union {NULL}]
      /\ NULL \notin Int /\ LastDay \in Nat
      /\ \A p, q \in HISTORICAL_DATA : p.date = q.date => p = q
  BY SchedulerAssumption
<1>. QED BY <1>1, <1>2 DEF Points, Days

LEMMA NearestExist ==
  ASSUME NEW P, Points(P), NEW d \in Days
  PROVE  /\ (\E p \in P : p.date <= d) => \E p : Nearest(P, d, p)
         /\ (\E p \in P : p.date >= d) => \E p : NearestBeyond(P, d, p)
<1>1. LastDay \in Nat /\ Days = 1..LastDay /\ \A p \in P : p.date \in 1..LastDay
  BY ThePoints DEF Points, Days
<1>2. ASSUME NEW p \in P, p.date <= d PROVE \E q : Nearest(P, d, q)
  <2> DEFINE S == {LastDay - q.date : q \in {r \in P : r.date <= d}}
  <2>1. S \subseteq Nat /\ S # {}
    <3>1. LastDay - p.date \in S
      BY <1>2
    <3>2. ASSUME NEW q \in P, q.date <= d PROVE LastDay - q.date \in Nat
      BY <1>1
    <3>. QED BY <3>1, <3>2
  <2> HIDE DEF S
  <2>2. PICK n \in S : \A m \in S : n <= m
    BY <2>1, LeastNatural
  <2>3. PICK q \in P : q.date <= d /\ n = LastDay - q.date
    BY <2>2 DEF S
  <2>4. ASSUME NEW r \in P, r.date <= d PROVE r.date <= q.date
    <3>1. LastDay - r.date \in S
      BY <2>4 DEF S
    <3>2. LastDay - q.date <= LastDay - r.date
      BY <3>1, <2>2, <2>3
    <3>. QED BY <3>2, <1>1
  <2>. QED BY <2>3, <2>4 DEF Nearest
<1>3. ASSUME NEW p \in P, p.date >= d PROVE \E q : NearestBeyond(P, d, q)
  <2> DEFINE S == {q.date : q \in {r \in P : r.date >= d}}
  <2>1. S \subseteq Nat /\ S # {}
    <3>1. p.date \in S
      BY <1>3
    <3>2. ASSUME NEW q \in P, q.date >= d PROVE q.date \in Nat
      BY <1>1
    <3>. QED BY <3>1, <3>2
  <2> HIDE DEF S
  <2>2. PICK n \in S : \A m \in S : n <= m
    BY <2>1, LeastNatural
  <2>3. PICK q \in P : q.date >= d /\ n = q.date
    BY <2>2 DEF S
  <2>4. ASSUME NEW r \in P, r.date >= d PROVE r.date >= q.date
    <3>1. r.date \in S
      BY <2>4 DEF S
    <3>. QED BY <3>1, <2>2, <2>3, <1>1
  <2>. QED BY <2>3, <2>4 DEF NearestBeyond
<1>. QED BY <1>2, <1>3

(* The line at a day is told by the nearest points. *)
LEMMA LineOfNearest ==
  ASSUME NEW P, Points(P), NEW d \in Days, NEW field,
         NEW a, NEW b, Nearest(P, d, a), NearestBeyond(P, d, b)
  PROVE  OnTheLine(P, field, d) = IF a = b THEN a[field] ELSE Between(a, b, field, d - a.date)
<1> DEFINE before == {p \in P : p.date <= d}
           beyond == {p \in P : p.date >= d}
           x == CHOOSE p \in before : \A q \in before : q.date <= p.date
           y == CHOOSE p \in beyond : \A q \in beyond : q.date >= p.date
<1>1. \A p \in P : p.date \in Int
  BY ThePoints DEF Points, Days
<1>2. a \in before /\ (\A q \in before : q.date <= a.date) /\ b \in beyond /\ (\A q \in beyond : q.date >= b.date)
  BY DEF Nearest, NearestBeyond
<1>3. x \in before /\ (\A q \in before : q.date <= x.date) /\ y \in beyond /\ (\A q \in beyond : q.date >= y.date)
  BY <1>2
<1> HIDE DEF x, y
<1>4. x = a /\ y = b
  <2>1. x.date = a.date /\ y.date = b.date
    BY <1>1, <1>2, <1>3
  <2>. QED BY <2>1, <1>2, <1>3 DEF Points
<1>5. before # {} /\ beyond # {}
  BY <1>2
<1>6. OnTheLine(P, field, d) = IF before = {} \/ beyond = {} THEN NULL
                               ELSE IF x = y THEN x[field] ELSE Between(x, y, field, d - x.date)
  BY DEF OnTheLine, x, y
<1>. QED BY <1>4, <1>5, <1>6

LEMMA LineAtPoint ==
  ASSUME NEW P, Points(P), NEW field, NEW p \in P
  PROVE  OnTheLine(P, field, p.date) = p[field]
<1>1. p.date \in Days /\ \A q \in P : q.date \in Int
  BY ThePoints DEF Points, Days
<1>2. Nearest(P, p.date, p) /\ NearestBeyond(P, p.date, p)
  BY <1>1 DEF Nearest, NearestBeyond, Days
<1>3. PICK d \in Days : d = p.date
  BY <1>1
<1>4. Nearest(P, d, p) /\ NearestBeyond(P, d, p)
  BY <1>2, <1>3
<1>5. OnTheLine(P, field, d) = IF p = p THEN p[field] ELSE Between(p, p, field, d - p.date)
  BY <1>4, LineOfNearest
<1>. QED BY <1>3, <1>5

LEMMA LineInGap ==
  ASSUME NEW P, Points(P), NEW field, NEW g \in Gaps(P)
  PROVE  /\ OnTheLine(P, field, g.date) = Filler(g, field)
         /\ \A p \in P : p.date # g.date
<1>1. /\ g.from \in P /\ g.to \in P /\ g.date \in Days
      /\ g.from.date < g.date /\ g.date < g.to.date
      /\ \A p \in P : p.date <= g.from.date \/ p.date >= g.to.date
  BY DEF Gaps
<1>2. g.date \in Int /\ \A q \in P : q.date \in Int
  BY <1>1, ThePoints DEF Points, Days
<1>3. Nearest(P, g.date, g.from) /\ NearestBeyond(P, g.date, g.to)
  BY <1>1, <1>2 DEF Nearest, NearestBeyond
<1>4. g.from # g.to
  BY <1>1, <1>2
<1>5. PICK d \in Days, a \in P, b \in P : d = g.date /\ a = g.from /\ b = g.to
  BY <1>1
<1>7. OnTheLine(P, field, d) = IF a = b THEN a[field] ELSE Between(a, b, field, d - a.date)
  BY <1>3, <1>5, LineOfNearest
<1>6. \A p \in P : p.date # g.date
  BY <1>1, <1>2
<1>. QED BY <1>4, <1>5, <1>6, <1>7 DEF Filler

(* Between its first and its last point every day is one or in a gap. *)
LEMMA PointOrGap ==
  ASSUME NEW P, Points(P), NEW d \in Days,
         \E p \in P : p.date <= d, \E p \in P : p.date >= d
  PROVE  (\E p \in P : p.date = d) \/ (\E g \in Gaps(P) : g.date = d)
<1>1. d \in Int /\ \A q \in P : q.date \in Int
  BY ThePoints DEF Points, Days
<1>2. PICK a : Nearest(P, d, a)
  BY NearestExist
<1>3. PICK b : NearestBeyond(P, d, b)
  BY NearestExist
<1>4. CASE \A p \in P : p.date # d
  <2> DEFINE g == [from |-> a, to |-> b, date |-> d]
  <2>1. g \in [from : P, to : P, date : Days]
    BY <1>2, <1>3 DEF Nearest, NearestBeyond
  <2>2. a.date < d /\ d < b.date
    BY <1>1, <1>2, <1>3, <1>4 DEF Nearest, NearestBeyond
  <2>3. \A p \in P : p.date <= a.date \/ p.date >= b.date
    BY <1>1, <1>2, <1>3 DEF Nearest, NearestBeyond
  <2>4. g \in Gaps(P)
    BY <2>1, <2>2, <2>3 DEF Gaps
  <2>. QED BY <2>4
<1>. QED BY <1>4

LEMMA FillerIsNumber ==
  ASSUME NEW P, Points(P), NEW field, NEW g \in Gaps(P), \A p \in P : p[field] \in Nat
  PROVE  Filler(g, field) \in Int
<1> DEFINE a == g.from
           b == g.to
           n == b.date - a.date
           k == g.date - a.date
<1>1. a \in P /\ b \in P /\ g.date \in Days /\ a.date < b.date
      /\ a.date \in Int /\ b.date \in Int /\ g.date \in Int
  BY ThePoints DEF Gaps, Points, Days
<1>2. n \in Int /\ n > 0 /\ k \in Int
  BY <1>1
<1>3. a[field] \in Int /\ b[field] \in Int
  BY <1>1
<1> DEFINE u == a[field]
           v == b[field]
<1>4. Filler(g, field) = (2 * (u * n + (v - u) * k) + n) \div (2 * n)
  BY DEF Filler, Between
<1> HIDE DEF a, b, n, k, u, v
<1>5. u \in Int /\ v \in Int
  BY <1>3 DEF u, v
<1>6. u * n \in Int /\ (v - u) * k \in Int
  BY <1>2, <1>5
<1>7. 2 * (u * n + (v - u) * k) + n \in Int /\ 2 * n \in Int /\ 2 * n > 0
  BY <1>2, <1>6
<1> DEFINE top == 2 * (u * n + (v - u) * k) + n
           bottom == 2 * n
<1>8. top \in Int /\ bottom \in Int /\ bottom > 0
  BY <1>7
<1> HIDE DEF top, bottom
<1>9. top \div bottom \in Int
  BY <1>8
<1>. QED BY <1>4, <1>9 DEF top, bottom

----------------------------------------------------------------------------
(* The script *)

(* A statement of the first two passes inserts what the lines say of a day, one
   of the third what they say of its verified count; and no statement leaves a
   known verified count out. *)
LEMMA StatementSays ==
  ASSUME NEW s \in Statements
  PROVE  /\ s.date \in Days /\ s.pass \in {1, 2, 3}
         /\ s.pass < 3 => /\ s.is.total # NULL /\ s.is = Snapshot(TotalOf(s.date), s.is.verified)
                          /\ \/ s.is.verified = VerifiedOf(s.date)
                             \/ s.is.verified = NULL /\ \A p \in KnownVerified : p.date # s.date
         /\ s.pass = 3 => s.is.verified = VerifiedOf(s.date) /\ s.is.verified # NULL
<1>1. CASE \E p \in HISTORICAL_DATA : s = Statement(1, p.date, p.total, p.verified)
  <2>1. PICK p \in HISTORICAL_DATA : s = Statement(1, p.date, p.total, p.verified)
    BY <1>1
  <2>2. s.date = p.date /\ s.pass = 1 /\ s.is = Snapshot(p.total, p.verified)
        /\ s.is.total = p.total /\ s.is.verified = p.verified
    BY <2>1 DEF Statement, Snapshot
  <2>3. TotalOf(p.date) = p.total
    <3>1. OnTheLine(HISTORICAL_DATA, "total", p.date) = p["total"]
      BY LineAtPoint, ThePoints
    <3>. QED BY <3>1 DEF TotalOf
  <2>4. p.date \in Days /\ p.total # NULL
    BY ThePoints DEF Points
  <2>5. CASE p \in KnownVerified
    <3>1. OnTheLine(KnownVerified, "verified", p.date) = p["verified"]
      BY <2>5, LineAtPoint, ThePoints
    <3>. QED BY <2>2, <2>3, <2>4, <3>1 DEF VerifiedOf
  <2>6. CASE p \notin KnownVerified
    <3>1. p.verified = NULL
      BY <2>6 DEF KnownVerified
    <3>2. \A q \in KnownVerified : q.date # p.date
      BY <2>6, ThePoints DEF Points
    <3>. QED BY <2>2, <2>3, <2>4, <3>1, <3>2
  <2>. QED BY <2>5, <2>6
<1>2. CASE \E g \in Gaps(HISTORICAL_DATA) : s = Statement(2, g.date, Filler(g, "total"), NULL)
  <2>1. PICK g \in Gaps(HISTORICAL_DATA) : s = Statement(2, g.date, Filler(g, "total"), NULL)
    BY <1>2
  <2>2. s.date = g.date /\ s.pass = 2 /\ s.is = Snapshot(Filler(g, "total"), NULL)
        /\ s.is.total = Filler(g, "total") /\ s.is.verified = NULL
    BY <2>1 DEF Statement, Snapshot
  <2>3. TotalOf(g.date) = Filler(g, "total") /\ \A p \in HISTORICAL_DATA : p.date # g.date
    BY LineInGap, ThePoints DEF TotalOf
  <2>4. Filler(g, "total") \in Int
    <3>1. \A p \in HISTORICAL_DATA : p["total"] \in Nat
      BY ThePoints
    <3>. QED BY <3>1, FillerIsNumber, ThePoints
  <2>5. g.date \in Days /\ Filler(g, "total") # NULL
    BY <2>4, ThePoints DEF Gaps
  <2>6. \A p \in KnownVerified : p.date # g.date
    BY <2>3, ThePoints
  <2>. QED BY <2>2, <2>3, <2>5, <2>6
<1>3. CASE \E g \in Gaps(KnownVerified) : s = Statement(3, g.date, NULL, Filler(g, "verified"))
  <2>1. PICK g \in Gaps(KnownVerified) : s = Statement(3, g.date, NULL, Filler(g, "verified"))
    BY <1>3
  <2>2. s.date = g.date /\ s.pass = 3 /\ s.is.verified = Filler(g, "verified")
    BY <2>1 DEF Statement, Snapshot
  <2>3. VerifiedOf(g.date) = Filler(g, "verified")
    BY LineInGap, ThePoints DEF VerifiedOf
  <2>4. Filler(g, "verified") \in Int
    <3>1. \A p \in KnownVerified : p["verified"] \in Nat
      BY ThePoints
    <3>. QED BY <3>1, FillerIsNumber, ThePoints
  <2>5. g.date \in Days /\ Filler(g, "verified") # NULL
    BY <2>4, ThePoints DEF Gaps
  <2>. QED BY <2>2, <2>3, <2>5
<1>. QED BY <1>1, <1>2, <1>3 DEF Statements

(* A day within the points is inserted by one of the first two passes. *)
LEMMA DayIsInserted ==
  ASSUME NEW d \in Days,
         \E p \in HISTORICAL_DATA : p.date <= d, \E p \in HISTORICAL_DATA : p.date >= d
  PROVE  \E s \in Statements : s.pass < 3 /\ s.date = d
<1>1. CASE \E p \in HISTORICAL_DATA : p.date = d
  <2>1. PICK p \in HISTORICAL_DATA : p.date = d
    BY <1>1
  <2>2. Statement(1, p.date, p.total, p.verified) \in Statements
    BY DEF Statements
  <2>. QED BY <2>1, <2>2 DEF Statement
<1>2. CASE \E g \in Gaps(HISTORICAL_DATA) : g.date = d
  <2>1. PICK g \in Gaps(HISTORICAL_DATA) : g.date = d
    BY <1>2
  <2>2. Statement(2, g.date, Filler(g, "total"), NULL) \in Statements
    BY DEF Statements
  <2>. QED BY <2>1, <2>2 DEF Statement
<1>. QED BY <1>1, <1>2, PointOrGap, ThePoints

(* One whose verified count the lines tell is at a point or updated. *)
LEMMA DayIsUpdated ==
  ASSUME NEW d \in Days, VerifiedOf(d) # NULL
  PROVE  (\E p \in KnownVerified : p.date = d) \/ (\E s \in Statements : s.pass = 3 /\ s.date = d)
<1>1. (\E p \in KnownVerified : p.date <= d) /\ (\E p \in KnownVerified : p.date >= d)
  BY DEF VerifiedOf, OnTheLine
<1>2. CASE \E g \in Gaps(KnownVerified) : g.date = d
  <2>1. PICK g \in Gaps(KnownVerified) : g.date = d
    BY <1>2
  <2>2. Statement(3, g.date, NULL, Filler(g, "verified")) \in Statements
    BY DEF Statements
  <2>. QED BY <2>1, <2>2 DEF Statement
<1>. QED BY <1>1, <1>2, PointOrGap, ThePoints

(* The days of the third pass have been inserted. *)
LEMMA UpdatedIsInserted ==
  ASSUME NEW s \in Statements, s.pass = 3
  PROVE  \E t \in Statements : t.pass < 3 /\ t.date = s.date
<1>1. PICK g \in Gaps(KnownVerified) : s = Statement(3, g.date, NULL, Filler(g, "verified"))
  BY DEF Statements, Statement
<1>2. /\ g.from \in KnownVerified /\ g.to \in KnownVerified /\ g.date \in Days
      /\ g.from.date < g.date /\ g.date < g.to.date
  BY DEF Gaps
<1>3. g.from \in HISTORICAL_DATA /\ g.to \in HISTORICAL_DATA
  BY <1>2, ThePoints
<1>4. g.from.date <= g.date /\ g.to.date >= g.date
  BY <1>2, <1>3, ThePoints DEF Points, Days
<1>5. PICK d \in Days : d = g.date
  BY <1>2
<1>6. \E t \in Statements : t.pass < 3 /\ t.date = d
  BY <1>3, <1>4, <1>5, DayIsInserted
<1>. QED BY <1>1, <1>5, <1>6 DEF Statement

----------------------------------------------------------------------------
(* The steps *)

LEMMA CountsAreKnown ==
  /\ \A c \in Counts : c # NoSnapshot /\ c.total # NULL /\ c.verified # NULL
  /\ NoSnapshot.total = NULL /\ NoSnapshot.verified = NULL
<1>1. \A c \in Counts : c.total \in Nat /\ c.verified \in Nat
  BY SchedulerAssumption
<1>2. NoSnapshot.total = NULL /\ NoSnapshot.verified = NULL
  BY DEF NoSnapshot, Snapshot
<1>. QED BY <1>1, <1>2, SchedulerAssumption

LEMMA ScriptInit == SCInit => ScriptInv
<1> SUFFICES ASSUME SCInit PROVE ScriptInv
  OBVIOUS
<1>1. /\ today = Today /\ captured = [d \in Days |-> NoSnapshot] /\ snapshot = captured
      /\ statements = NULL /\ filled = FALSE
  BY DEF SCInit
<1>2. today \in Days
  BY <1>1, SchedulerAssumption DEF Days
<1>3. \A d \in Days : DayOK(d)
  BY <1>1 DEF DayOK
<1>. QED BY <1>1, <1>2, <1>3 DEF ScriptInv

(* The rest of a step that leaves the snapshots and the script alone. *)
LEMMA SameSnapshots ==
  ASSUME ScriptInv, UNCHANGED <<snapshot, captured>>, today' \in Days
  PROVE  /\ captured' \in [Days -> Counts \union {NoSnapshot}] /\ DOMAIN snapshot' = Days
         /\ \A d \in Days : DayOK(d)'
         /\ \A s \in Statements : Executed(s)' <=> Executed(s)
<1>1. snapshot' = snapshot /\ captured' = captured
  OBVIOUS
<1>2. \A d \in Days : DayOK(d)'
  BY <1>1 DEF ScriptInv, DayOK
<1>3. \A s \in Statements : Executed(s)' <=> Executed(s)
  BY <1>1 DEF Executed
<1>. QED BY <1>1, <1>2, <1>3 DEF ScriptInv

LEMMA ServerKeepsScript ==
  ASSUME ScriptInv, UNCHANGED <<snapshot, captured, statements, filled>>, today' \in Days
  PROVE  ScriptInv'
<1>1. statements' = statements /\ filled' = filled
  OBVIOUS
<1>. QED BY <1>1, SameSnapshots DEF ScriptInv

LEMMA CaptureKeepsScript ==
  ASSUME ScriptInv, CaptureSnapshot, UNCHANGED <<today, statements, filled>>
  PROVE  ScriptInv'
<1>1. PICK c \in Counts : /\ snapshot' = [snapshot EXCEPT ![today] = c]
                          /\ captured' = [captured EXCEPT ![today] = c]
  BY DEF CaptureSnapshot
<1>2. today \in Days /\ captured \in [Days -> Counts \union {NoSnapshot}] /\ DOMAIN snapshot = Days
  BY DEF ScriptInv
<1>3. captured' \in [Days -> Counts \union {NoSnapshot}] /\ DOMAIN snapshot' = Days
  BY <1>1, <1>2
<1>4. /\ snapshot'[today] = c /\ captured'[today] = c
      /\ \A d \in Days : d # today => snapshot'[d] = snapshot[d] /\ captured'[d] = captured[d]
  BY <1>1, <1>2
<1>5. \A d \in Days : DayOK(d)'
  BY <1>4, CountsAreKnown DEF ScriptInv, DayOK
<1>6. ASSUME NEW s \in Statements, Executed(s) PROVE Executed(s)'
  <2>1. s.date \in Days
    BY StatementSays
  <2>. QED BY <1>4, <1>6, <2>1, CountsAreKnown DEF Executed
<1>. QED BY <1>2, <1>3, <1>5, <1>6 DEF ScriptInv

(* What a statement does to its day. *)
LEMMA StatementKeepsScript ==
  ASSUME ScriptInv, BackfillStatement
  PROVE  ScriptInv'
<1>1. PICK s \in statements : /\ \A t \in statements \ {s} : Sooner(s, t)
                              /\ snapshot' = [snapshot EXCEPT ![s.date] = After(@, s)]
                              /\ statements' = statements \ {s}
  BY DEF BackfillStatement
<1>2. today' = today /\ captured' = captured /\ filled' = filled /\ statements # NULL
  BY DEF BackfillStatement, server
<1>3. s \in Statements /\ statements \subseteq Statements
  BY <1>2 DEF ScriptInv
<1>4. today \in Days /\ captured \in [Days -> Counts \union {NoSnapshot}] /\ DOMAIN snapshot = Days
  BY DEF ScriptInv
<1>5. s.date \in Days /\ s.pass \in {1, 2, 3}
  BY <1>3, StatementSays
<1> DEFINE d == s.date
           rec == snapshot[d]
<1>6. DOMAIN snapshot' = Days /\ snapshot'[d] = After(rec, s)
      /\ \A e \in Days : e # d => snapshot'[e] = snapshot[e]
  BY <1>1, <1>4, <1>5
<1>7. s.pass = 3 => rec.total # NULL
  <2> SUFFICES ASSUME s.pass = 3 PROVE rec.total # NULL
    OBVIOUS
  <2>1. PICK t \in Statements : t.pass < 3 /\ t.date = d
    BY <1>3, UpdatedIsInserted
  <2>2. t \notin statements
    <3> SUFFICES ASSUME t \in statements PROVE FALSE
      OBVIOUS
    <3>1. t # s
      BY <2>1
    <3>2. Sooner(s, t)
      BY <1>1, <3>1
    <3>3. t.pass \in {1, 2, 3}
      BY StatementSays
    <3>. QED BY <2>1, <3>2, <3>3 DEF Sooner
  <2>3. Executed(t)
    BY <1>2, <2>2 DEF ScriptInv
  <2>. QED BY <2>1, <2>3 DEF Executed
<1>8. DayOK(d)
  BY <1>5 DEF ScriptInv
<1>9. /\ DayOK(d)'
      /\ rec.total # NULL => snapshot'[d].total # NULL
      /\ rec.verified # NULL => snapshot'[d].verified # NULL
      /\ IF s.pass < 3 THEN snapshot'[d].total # NULL ELSE snapshot'[d].verified # NULL
  <2>1. CASE captured[d] # NoSnapshot
    <3>1. rec = captured[d] /\ captured[d] \in Counts
      BY <2>1, <1>4, <1>5, <1>8 DEF DayOK
    <3>2. rec.total # NULL /\ rec.verified # NULL
      BY <3>1, CountsAreKnown
    <3>3. After(rec, s) = rec
      BY <3>2 DEF After
    <3>. QED BY <1>2, <1>6, <2>1, <3>1, <3>2, <3>3 DEF DayOK
  <2>2. CASE captured[d] = NoSnapshot
    <3>1. \/ rec = NoSnapshot
          \/ rec = Snapshot(TotalOf(d), VerifiedOf(d))
          \/ rec = Snapshot(TotalOf(d), NULL) /\ \A p \in KnownVerified : p.date # d
      BY <2>2, <1>8 DEF DayOK
    <3>2. CASE s.pass < 3
      <4>1. /\ s.is.total # NULL /\ s.is = Snapshot(TotalOf(d), s.is.verified)
            /\ \/ s.is.verified = VerifiedOf(d)
               \/ s.is.verified = NULL /\ \A p \in KnownVerified : p.date # d
        BY <1>3, <3>2, StatementSays
      <4>2. CASE rec.total = NULL
        <5>1. snapshot'[d] = s.is
          BY <1>6, <3>2, <4>2 DEF After
        <5>2. DayOK(d)'
          BY <1>2, <2>2, <4>1, <5>1 DEF DayOK
        <5>3. rec.verified = NULL \/ rec.total = TotalOf(d)
          BY <3>1, CountsAreKnown DEF Snapshot
        <5>4. TotalOf(d) # NULL
          BY <4>1 DEF Snapshot
        <5>. QED BY <3>2, <4>1, <4>2, <5>1, <5>2, <5>3, <5>4
      <4>3. CASE rec.total # NULL
        <5>1. snapshot'[d] = rec
          BY <1>6, <3>2, <4>3 DEF After
        <5>2. DayOK(d)'
          BY <1>2, <1>8, <5>1 DEF DayOK
        <5>. QED BY <3>2, <4>3, <5>1, <5>2
      <4>. QED BY <4>2, <4>3
    <3>3. CASE s.pass = 3
      <4>1. s.is.verified = VerifiedOf(d) /\ s.is.verified # NULL
        BY <1>3, <3>3, StatementSays
      <4>2. rec.total # NULL
        BY <1>7, <3>3
      <4>3. CASE rec.verified = NULL
        <5>1. snapshot'[d] = [rec EXCEPT !.verified = VerifiedOf(d)]
          BY <1>6, <3>3, <4>1, <4>2, <4>3 DEF After
        <5>2. rec # NoSnapshot
          BY <4>2, CountsAreKnown
        <5>3. rec = Snapshot(TotalOf(d), rec.verified)
          BY <3>1, <5>2 DEF Snapshot
        <5>4. snapshot'[d] = Snapshot(TotalOf(d), VerifiedOf(d))
          BY <5>1, <5>3 DEF Snapshot
        <5>5. snapshot'[d].total = rec.total /\ snapshot'[d].verified = VerifiedOf(d)
          BY <5>3, <5>4 DEF Snapshot
        <5>6. DayOK(d)'
          BY <1>2, <2>2, <5>4 DEF DayOK
        <5>. QED BY <3>3, <4>1, <4>2, <4>3, <5>5, <5>6
      <4>4. CASE rec.verified # NULL
        <5>1. snapshot'[d] = rec
          BY <1>6, <3>3, <4>4 DEF After
        <5>2. DayOK(d)'
          BY <1>2, <1>8, <5>1 DEF DayOK
        <5>. QED BY <3>3, <4>2, <4>4, <5>1, <5>2
      <4>. QED BY <4>3, <4>4
    <3>. QED BY <1>5, <3>2, <3>3
  <2>. QED BY <2>1, <2>2
<1>10. \A e \in Days : DayOK(e)'
  <2>1. ASSUME NEW e \in Days, e # d PROVE DayOK(e)'
    BY <1>2, <1>6, <2>1 DEF ScriptInv, DayOK
  <2>. QED BY <1>9, <2>1
<1>11. ASSUME NEW t \in Statements, Executed(t) PROVE Executed(t)'
  <2>1. t.date \in Days
    BY StatementSays
  <2>2. CASE t.date = d
    BY <1>9, <1>11, <2>2 DEF Executed
  <2>3. CASE t.date # d
    BY <1>6, <1>11, <2>1, <2>3 DEF Executed
  <2>. QED BY <2>2, <2>3
<1>12. Executed(s)'
  BY <1>9 DEF Executed
<1>13. ASSUME NEW t \in Statements \ statements' PROVE Executed(t)'
  <2>1. t = s \/ t \notin statements
    BY <1>1
  <2>2. t \notin statements => Executed(t)
    BY <1>2 DEF ScriptInv
  <2>. QED BY <1>11, <1>12, <2>1, <2>2
<1>14. statements' \subseteq Statements
  BY <1>1, <1>3
<1>15. filled' => \A t \in Statements : Executed(t)'
  BY <1>2, <1>11 DEF ScriptInv
<1>. QED BY <1>2, <1>4, <1>6, <1>10, <1>13, <1>14, <1>15 DEF ScriptInv

LEMMA ScriptStep ==
  ASSUME ScriptInv, [SCNext]_scVars
  PROVE  ScriptInv'
<1>1. today \in Days /\ Days = 1..LastDay /\ LastDay \in Nat
  BY ThePoints DEF ScriptInv, Days
<1>2. CASE Started \/ RunHealthCheckGuarded \/ Signal \/ ServerCrash \/ UNCHANGED scVars
  <2>1. UNCHANGED <<today, snapshot, captured, statements, filled>>
    BY <1>2 DEF Started, RunHealthCheckGuarded, Signal, ServerCrash, scVars
  <2>. QED BY <1>1, <2>1, ServerKeepsScript
<1>3. CASE SweepOver
  <2>1. CASE CaptureSnapshot
    <3>1. UNCHANGED <<today, statements, filled>>
      BY <1>3 DEF SweepOver
    <3>. QED BY <2>1, <3>1, CaptureKeepsScript
  <2>2. CASE UNCHANGED <<snapshot, captured, lastSnapshotDate>>
    <3>1. UNCHANGED <<today, snapshot, captured, statements, filled>>
      BY <1>3, <2>2 DEF SweepOver
    <3>. QED BY <1>1, <3>1, ServerKeepsScript
  <2>. QED BY <1>3, <2>1, <2>2 DEF SweepOver
<1>4. CASE Midnight
  <2>1. UNCHANGED <<snapshot, captured, statements, filled>> /\ today < LastDay /\ today' = today + 1
    BY <1>4 DEF Midnight, server
  <2>2. today' \in Days
    BY <1>1, <2>1
  <2>. QED BY <2>1, <2>2, ServerKeepsScript
<1>5. CASE BackfillRun
  <2>1. UNCHANGED <<today, snapshot, captured, filled>> /\ statements' = Statements
    BY <1>5 DEF BackfillRun, server
  <2>. QED BY <1>1, <2>1, SameSnapshots DEF ScriptInv
<1>6. CASE BackfillStatement
  BY <1>6, StatementKeepsScript
<1>7. CASE BackfillDone
  <2>1. UNCHANGED <<today, snapshot, captured>> /\ statements # NULL /\ statements = {} /\ statements' = NULL
    BY <1>7 DEF BackfillDone, server
  <2>2. \A s \in Statements : Executed(s)
    BY <2>1 DEF ScriptInv
  <2>. QED BY <1>1, <2>1, <2>2, SameSnapshots DEF ScriptInv
<1>8. CASE BackfillCut
  <2>1. UNCHANGED <<today, snapshot, captured, filled>> /\ statements' = NULL
    BY <1>8 DEF BackfillCut, server
  <2>. QED BY <1>1, <2>1, SameSnapshots DEF ScriptInv
<1>. QED BY <1>2, <1>3, <1>4, <1>5, <1>6, <1>7, <1>8 DEF SCNext

LEMMA ScriptSettles == ScriptInv => BackfillSettles
<1> SUFFICES ASSUME ScriptInv, filled, NEW d \in Min(Dates) .. Max(Dates)
             PROVE  snapshot[d] = IF captured[d] # NoSnapshot THEN captured[d]
                                  ELSE Snapshot(TotalOf(d), VerifiedOf(d))
  BY DEF BackfillSettles, TotalOf, VerifiedOf
<1>1. /\ Dates \subseteq 1..LastDay /\ Dates # {} /\ LastDay \in Nat
      /\ \A p \in HISTORICAL_DATA : p.date \in Dates
  BY SchedulerAssumption, ThePoints DEF Dates, Points, Days
<1>2. \E n \in Dates : \A m \in Dates : n <= m
  <2>1. Dates \subseteq Nat
    BY <1>1
  <2>. QED BY <1>1, <2>1, LeastNatural
<1>3. \E n \in Dates : \A m \in Dates : n >= m
  <2> DEFINE S == {LastDay - m : m \in Dates}
  <2>1. S \subseteq Nat /\ S # {}
    <3>1. \A m \in Dates : LastDay - m \in Nat
      BY <1>1
    <3>. QED BY <1>1, <3>1
  <2> HIDE DEF S
  <2>2. PICK n \in S : \A m \in S : n <= m
    BY <2>1, LeastNatural
  <2>3. PICK k \in Dates : n = LastDay - k
    BY <2>2 DEF S
  <2>4. ASSUME NEW m \in Dates PROVE k >= m
    <3>1. LastDay - k <= LastDay - m
      BY <2>2, <2>3 DEF S
    <3>. QED BY <1>1, <3>1
  <2>. QED BY <2>4
<1>4. Min(Dates) \in Dates /\ Max(Dates) \in Dates
  BY <1>2, <1>3 DEF Min, Max
<1>5. d \in Days
  <2>1. PICK lo \in 1..LastDay, hi \in 1..LastDay : lo = Min(Dates) /\ hi = Max(Dates)
    BY <1>1, <1>4
  <2>2. d \in lo..hi
    BY <2>1
  <2>. QED BY <1>1, <2>1, <2>2 DEF Days
<1>6. PICK a \in HISTORICAL_DATA, b \in HISTORICAL_DATA : a.date = Min(Dates) /\ b.date = Max(Dates)
  BY <1>4 DEF Dates
<1>7. a.date <= d /\ b.date >= d
  BY <1>1, <1>4, <1>6
<1>8. PICK s \in Statements : s.pass < 3 /\ s.date = d
  BY <1>5, <1>7, DayIsInserted
<1>9. snapshot[d].total # NULL
  BY <1>8 DEF ScriptInv, Executed
<1>10. DayOK(d)
  BY <1>5 DEF ScriptInv
<1>11. CASE captured[d] # NoSnapshot
  BY <1>10, <1>11 DEF DayOK
<1>12. CASE captured[d] = NoSnapshot
  <2>1. snapshot[d] # NoSnapshot
    BY <1>9, CountsAreKnown
  <2>2. CASE snapshot[d] = Snapshot(TotalOf(d), NULL) /\ \A p \in KnownVerified : p.date # d
    <3>1. CASE VerifiedOf(d) = NULL
      BY <1>12, <2>2, <3>1
    <3>2. CASE VerifiedOf(d) # NULL
      <4>1. PICK t \in Statements : t.pass = 3 /\ t.date = d
        BY <1>5, <2>2, <3>2, DayIsUpdated
      <4>2. snapshot[d].verified # NULL
        BY <4>1 DEF ScriptInv, Executed
      <4>. QED BY <2>2, <4>2 DEF Snapshot
    <3>. QED BY <3>1, <3>2
  <2>. QED BY <1>10, <1>12, <2>1, <2>2 DEF DayOK
<1>. QED BY <1>11, <1>12

(* Once the script has come to its end, every day between its first and last
   point has the row the server captured, or the points and the lines between
   them: for any points, captures, kills and runs. *)
THEOREM ScriptsSettle == SCSpec => []BackfillSettles
<1>1. ScriptInv /\ [SCNext]_scVars => ScriptInv'
  BY ScriptStep
<1>. QED BY ScriptInit, <1>1, ScriptSettles, PTL DEF SCSpec

(* What the server remembers and does. *)
ServerTyped ==
  /\ today \in Today..LastDay
  /\ process \in {"up", "crashed", "told to stop"}
  /\ sweeping \in BOOLEAN /\ (sweeping => process = "up")
  /\ lastSnapshotDate \in {NULL} \union (Today..today)
  /\ filled \in BOOLEAN

LEMMA ServerTypedInit == ASSUME SCInit PROVE ServerTyped
<1>1. today = Today /\ process = "up" /\ sweeping = FALSE /\ lastSnapshotDate = NULL /\ filled = FALSE
  BY DEF SCInit
<1>2. Today \in Today..LastDay
  BY SchedulerAssumption
<1>. QED BY <1>1, <1>2 DEF ServerTyped

LEMMA ServerTypedNext == ASSUME ServerTyped, [SCNext]_scVars PROVE ServerTyped'
<1>0. Today \in Nat /\ LastDay \in Nat /\ today \in Nat /\ Today <= today /\ today <= LastDay
  <2>1. Today \in Nat /\ LastDay \in Nat
    BY SchedulerAssumption
  <2>2. today \in Today..LastDay
    BY DEF ServerTyped
  <2>. QED BY <2>1, <2>2
<1>1. CASE UNCHANGED scVars
  BY <1>1 DEF ServerTyped, scVars
<1>2. CASE Started \/ Signal \/ ServerCrash
  BY <1>2 DEF ServerTyped, Started, Signal, ServerCrash
<1>3. CASE RunHealthCheckGuarded
  BY <1>3 DEF ServerTyped, RunHealthCheckGuarded
<1>4. CASE SweepOver
  <2>1. lastSnapshotDate' \in {lastSnapshotDate, today} /\ UNCHANGED <<today, process, filled>> /\ sweeping' = FALSE
    BY <1>4 DEF SweepOver, CaptureSnapshot
  <2>2. today \in Today..today
    BY <1>0
  <2>. QED BY <2>1, <2>2 DEF ServerTyped
<1>5. CASE Midnight
  <2>1. today' = today + 1 /\ today < LastDay /\ UNCHANGED <<process, sweeping, lastSnapshotDate, filled>>
    BY <1>5 DEF Midnight, server
  <2>2. today' \in Today..LastDay
    BY <1>0, <2>1
  <2>3. \A d \in Today..today : d \in Today..today'
    BY <1>0, <2>1
  <2>. QED BY <2>1, <2>2, <2>3 DEF ServerTyped
<1>6. CASE BackfillRun \/ BackfillStatement \/ BackfillCut
  <2>1. UNCHANGED <<today, process, sweeping, lastSnapshotDate, filled>>
    BY <1>6 DEF BackfillRun, BackfillStatement, BackfillCut, server
  <2>. QED BY <2>1 DEF ServerTyped
<1>7. CASE BackfillDone
  <2>1. UNCHANGED <<today, process, sweeping, lastSnapshotDate>> /\ filled' = TRUE
    BY <1>7 DEF BackfillDone, server
  <2>. QED BY <2>1 DEF ServerTyped
<1>. QED BY <1>1, <1>2, <1>3, <1>4, <1>5, <1>6, <1>7 DEF SCNext

(* Between two counts a line does not go below zero. *)
LEMMA LinesAreNatural ==
  ASSUME NEW A \in Nat, NEW B \in Nat, NEW n \in Nat \ {0}, NEW k \in 0..n
  PROVE  (2 * (A * n + (B - A) * k) + n) \div (2 * n) \in Nat
<1>1. PICK m \in Nat : m = n - k
  OBVIOUS
<1>2. A * m \in Nat /\ B * k \in Nat
  OBVIOUS
<1>3. n = m + k
  BY <1>1
<1>4. A * n = A * m + A * k
  BY <1>3
<1>5. (B - A) * k = B * k - A * k
  OBVIOUS
<1>6. A * n + (B - A) * k = A * m + B * k
  <2>1. A * k \in Int
    OBVIOUS
  <2>. QED BY <1>2, <1>4, <1>5, <2>1
<1>7. PICK x \in Nat : x = A * n + (B - A) * k
  BY <1>2, <1>6
<1>8. 2 * x + n \in Nat /\ 2 * n \in Nat \ {0}
  OBVIOUS
<1>9. PICK y \in Nat, z \in Nat \ {0} : y = 2 * x + n /\ z = 2 * n
  BY <1>8
<1>10. y \div z \in Nat
  OBVIOUS
<1>. QED BY <1>7, <1>9, <1>10

FieldIsNatural(P, field) == \A p \in P : p[field] \in Nat

LEMMA LineTyped ==
  ASSUME NEW P, Points(P), NEW field, FieldIsNatural(P, field), NEW d \in Days
  PROVE  OnTheLine(P, field, d) \in Nat \union {NULL}
<1>1. CASE ~(\E p \in P : p.date <= d) \/ ~(\E p \in P : p.date >= d)
  <2>. DEFINE before == {p \in P : p.date <= d}
              beyond == {p \in P : p.date >= d}
              a == CHOOSE p \in before : \A q \in before : q.date <= p.date
              b == CHOOSE p \in beyond : \A q \in beyond : q.date >= p.date
              line == IF a = b THEN a[field] ELSE Between(a, b, field, d - a.date)
  <2>1. before = {} \/ beyond = {}
    BY <1>1
  <2>2. OnTheLine(P, field, d) = IF before = {} \/ beyond = {} THEN NULL
                                 ELSE line
    BY DEF OnTheLine
  <2>. HIDE DEF before, beyond, line
  <2>3. OnTheLine(P, field, d) = NULL
    BY <2>1, <2>2
  <2>. QED BY <2>3
<1>2. CASE (\E p \in P : p.date <= d) /\ (\E p \in P : p.date >= d)
  <2>1. PICK a \in P : Nearest(P, d, a)
    BY <1>2, NearestExist DEF Nearest
  <2>2. PICK b \in P : NearestBeyond(P, d, b)
    BY <1>2, NearestExist DEF NearestBeyond
  <2>3. OnTheLine(P, field, d) = IF a = b THEN a[field] ELSE Between(a, b, field, d - a.date)
    BY <2>1, <2>2, LineOfNearest
  <2>4. /\ a \in P /\ b \in P /\ a[field] \in Nat /\ b[field] \in Nat
        /\ a.date \in Nat /\ b.date \in Nat /\ d \in Nat /\ a.date <= d /\ d <= b.date
    <3>1. a \in P /\ b \in P /\ a.date <= d /\ b.date >= d
      BY <2>1, <2>2 DEF Nearest, NearestBeyond
    <3>2. a.date \in Days /\ b.date \in Days
      BY <3>1 DEF Points
    <3>3. a[field] \in Nat /\ b[field] \in Nat
      BY <3>1 DEF FieldIsNatural
    <3>. QED BY <3>1, <3>2, <3>3, ThePoints DEF Days
  <2>5. CASE a # b
    <3>1. a.date # b.date
      BY <2>4, <2>5 DEF Points
    <3>2. PICK n \in Nat \ {0} : n = b.date - a.date
      BY <2>4, <3>1
    <3>3. PICK k \in 0..n : k = d - a.date
      BY <2>4, <3>2
    <3>4. PICK A \in Nat, B \in Nat : A = a[field] /\ B = b[field]
      BY <2>4
    <3>5. Between(a, b, field, k) = (2 * (A * n + (B - A) * k) + n) \div (2 * n)
      BY <3>2, <3>4 DEF Between
    <3>6. Between(a, b, field, k) \in Nat
      BY <3>5, LinesAreNatural
    <3>. QED BY <2>3, <2>5, <3>3, <3>6
  <2>. QED BY <2>3, <2>4, <2>5
<1>. QED BY <1>1, <1>2

LEMMA SchedulerTypes == ASSUME ScriptInv, ServerTyped PROVE SCTypeOK
<1>1. ASSUME NEW d \in Days
      PROVE  snapshot[d].total \in Nat \union {NULL} /\ snapshot[d].verified \in Nat \union {NULL}
  <2>1. TotalOf(d) \in Nat \union {NULL} /\ VerifiedOf(d) \in Nat \union {NULL}
    <3>1. TotalOf(d) \in Nat \union {NULL}
      BY ThePoints, LineTyped DEF TotalOf, FieldIsNatural
    <3>2. VerifiedOf(d) \in Nat \union {NULL}
      BY ThePoints, LineTyped DEF VerifiedOf, FieldIsNatural
    <3>. QED BY <3>1, <3>2
  <2>2. captured[d] \in Counts \union {NoSnapshot} /\ DayOK(d)
    BY DEF ScriptInv
  <2>3. \A c \in Counts : c.total \in Nat /\ c.verified \in Nat
    BY SchedulerAssumption
  <2>4. CASE captured[d] # NoSnapshot
    BY <2>2, <2>3, <2>4 DEF DayOK
  <2>5. CASE captured[d] = NoSnapshot
    BY <2>1, <2>2, <2>5 DEF DayOK, NoSnapshot, Snapshot
  <2>. QED BY <2>4, <2>5
<1>2. captured \in [Days -> Counts \union {NoSnapshot}]
  BY DEF ScriptInv
<1>. QED BY <1>1, <1>2 DEF ServerTyped, SCTypeOK

----------------------------------------------------------------------------
(***************************************************************************)
(* The discovery script                                                    *)
(***************************************************************************)

(* Lists: sequences whatever their elements. *)

LEMMA ListOfSeq == ASSUME NEW S, NEW s \in Seq(S) PROVE IsList(s)
<1>1. DOMAIN s = 1..Len(s) /\ Len(s) \in Nat /\ s \in [1..Len(s) -> S]
  BY LenProperties
<1>2. \A i \in 1..Len(s) : s[i] \in ToSet(s)
  BY <1>1 DEF ToSet
<1>3. s \in [1..Len(s) -> ToSet(s)]
  BY <1>1, <1>2
<1>. QED BY <1>1, <1>3, SeqDef DEF IsList

LEMMA ListParts ==
  ASSUME NEW s, IsList(s)
  PROVE  Len(s) \in Nat /\ DOMAIN s = 1..Len(s) /\ (s = <<>> <=> Len(s) = 0)
<1>1. Len(s) \in Nat /\ DOMAIN s = 1..Len(s)
  BY LenProperties DEF IsList
<1>2. s = <<>> => Len(s) = 0
  BY EmptySeq
<1>3. s # <<>> => Len(s) # 0
  BY EmptySeq DEF IsList
<1>. QED BY <1>1, <1>2, <1>3

LEMMA ListsJoin ==
  ASSUME NEW s, NEW t, IsList(s), IsList(t)
  PROVE  /\ IsList(s \o t) /\ Len(s \o t) = Len(s) + Len(t)
         /\ \A k \in 1..Len(s) : (s \o t)[k] = s[k]
         /\ \A k \in 1..Len(t) : (s \o t)[Len(s) + k] = t[k]
<1>1. s \in Seq(ToSet(s) \cup ToSet(t)) /\ t \in Seq(ToSet(s) \cup ToSet(t))
  BY SeqMonotonic DEF IsList
<1>2. IsList(s \o t)
  BY <1>1, ConcatProperties, ListOfSeq
<1>3. /\ Len(s \o t) = Len(s) + Len(t)
      /\ \A k \in 1..Len(s) + Len(t) : (s \o t)[k] = IF k <= Len(s) THEN s[k] ELSE t[k - Len(s)]
  BY <1>1, ConcatProperties
<1>4. Len(s) \in Nat /\ Len(t) \in Nat
  BY ListParts
<1>. QED BY <1>2, <1>3, <1>4

LEMMA ListGoesOn ==
  ASSUME NEW s, IsList(s), s # <<>>
  PROVE  /\ IsList(Tail(s)) /\ Len(Tail(s)) = Len(s) - 1 /\ Head(s) = s[1]
         /\ \A k \in 1..Len(s) - 1 : Tail(s)[k] = s[k + 1]
<1>1. s \in Seq(ToSet(s))
  BY DEF IsList
<1>2. Tail(s) \in Seq(ToSet(s))
  BY <1>1, HeadTailProperties
<1>3. Head(s) = s[1]
  BY <1>1
<1>. QED BY <1>1, <1>2, <1>3, HeadTailProperties, ListOfSeq

LEMMA ListGrows ==
  ASSUME NEW s, NEW x, IsList(s)
  PROVE  /\ IsList(Append(s, x)) /\ Len(Append(s, x)) = Len(s) + 1
         /\ \A k \in 1..Len(s) : Append(s, x)[k] = s[k]
         /\ Append(s, x)[Len(s) + 1] = x
<1>1. s \in Seq(ToSet(s) \cup {x}) /\ x \in ToSet(s) \cup {x}
  BY SeqMonotonic DEF IsList
<1>2. /\ Append(s, x) \in Seq(ToSet(s) \cup {x}) /\ Len(Append(s, x)) = Len(s) + 1
      /\ \A k \in 1..Len(s) : Append(s, x)[k] = s[k]
      /\ Append(s, x)[Len(s) + 1] = x
  BY <1>1, AppendProperties
<1>3. IsList(Append(s, x))
  BY <1>2, ListOfSeq
<1>. QED BY <1>2, <1>3

LEMMA ListOfFunction ==
  ASSUME NEW n \in Nat, NEW S, NEW f \in [1..n -> S]
  PROVE  IsList(f) /\ Len(f) = n
<1>1. f \in Seq(S)
  BY SeqDef
<1>2. 1..n = 1..Len(f) /\ Len(f) \in Nat
  BY <1>1, LenProperties
<1>3. Len(f) = n
  BY <1>2
<1>. QED BY <1>1, <1>3, ListOfSeq

LEMMA UniqueIsList == ASSUME NEW s, IsList(s) PROVE IsList(Unique(s))
<1>. DEFINE firsts == {k \in DOMAIN s : \A j \in 1 .. k - 1 : s[j] # s[k]}
            nth(n) == CHOOSE k \in firsts : Cardinality({j \in firsts : j <= k}) = n
            u == [n \in 1 .. Cardinality(firsts) |-> s[nth(n)]]
<1>1. firsts \in SUBSET (1..Len(s)) /\ Len(s) \in Nat
  BY ListParts
<1>2. IsFiniteSet(1..Len(s))
  BY <1>1, FS_Interval
<1>3. IsFiniteSet(firsts)
  BY <1>1, <1>2, FS_Subset
<1>4. Cardinality(firsts) \in Nat
  BY <1>3, FS_CardinalityType
<1>5. Unique(s) = u
  BY DEF Unique
<1>. HIDE DEF firsts
<1>6. u \in [1..Cardinality(firsts) -> {s[nth(n)] : n \in 1..Cardinality(firsts)}]
  OBVIOUS
<1>. HIDE DEF u
<1>. QED BY <1>4, <1>5, <1>6, ListOfFunction

LEMMA FirstIsList == ASSUME NEW s, IsList(s), NEW n \in Nat PROVE IsList(First(n, s))
<1>1. Len(s) \in Nat /\ DOMAIN s = 1..Len(s)
  BY ListParts
<1>2. Min({n, Len(s)}) \in {n, Len(s)} /\ Min({n, Len(s)}) <= Len(s)
  <2>1. \E x \in {n, Len(s)} : \A y \in {n, Len(s)} : x <= y
    BY <1>1
  <2>. QED BY <2>1, <1>1 DEF Min
<1>3. \A k \in 1..Min({n, Len(s)}) : s[k] \in ToSet(s)
  BY <1>1, <1>2 DEF ToSet
<1>4. SubSeq(s, 1, Min({n, Len(s)})) \in Seq(ToSet(s))
  <2>. DEFINE m == Min({n, Len(s)})
  <2>1. m \in Int /\ 1 \in Int
    BY <1>1, <1>2
  <2>2. \A k \in 1..m : s[k] \in ToSet(s)
    BY <1>3
  <2>3. SubSeq(s, 1, m) \in Seq(ToSet(s))
    <3>. HIDE DEF m
    <3>. QED BY <2>1, <2>2, SubSeqProperties
  <2>. QED BY <2>3
<1>5. First(n, s) \in Seq(ToSet(s))
  BY <1>4 DEF First
<1>. QED BY <1>5, ListOfSeq

Methods == {"POST", "GET", "HEAD"}

(* The requests of a stage that reads no document. *)
Plain(s) == \A k \in 1..Len(s) : s[k] \notin Document /\ s[k].method \in Methods

LEMMA PostThenGetIsPlain ==
  ASSUME NEW step \in {"landing", "common", "robots"}, NEW urls, IsList(urls)
  PROVE  IsList(PostThenGet(step, urls)) /\ Plain(PostThenGet(step, urls))
<1>. DEFINE n == 2 * Len(urls)
            req(k) == Request(step, urls[(k + 1) \div 2], IF k % 2 = 1 THEN "POST" ELSE "GET")
            f == [k \in 1..n |-> req(k)]
<1>1. n \in Nat
  BY ListParts
<1>2. \A k \in 1..n : req(k) \notin Document /\ req(k).method \in Methods
  BY DEF Request, Document, RootPage, Robots, Sitemap, Methods
<1>3. PostThenGet(step, urls) = f
  BY DEF PostThenGet
<1>. HIDE DEF req, n
<1>4. f \in [1..n -> {req(k) : k \in 1..n}] /\ \A k \in 1..n : f[k] = req(k)
  OBVIOUS
<1>5. IsList(f) /\ Len(f) = n
  <2>. HIDE DEF f
  <2>. QED BY <1>1, <1>4, ListOfFunction
<1>. QED BY <1>2, <1>3, <1>4, <1>5 DEF Plain

(***************************************************************************)
(* What is asked of an endpoint e after the requests s, of which those at   *)
(* the places m got no answer.                                              *)

ReadIn(e, s, m, q) == (\E k \in DOMAIN s \ m : s[k] = q) /\ ~Is402(e, q)
LinksIn(e, s, m) == IF e.page /\ ReadIn(e, s, m, RootPage) THEN Linked(e) ELSE <<>>
NamesIn(e, s, m) ==
  (IF ReadIn(e, s, m, Robots) THEN e.robots ELSE <<>>) \o (IF ReadIn(e, s, m, Sitemap) THEN e.sitemap ELSE <<>>)

Before(e) == Direct(e) \o WellKnown \o <<RootPage>>
Start(e, links) == Before(e) \o links \o Common(e) \o <<Robots, Sitemap>>
AllIn(e, s, m) == Start(e, LinksIn(e, s, m)) \o Named(NamesIn(e, s, m))

(* The next request is one of a known list at every point: up to the sitemap
   that of the first stages, then that of all five. *)
KnownIn(e, s, m) == IF Len(s) < Len(Start(e, LinksIn(e, s, m))) THEN Start(e, LinksIn(e, s, m)) ELSE AllIn(e, s, m)

Endpoints == {Listing[i] : i \in DOMAIN Listing}

LEMMA EndpointLists ==
  ASSUME NEW e \in Endpoints
  PROVE  IsList(e.parents) /\ IsList(e.links) /\ IsList(e.robots) /\ IsList(e.sitemap)
BY DiscoveryAssumption DEF Endpoints

LEMMA BeforeIs ==
  ASSUME NEW e
  PROVE  /\ IsList(Before(e)) /\ Len(Before(e)) >= 1 /\ Before(e)[Len(Before(e))] = RootPage
         /\ \A k \in 1..Len(Before(e)) - 1 : Before(e)[k] \notin Document /\ Before(e)[k].method \in Methods
<1>. DEFINE D == Direct(e)
            DW == D \o WellKnown
            R == <<RootPage>>
<1>1. IsList(D) /\ Len(D) = 3
  <2>1. D \in Seq({D[1], D[2], D[3]}) /\ Len(D) = 3
    BY DEF Direct
  <2>. QED BY <2>1, ListOfSeq
<1>2. Plain(D)
  BY <1>1 DEF Plain, Direct, Request, Document, RootPage, Robots, Sitemap, Methods
<1>3. IsList(WellKnown) /\ Plain(WellKnown)
  <2>. DEFINE n == Len(WellKnownPaths)
              req(k) == Request("well known", WellKnownPaths[k], "GET")
              f == [k \in 1..n |-> req(k)]
  <2>1. n \in Nat /\ DOMAIN WellKnownPaths = 1..n
    BY ListParts, DiscoveryAssumption
  <2>2. WellKnown = f
    BY <2>1 DEF WellKnown
  <2>3. \A k \in 1..n : req(k) \notin Document /\ req(k).method \in Methods
    BY DEF Request, Document, RootPage, Robots, Sitemap, Methods
  <2>. HIDE DEF req, n
  <2>4. f \in [1..n -> {req(k) : k \in 1..n}] /\ \A k \in 1..n : f[k] = req(k)
    OBVIOUS
  <2>5. IsList(f) /\ Len(f) = n
    <3>. HIDE DEF f
    <3>. QED BY <2>1, <2>4, ListOfFunction
  <2>. QED BY <2>2, <2>3, <2>4, <2>5 DEF Plain
<1>4. IsList(R) /\ Len(R) = 1 /\ R[1] = RootPage
  <2>1. R \in Seq({RootPage}) /\ Len(R) = 1 /\ R[1] = RootPage
    OBVIOUS
  <2>. QED BY <2>1, ListOfSeq
<1>. HIDE DEF D, R
<1>5. /\ IsList(DW) /\ Len(DW) = Len(D) + Len(WellKnown)
      /\ \A k \in 1..Len(D) : DW[k] = D[k]
      /\ \A k \in 1..Len(WellKnown) : DW[Len(D) + k] = WellKnown[k]
  <2>1. IsList(D) /\ IsList(WellKnown)
    BY <1>1, <1>3
  <2>2. IsList(D \o WellKnown)
    BY <2>1, ListsJoin
  <2>3. Len(D \o WellKnown) = Len(D) + Len(WellKnown)
    BY <2>1, ListsJoin
  <2>4. \A k \in 1..Len(D) : DW[k] = D[k]
    BY <2>1, ListsJoin
  <2>5. \A k \in 1..Len(WellKnown) : DW[Len(D) + k] = WellKnown[k]
    BY <2>1, ListsJoin
  <2>. QED BY <2>2, <2>3, <2>4, <2>5
<1>6. Len(WellKnown) \in Nat /\ Len(D) \in Nat
  BY <1>1, <1>3, ListParts
<1>7. Plain(DW)
  <2>. SUFFICES ASSUME NEW k \in 1..Len(DW) PROVE DW[k] \notin Document /\ DW[k].method \in Methods
    BY DEF Plain
  <2>1. CASE k <= Len(D)
    BY <2>1, <1>2, <1>5, <1>6 DEF Plain
  <2>2. CASE k > Len(D)
    <3>1. k - Len(D) \in 1..Len(WellKnown) /\ k = Len(D) + (k - Len(D))
      BY <2>2, <1>5, <1>6
    <3>. QED BY <3>1, <1>3, <1>5 DEF Plain
  <2>. QED BY <2>1, <2>2, <1>5, <1>6
<1>. HIDE DEF DW
<1>8. /\ IsList(DW \o R) /\ Len(DW \o R) = Len(DW) + 1
      /\ \A k \in 1..Len(DW) : (DW \o R)[k] = DW[k]
      /\ (DW \o R)[Len(DW) + 1] = RootPage
  <2>1. 1 \in 1..Len(R)
    BY <1>4
  <2>2. IsList(DW) /\ IsList(R)
    BY <1>4, <1>5
  <2>3. IsList(DW \o R)
    BY <2>2, ListsJoin
  <2>4. Len(DW \o R) = Len(DW) + Len(R)
    BY <2>2, ListsJoin
  <2>5. \A k \in 1..Len(DW) : (DW \o R)[k] = DW[k]
    BY <2>2, ListsJoin
  <2>6. \A k \in 1..Len(R) : (DW \o R)[Len(DW) + k] = R[k]
    BY <2>2, ListsJoin
  <2>. QED BY <2>1, <2>3, <2>4, <2>5, <2>6, <1>4
<1>9. Before(e) = DW \o R
  BY DEF Before, DW, D, R
<1>10. Len(DW) \in Nat
  BY <1>5, <1>6
<1>. QED BY <1>7, <1>8, <1>9, <1>10 DEF Plain

(* The lists that are built from what an endpoint shows. *)
LEMMA CommonIs == ASSUME NEW e \in Endpoints PROVE IsList(Common(e)) /\ Plain(Common(e))
<1>1. IsList(e.parents) /\ IsList(CommonPaths)
  BY EndpointLists, DiscoveryAssumption
<1>2. IsList(e.parents \o CommonPaths)
  BY <1>1, ListsJoin
<1>3. IsList(First(15, Unique(e.parents \o CommonPaths)))
  BY <1>2, UniqueIsList, FirstIsList
<1>. QED BY <1>3, PostThenGetIsPlain DEF Common

LEMMA LinkedIs == ASSUME NEW e \in Endpoints PROVE IsList(Linked(e)) /\ Plain(Linked(e))
<1>1. IsList(First(10, Unique(e.links)))
  BY EndpointLists, UniqueIsList, FirstIsList
<1>. QED BY <1>1, PostThenGetIsPlain DEF Linked

LEMMA NamedIs == ASSUME NEW urls, IsList(urls) PROVE IsList(Named(urls)) /\ Plain(Named(urls))
<1>1. IsList(First(5, Unique(urls)))
  BY UniqueIsList, FirstIsList
<1>. QED BY <1>1, PostThenGetIsPlain DEF Named

LEMMA NoneIs == IsList(<<>>) /\ Len(<<>>) = 0 /\ Plain(<<>>)
<1>1. <<>> \in Seq({}) /\ Len(<<>>) = 0
  BY EmptySeq
<1>2. IsList(<<>>)
  BY <1>1, ListOfSeq
<1>. QED BY <1>1, <1>2 DEF Plain

LEMMA FilesAre ==
  IsList(<<Robots, Sitemap>>) /\ Len(<<Robots, Sitemap>>) = 2
  /\ <<Robots, Sitemap>>[1] = Robots /\ <<Robots, Sitemap>>[2] = Sitemap
<1>1. <<Robots, Sitemap>> \in Seq({Robots, Sitemap})
  OBVIOUS
<1>2. IsList(<<Robots, Sitemap>>)
  BY <1>1, ListOfSeq
<1>. QED BY <1>2

LEMMA NamesAre ==
  ASSUME NEW e \in Endpoints, NEW s, NEW m
  PROVE  /\ IsList(NamesIn(e, s, m))
         /\ IsList(LinksIn(e, s, m)) /\ Plain(LinksIn(e, s, m))
<1>1. IsList(IF ReadIn(e, s, m, Robots) THEN e.robots ELSE <<>>)
  BY EndpointLists, NoneIs
<1>2. IsList(IF ReadIn(e, s, m, Sitemap) THEN e.sitemap ELSE <<>>)
  BY EndpointLists, NoneIs
<1>3. IsList(NamesIn(e, s, m))
  BY <1>1, <1>2, ListsJoin DEF NamesIn
<1>. QED BY <1>3, LinkedIs, NoneIs DEF LinksIn

(* Where the three documents stand in the list of the first stages, and that
   it only grows at its end or at the links. *)
LEMMA StartIs ==
  ASSUME NEW e \in Endpoints, NEW links, IsList(links), Plain(links)
  PROVE  LET b == Len(Before(e))
             n == Len(links)
             c == Len(Common(e))
             F == Start(e, links)
         IN /\ b \in Nat \ {0} /\ n \in Nat /\ c \in Nat
            /\ IsList(F) /\ Len(F) = b + n + c + 2
            /\ \A k \in 1..b : F[k] = Before(e)[k]
            /\ \A k \in 1..n : F[b + k] = links[k]
            /\ \A k \in 1..c : F[b + n + k] = Common(e)[k]
            /\ F[b + n + c + 1] = Robots /\ F[b + n + c + 2] = Sitemap
<1>. DEFINE b == Len(Before(e))
            n == Len(links)
            c == Len(Common(e))
            BL == Before(e) \o links
            BLC == BL \o Common(e)
            RS == <<Robots, Sitemap>>
            F == BLC \o RS
<1>1. IsList(Before(e)) /\ IsList(links) /\ IsList(Common(e)) /\ IsList(RS)
  BY BeforeIs, CommonIs, FilesAre
<1>2. b \in Nat \ {0} /\ n \in Nat /\ c \in Nat
  BY <1>1, BeforeIs, ListParts
<1>3. IsList(BL)
  BY <1>1, ListsJoin
<1>4. Len(BL) = b + n
  BY <1>1, ListsJoin
<1>5. \A k \in 1..b : BL[k] = Before(e)[k]
  BY <1>1, ListsJoin
<1>6. \A k \in 1..n : BL[b + k] = links[k]
  BY <1>1, ListsJoin
<1>. HIDE DEF BL
<1>7. IsList(BLC)
  BY <1>1, <1>3, ListsJoin
<1>8. Len(BLC) = b + n + c
  BY <1>1, <1>3, <1>4, ListsJoin
<1>9. \A k \in 1..b + n : BLC[k] = BL[k]
  BY <1>1, <1>3, <1>4, ListsJoin
<1>10. \A k \in 1..c : BLC[b + n + k] = Common(e)[k]
  BY <1>1, <1>3, <1>4, ListsJoin
<1>. HIDE DEF BLC
<1>11. IsList(F)
  BY <1>1, <1>7, ListsJoin
<1>. HIDE DEF RS
<1>12. Len(F) = Len(BLC) + Len(RS)
  BY <1>1, <1>7, ListsJoin
<1>13. \A k \in 1..Len(BLC) : F[k] = BLC[k]
  BY <1>1, <1>7, ListsJoin
<1>14. \A k \in 1..Len(RS) : F[Len(BLC) + k] = RS[k]
  BY <1>1, <1>7, ListsJoin
<1>15. Len(RS) = 2 /\ RS[1] = Robots /\ RS[2] = Sitemap
  BY FilesAre DEF RS
<1>16. F = Start(e, links)
  BY DEF F, BLC, BL, RS, Start
<1>. HIDE DEF F
<1>17. F[b + n + c + 1] = Robots /\ F[b + n + c + 2] = Sitemap
  <2>1. 1 \in 1..Len(RS) /\ 2 \in 1..Len(RS)
    BY <1>15
  <2>. QED BY <2>1, <1>8, <1>14, <1>15
<1>18. \A k \in 1..b : F[k] = Before(e)[k]
  BY <1>2, <1>5, <1>8, <1>9, <1>13
<1>19. \A k \in 1..n : F[b + k] = links[k]
  <2>. SUFFICES ASSUME NEW k \in 1..n PROVE F[b + k] = links[k]
    OBVIOUS
  <2>1. b + k \in 1..b + n /\ b + k \in 1..Len(BLC)
    BY <1>2, <1>8
  <2>. QED BY <2>1, <1>6, <1>9, <1>13
<1>20. \A k \in 1..c : F[b + n + k] = Common(e)[k]
  <2>. SUFFICES ASSUME NEW k \in 1..c PROVE F[b + n + k] = Common(e)[k]
    OBVIOUS
  <2>1. b + n + k \in 1..Len(BLC)
    BY <1>2, <1>8
  <2>. QED BY <2>1, <1>10, <1>13
<1>21. Len(F) = b + n + c + 2
  BY <1>2, <1>8, <1>12, <1>15
<1>. QED BY <1>2, <1>11, <1>16, <1>17, <1>18, <1>19, <1>20, <1>21

LEMMA DocumentsDiffer ==
  /\ RootPage # Robots /\ RootPage # Sitemap /\ Robots # Sitemap
  /\ \A q \in Document : q.method \in Methods
BY DEF Document, RootPage, Robots, Sitemap, Request, Methods

LEMMA StartStands ==
  ASSUME NEW e \in Endpoints, NEW links, IsList(links), Plain(links),
         NEW k \in 1..Len(Start(e, links))
  PROVE  LET F == Start(e, links)
         IN /\ F[k].method \in Methods
            /\ F[k] = RootPage <=> k = Len(Before(e))
            /\ F[k] = Robots <=> k = Len(F) - 1
            /\ F[k] = Sitemap <=> k = Len(F)
<1>. DEFINE b == Len(Before(e))
            n == Len(links)
            c == Len(Common(e))
            F == Start(e, links)
            Claim == /\ F[k].method \in Methods
                     /\ F[k] = RootPage <=> k = b
                     /\ F[k] = Robots <=> k = Len(F) - 1
                     /\ F[k] = Sitemap <=> k = Len(F)
<1>1. /\ b \in Nat \ {0} /\ n \in Nat /\ c \in Nat
      /\ IsList(F) /\ Len(F) = b + n + c + 2
      /\ \A l \in 1..b : F[l] = Before(e)[l]
      /\ \A l \in 1..n : F[b + l] = links[l]
      /\ \A l \in 1..c : F[b + n + l] = Common(e)[l]
      /\ F[b + n + c + 1] = Robots /\ F[b + n + c + 2] = Sitemap
  BY StartIs
<1>2. /\ Before(e)[b] = RootPage
      /\ \A l \in 1..b - 1 : Before(e)[l] \notin Document /\ Before(e)[l].method \in Methods
  BY BeforeIs
<1>. HIDE DEF F, b, n, c
<1>0. b \in Nat \ {0} /\ n \in Nat /\ c \in Nat /\ Len(F) = b + n + c + 2
  BY <1>1
<1>3. F[k] \notin Document /\ F[k].method \in Methods /\ k # b /\ k < Len(F) - 1 => Claim
  BY <1>1 DEF Document
<1>4. CASE k <= b - 1
  <2>1. k \in 1..b - 1 /\ k \in 1..b
    BY <1>1, <1>4
  <2>2. F[k] \notin Document /\ F[k].method \in Methods
    BY <2>1, <1>1, <1>2
  <2>3. k # b /\ k < Len(F) - 1
    BY <2>1, <1>1
  <2>. QED BY <2>2, <2>3, <1>3 DEF F, b
<1>5. CASE k = b
  <2>1. b \in 1..b
    BY <1>1
  <2>2. F[k] = RootPage
    BY <2>1, <1>1, <1>2, <1>5
  <2>3. k # Len(F) - 1 /\ k # Len(F)
    BY <1>1, <1>5
  <2>4. RootPage \in Document
    BY DEF Document
  <2>. QED BY <2>2, <2>3, <2>4, <1>5, DocumentsDiffer DEF F, b
<1>6. CASE k \in b + 1..b + n
  <2>1. k - b \in 1..n /\ k = b + (k - b) /\ k # b /\ k < Len(F) - 1
    BY <1>0, <1>6
  <2>2. F[k] = links[k - b]
    BY <2>1, <1>1
  <2>3. F[k] \notin Document /\ F[k].method \in Methods
    BY <2>1, <2>2 DEF Plain, n
  <2>. QED BY <2>1, <2>3, <1>3 DEF F, b
<1>7. CASE k \in b + n + 1..b + n + c
  <2>1. k - b - n \in 1..c /\ k = b + n + (k - b - n) /\ k # b /\ k < Len(F) - 1
    BY <1>0, <1>7
  <2>2. F[k] = Common(e)[k - b - n]
    BY <2>1, <1>1
  <2>3. F[k] \notin Document /\ F[k].method \in Methods
    BY <2>1, <2>2, CommonIs DEF Plain, c
  <2>. QED BY <2>1, <2>3, <1>3 DEF F, b
<1>8. CASE k = b + n + c + 1
  <2>1. k = Len(F) - 1 /\ k # b /\ k # Len(F)
    BY <1>1, <1>8
  <2>2. F[k] = Robots /\ Robots \in Document
    BY <1>1, <1>8 DEF Document
  <2>. QED BY <2>1, <2>2, DocumentsDiffer DEF F, b
<1>9. CASE k = b + n + c + 2
  <2>1. k = Len(F) /\ k # b /\ k # Len(F) - 1
    BY <1>1, <1>9
  <2>2. F[k] = Sitemap /\ Sitemap \in Document
    BY <1>1, <1>9 DEF Document
  <2>. QED BY <2>1, <2>2, DocumentsDiffer DEF F, b
<1>10. k \in 1..b + n + c + 2
  BY <1>1 DEF F
<1>. QED BY <1>1, <1>4, <1>5, <1>6, <1>7, <1>8, <1>9, <1>10

(* The whole list. *)
LEMMA AllIs ==
  ASSUME NEW e \in Endpoints, NEW s, NEW m
  PROVE  LET F == Start(e, LinksIn(e, s, m))
             T == Named(NamesIn(e, s, m))
             O == AllIn(e, s, m)
         IN /\ IsList(F) /\ IsList(T) /\ IsList(O)
            /\ Len(F) \in Nat /\ Len(T) \in Nat /\ Len(O) = Len(F) + Len(T)
            /\ Len(Before(e)) \in 1..Len(F) - 2
            /\ \A k \in 1..Len(F) : O[k] = F[k]
            /\ \A k \in 1..Len(T) : O[Len(F) + k] = T[k]
            /\ \A k \in 1..Len(O) :
                 /\ O[k].method \in Methods
                 /\ O[k] = RootPage <=> k = Len(Before(e))
                 /\ O[k] = Robots <=> k = Len(F) - 1
                 /\ O[k] = Sitemap <=> k = Len(F)
<1>. DEFINE L == LinksIn(e, s, m)
            b == Len(Before(e))
            F == Start(e, L)
            T == Named(NamesIn(e, s, m))
            O == F \o T
<1>1. IsList(L) /\ Plain(L)
  BY NamesAre
<1>. HIDE DEF L
<1>2. IsList(F) /\ Len(F) = b + Len(L) + Len(Common(e)) + 2
  BY <1>1, StartIs
<1>3. b \in Nat \ {0} /\ Len(L) \in Nat /\ Len(Common(e)) \in Nat
  BY <1>1, StartIs
<1>4. \A k \in 1..Len(F) : /\ F[k].method \in Methods
                           /\ F[k] = RootPage <=> k = b
                           /\ F[k] = Robots <=> k = Len(F) - 1
                           /\ F[k] = Sitemap <=> k = Len(F)
  BY <1>1, StartStands
<1>5. IsList(T) /\ Plain(T)
  BY NamesAre, NamedIs
<1>6. O = AllIn(e, s, m)
  BY DEF AllIn, L
<1>. HIDE DEF F, T
<1>7. IsList(O)
  BY <1>2, <1>5, ListsJoin
<1>8. Len(O) = Len(F) + Len(T)
  BY <1>2, <1>5, ListsJoin
<1>9. \A k \in 1..Len(F) : O[k] = F[k]
  BY <1>2, <1>5, ListsJoin
<1>10. \A k \in 1..Len(T) : O[Len(F) + k] = T[k]
  BY <1>2, <1>5, ListsJoin
<1>11. Len(F) \in Nat /\ Len(T) \in Nat
  BY <1>2, <1>5, ListParts
<1>. HIDE DEF O
<1>12. b \in 1..Len(F) - 2
  BY <1>2, <1>3
<1>. HIDE DEF b
<1>13. ASSUME NEW k \in 1..Len(O)
       PROVE  /\ O[k].method \in Methods
              /\ O[k] = RootPage <=> k = b
              /\ O[k] = Robots <=> k = Len(F) - 1
              /\ O[k] = Sitemap <=> k = Len(F)
  <2>1. CASE k <= Len(F)
    <3>1. k \in 1..Len(F)
      BY <2>1, <1>8, <1>11
    <3>. QED BY <3>1, <1>4, <1>9
  <2>2. CASE k > Len(F)
    <3>1. k - Len(F) \in 1..Len(T) /\ k = Len(F) + (k - Len(F))
      BY <2>2, <1>8, <1>11
    <3>2. O[k] = T[k - Len(F)]
      BY <3>1, <1>10
    <3>3. O[k] \notin Document /\ O[k].method \in Methods
      BY <3>1, <3>2, <1>5 DEF Plain
    <3>4. k # b /\ k # Len(F) - 1 /\ k # Len(F)
      BY <2>2, <1>11, <1>12
    <3>. QED BY <3>3, <3>4 DEF Document
  <2>. QED BY <2>1, <2>2, <1>8, <1>11
<1>. QED BY <1>2, <1>5, <1>6, <1>7, <1>8, <1>9, <1>10, <1>11, <1>12, <1>13 DEF F, T, L, b

----------------------------------------------------------------------------
(* The course of one endpoint: what was asked is the beginning of the list of
   the five stages as it is known by now, and nothing before the last request
   was a gate. *)

OpenIn(e, s, m) == {k \in 1..Len(s) \ m : Gate(e, s[k])}

Course(e, s, m, j) ==
  /\ IsList(s) /\ j.n = Len(s) /\ m \subseteq 1..Len(s)
  /\ Len(s) <= Len(AllIn(e, s, m)) /\ \A k \in 1..Len(s) : s[k] = AllIn(e, s, m)[k]
  /\ j.named = NamesIn(e, s, m)
  /\ j.found = {s[k] : k \in OpenIn(e, s, m)} /\ OpenIn(e, s, m) \subseteq {Len(s)}

(* The request q after s; at its place there may be no answer. *)
Asks(s, m, q, t, m2) == t = Append(s, q) /\ m2 \in {m, m \cup {Len(s) + 1}}

(* What is left is the rest of the list that is known. *)
RestOf(rest, list, n) ==
  IsList(rest) /\ Len(rest) = Len(list) - n /\ \A k \in 1..Len(rest) : rest[k] = list[n + k]

LEMMA RestMovesOn ==
  ASSUME NEW rest, NEW list, NEW n \in Nat, IsList(list), RestOf(rest, list, n), rest # <<>>
  PROVE  /\ Head(rest) = list[n + 1] /\ n + 1 <= Len(list)
         /\ RestOf(Tail(rest), list, n + 1)
<1>1. IsList(rest) /\ Len(rest) = Len(list) - n /\ \A k \in 1..Len(rest) : rest[k] = list[n + k]
  BY DEF RestOf
<1>2. Len(rest) \in Nat /\ Len(rest) # 0 /\ Len(list) \in Nat
  BY <1>1, ListParts
<1>3. /\ IsList(Tail(rest)) /\ Len(Tail(rest)) = Len(rest) - 1 /\ Head(rest) = rest[1]
      /\ \A k \in 1..Len(rest) - 1 : Tail(rest)[k] = rest[k + 1]
  BY <1>1, ListGoesOn
<1>4. Head(rest) = list[n + 1] /\ n + 1 <= Len(list)
  BY <1>1, <1>2, <1>3
<1>5. ASSUME NEW k \in 1..Len(Tail(rest)) PROVE Tail(rest)[k] = list[n + 1 + k]
  <2>1. k \in 1..Len(rest) - 1 /\ k + 1 \in 1..Len(rest) /\ n + (k + 1) = n + 1 + k
    BY <1>2, <1>3
  <2>2. Tail(rest)[k] = rest[k + 1] /\ rest[k + 1] = list[n + (k + 1)]
    BY <2>1, <1>1, <1>3
  <2>. QED BY <2>1, <2>2
<1>6. Len(Tail(rest)) = Len(list) - (n + 1)
  BY <1>1, <1>2, <1>3
<1>. QED BY <1>3, <1>4, <1>5, <1>6 DEF RestOf

(* q is asked for next, and tail is what is left then. *)
NextUp(e, s, m, q, tail) ==
  /\ Len(s) + 1 <= Len(KnownIn(e, s, m)) /\ q = KnownIn(e, s, m)[Len(s) + 1]
  /\ RestOf(tail, KnownIn(e, s, m), Len(s) + 1)

(* A document that was read was asked for in its place. *)
LEMMA ReadInPlace ==
  ASSUME NEW e \in Endpoints, NEW s, NEW m, NEW j, Course(e, s, m, j)
  PROVE  LET F == Start(e, LinksIn(e, s, m))
         IN /\ ReadIn(e, s, m, RootPage) => Len(Before(e)) <= Len(s)
            /\ ReadIn(e, s, m, Robots) => Len(F) - 1 <= Len(s)
            /\ ReadIn(e, s, m, Sitemap) => Len(F) <= Len(s)
<1>. DEFINE F == Start(e, LinksIn(e, s, m))
            O == AllIn(e, s, m)
<1>1. ASSUME NEW q, ReadIn(e, s, m, q) PROVE \E k \in 1..Len(s) : k \in 1..Len(O) /\ O[k] = q
  <2>1. PICK k \in DOMAIN s \ m : s[k] = q
    BY <1>1 DEF ReadIn
  <2>2. IsList(s) /\ Len(s) <= Len(O) /\ \A l \in 1..Len(s) : s[l] = O[l]
    BY DEF Course
  <2>3. k \in 1..Len(s) /\ Len(s) \in Nat /\ Len(O) \in Nat
    BY <2>1, <2>2, ListParts, AllIs
  <2>. QED BY <2>1, <2>2, <2>3
<1>2. \A k \in 1..Len(O) : /\ O[k] = RootPage <=> k = Len(Before(e))
                           /\ O[k] = Robots <=> k = Len(F) - 1
                           /\ O[k] = Sitemap <=> k = Len(F)
  BY AllIs
<1>3. Len(s) \in Nat
  BY ListParts DEF Course
<1>. HIDE DEF F, O
<1>4. ReadIn(e, s, m, RootPage) => Len(Before(e)) <= Len(s)
  BY <1>1, <1>2, <1>3
<1>5. ReadIn(e, s, m, Robots) => Len(F) - 1 <= Len(s)
  BY <1>1, <1>2, <1>3
<1>6. ReadIn(e, s, m, Sitemap) => Len(F) <= Len(s)
  BY <1>1, <1>2, <1>3
<1>. QED BY <1>4, <1>5, <1>6 DEF F

(* What the next request makes known: m2 are the places without answer after it. *)
LEMMA ReadNext ==
  ASSUME NEW e, NEW s, NEW m, NEW q, NEW p, NEW m2, NEW t, Asks(s, m, q, t, m2),
         IsList(s), m \subseteq 1..Len(s)
  PROVE  ReadIn(e, t, m2, p) <=> ReadIn(e, s, m, p) \/ (p = q /\ m2 = m /\ ~Is402(e, q))
<1>. USE DEF Asks
<1>1. Len(s) \in Nat /\ DOMAIN s = 1..Len(s)
  BY ListParts
<1>2. /\ IsList(t) /\ Len(t) = Len(s) + 1 /\ t[Len(s) + 1] = q
      /\ \A k \in 1..Len(s) : t[k] = s[k]
  BY ListGrows
<1>3. DOMAIN t = 1..Len(s) + 1
  BY <1>2, ListParts
<1>4. Len(s) + 1 \notin m
  BY <1>1
<1>5. ASSUME ReadIn(e, t, m2, p) PROVE ReadIn(e, s, m, p) \/ (p = q /\ m2 = m /\ ~Is402(e, q))
  <2>1. PICK k \in DOMAIN t \ m2 : t[k] = p
    BY <1>5 DEF ReadIn
  <2>2. ~Is402(e, p)
    BY <1>5 DEF ReadIn
  <2>3. CASE k = Len(s) + 1
    BY <2>1, <2>2, <2>3, <1>2
  <2>4. CASE k # Len(s) + 1
    <3>1. k \in 1..Len(s) /\ k \notin m
      BY <2>1, <2>4, <1>1, <1>3
    <3>2. s[k] = p /\ k \in DOMAIN s \ m
      BY <3>1, <2>1, <1>1, <1>2
    <3>. QED BY <3>2, <2>2 DEF ReadIn
  <2>. QED BY <2>3, <2>4
<1>6. ASSUME ReadIn(e, s, m, p) PROVE ReadIn(e, t, m2, p)
  <2>1. PICK k \in DOMAIN s \ m : s[k] = p
    BY <1>6 DEF ReadIn
  <2>2. ~Is402(e, p)
    BY <1>6 DEF ReadIn
  <2>3. k \in 1..Len(s) /\ k # Len(s) + 1
    BY <2>1, <1>1
  <2>4. k \in DOMAIN t \ m2 /\ t[k] = p
    BY <2>1, <2>3, <1>1, <1>2, <1>3
  <2>. QED BY <2>2, <2>4 DEF ReadIn
<1>7. ASSUME p = q, m2 = m, ~Is402(e, q) PROVE ReadIn(e, t, m2, p)
  <2>1. Len(s) + 1 \in DOMAIN t \ m2 /\ t[Len(s) + 1] = p
    BY <1>1, <1>2, <1>3, <1>4, <1>7
  <2>. QED BY <2>1, <1>7 DEF ReadIn
<1>. QED BY <1>5, <1>6, <1>7

(* The next request is that of its place in the list. *)
LEMMA NextRequest ==
  ASSUME NEW e \in Endpoints, NEW s, NEW m, NEW j, Course(e, s, m, j),
         NEW q, NEW tail, NextUp(e, s, m, q, tail)
  PROVE  LET n == Len(s)
             O == AllIn(e, s, m)
             F == Start(e, LinksIn(e, s, m))
         IN /\ n \in Nat /\ n + 1 <= Len(O) /\ q = O[n + 1]
            /\ q = RootPage <=> n + 1 = Len(Before(e))
            /\ q = Robots <=> n + 1 = Len(F) - 1
            /\ q = Sitemap <=> n + 1 = Len(F)
<1>. DEFINE n == Len(s)
            O == AllIn(e, s, m)
            F == Start(e, LinksIn(e, s, m))
            K == KnownIn(e, s, m)
<1>1. n \in Nat
  BY ListParts DEF Course
<1>2. /\ IsList(F) /\ IsList(O) /\ Len(F) \in Nat /\ Len(O) >= Len(F) /\ Len(O) \in Nat
      /\ \A k \in 1..Len(F) : O[k] = F[k]
  BY AllIs
<1>3. \A k \in 1..Len(O) : /\ O[k] = RootPage <=> k = Len(Before(e))
                           /\ O[k] = Robots <=> k = Len(F) - 1
                           /\ O[k] = Sitemap <=> k = Len(F)
  BY AllIs
<1>4. K = IF n < Len(F) THEN F ELSE O
  BY DEF KnownIn
<1>5. q = K[n + 1] /\ n + 1 <= Len(K)
  BY DEF NextUp
<1>. HIDE DEF n, O, F, K
<1>6. n + 1 <= Len(O) /\ q = O[n + 1]
  <2>1. CASE n < Len(F)
    <3>1. n + 1 \in 1..Len(F)
      BY <2>1, <1>1, <1>2
    <3>. QED BY <2>1, <3>1, <1>2, <1>4, <1>5
  <2>2. CASE ~(n < Len(F))
    BY <2>2, <1>4, <1>5
  <2>. QED BY <2>1, <2>2
<1>7. n + 1 \in 1..Len(O)
  BY <1>1, <1>2, <1>6
<1>. QED BY <1>1, <1>3, <1>6, <1>7 DEF n, O, F

(* The next request is one of the list; what it makes known stands behind it. *)
LEMMA ListGoesOnKnown ==
  ASSUME NEW e \in Endpoints, NEW s, NEW m, NEW j, Course(e, s, m, j),
         NEW q, NEW tail, NextUp(e, s, m, q, tail),
         NEW m2, NEW t, Asks(s, m, q, t, m2)
  PROVE  LET n == Len(s)
             O2 == AllIn(e, t, m2)
         IN /\ n + 1 <= Len(O2) /\ \A k \in 1..n + 1 : t[k] = O2[k]
            /\ RestOf(Continued(e, q, q = RootPage /\ e.page /\ m2 = m /\ ~Is402(e, q),
                                NamesIn(e, t, m2), tail),
                      KnownIn(e, t, m2), n + 1)
<1>. DEFINE n == Len(s)
            O == AllIn(e, s, m)
            O2 == AllIn(e, t, m2)
            b == Len(Before(e))
            L == LinksIn(e, s, m)
            L2 == LinksIn(e, t, m2)
            F == Start(e, L)
            F2 == Start(e, L2)
            T == Named(NamesIn(e, s, m))
            T2 == Named(NamesIn(e, t, m2))
            K == KnownIn(e, s, m)
            body == m2 = m /\ ~Is402(e, q)
            page == q = RootPage /\ e.page /\ body
            c == Len(Common(e))
<1>1. /\ IsList(s) /\ m \subseteq 1..n
      /\ n <= Len(O) /\ \A k \in 1..n : s[k] = O[k]
  BY DEF Course
<1>2. n \in Nat
  BY <1>1, ListParts
<1>3. /\ Len(t) = n + 1 /\ \A k \in 1..n : t[k] = s[k]
      /\ t[n + 1] = q
  BY <1>1, ListGrows DEF Asks
<1>4. /\ IsList(F) /\ IsList(O) /\ Len(F) \in Nat /\ Len(T) \in Nat /\ Len(O) = Len(F) + Len(T)
      /\ b \in 1..Len(F) - 2
      /\ \A k \in 1..Len(F) : O[k] = F[k]
      /\ \A k \in 1..Len(T) : O[Len(F) + k] = T[k]
      /\ \A k \in 1..Len(O) : /\ O[k] = RootPage <=> k = b
                              /\ O[k] = Robots <=> k = Len(F) - 1
                              /\ O[k] = Sitemap <=> k = Len(F)
  BY AllIs
<1>5. /\ IsList(F2) /\ IsList(T2) /\ Len(F2) \in Nat /\ Len(T2) \in Nat /\ Len(O2) = Len(F2) + Len(T2)
      /\ \A k \in 1..Len(F2) : O2[k] = F2[k]
      /\ \A k \in 1..Len(T2) : O2[Len(F2) + k] = T2[k]
  BY AllIs
<1>6. K = IF n < Len(F) THEN F ELSE O
  BY DEF KnownIn
<1>7. q = K[n + 1] /\ n + 1 <= Len(K) /\ RestOf(tail, K, n + 1)
  BY DEF NextUp
<1>8. n + 1 <= Len(O) /\ q = O[n + 1]
  BY NextRequest
<1>9. /\ q = RootPage <=> n + 1 = b
      /\ q = Robots <=> n + 1 = Len(F) - 1
      /\ q = Sitemap <=> n + 1 = Len(F)
  BY NextRequest
<1>10. \A p : ReadIn(e, t, m2, p) <=> ReadIn(e, s, m, p) \/ (p = q /\ body)
  <2>1. IsList(s) /\ m \subseteq 1..Len(s)
    BY <1>1
  <2>2. ASSUME NEW p PROVE ReadIn(e, t, m2, p) <=> ReadIn(e, s, m, p) \/ (p = q /\ m2 = m /\ ~Is402(e, q))
    <3>. HIDE DEF n, O, O2, b, L, L2, F, F2, T, T2, K, body, page, c
    <3>. QED BY <2>1, ReadNext
  <2>. QED BY <2>2
<1>11. n + 1 # b => L2 = L
  BY <1>9, <1>10 DEF LinksIn
<1>12. n + 1 = b => L = <<>> /\ L2 = IF page THEN Linked(e) ELSE <<>>
  <2>. SUFFICES ASSUME n + 1 = b PROVE L = <<>> /\ L2 = IF page THEN Linked(e) ELSE <<>>
    OBVIOUS
  <2>1. ~ReadIn(e, s, m, RootPage)
    <3>1. ReadIn(e, s, m, RootPage) => b <= n
      BY ReadInPlace
    <3>. QED BY <3>1, <1>2, <1>4
  <2>. QED BY <2>1, <1>9, <1>10 DEF LinksIn
<1>13. n + 1 > Len(F) => T2 = T
  <2>. SUFFICES ASSUME n + 1 > Len(F) PROVE T2 = T
    OBVIOUS
  <2>1. q # Robots /\ q # Sitemap
    BY <1>2, <1>4, <1>9
  <2>. QED BY <2>1, <1>10 DEF NamesIn
<1>14. IsList(L) /\ Plain(L) /\ IsList(L2) /\ Plain(L2)
  BY NamesAre
<1>15. /\ c \in Nat /\ Len(L) \in Nat /\ Len(F) = b + Len(L) + c + 2
       /\ \A k \in 1..b : F[k] = Before(e)[k]
       /\ \A k \in 1..c : F[b + Len(L) + k] = Common(e)[k]
       /\ F[b + Len(L) + c + 1] = Robots /\ F[b + Len(L) + c + 2] = Sitemap
  BY <1>14, StartIs
<1>16. /\ Len(L2) \in Nat /\ Len(F2) = b + Len(L2) + c + 2
       /\ \A k \in 1..b : F2[k] = Before(e)[k]
       /\ \A k \in 1..Len(L2) : F2[b + k] = L2[k]
       /\ \A k \in 1..c : F2[b + Len(L2) + k] = Common(e)[k]
       /\ F2[b + Len(L2) + c + 1] = Robots /\ F2[b + Len(L2) + c + 2] = Sitemap
  BY <1>14, StartIs
<1>17. KnownIn(e, t, m2) = IF n + 1 < Len(F2) THEN F2 ELSE O2
  BY <1>3 DEF KnownIn
<1>18. O2 = F2 \o T2 /\ O = F \o T
  BY DEF AllIn
<1>19. Continued(e, q, page, NamesIn(e, t, m2), tail) =
         IF q = Sitemap THEN T2 ELSE IF page THEN Linked(e) \o tail ELSE tail
  BY DEF Continued
<1>20. b # Len(F)
  BY <1>4
<1>. HIDE DEF n, O, O2, b, L, L2, F, F2, T, T2, K, body, page, c
<1>30. /\ n \in Nat /\ b \in Nat /\ b # 0 /\ c \in Nat /\ Len(L) \in Nat /\ Len(L2) \in Nat
       /\ Len(F) = b + Len(L) + c + 2 /\ Len(F2) = b + Len(L2) + c + 2
  <2>1. b \in 1..Len(F) - 2
    BY <1>4
  <2>2. b \in Nat /\ b # 0
    BY <2>1, <1>4
  <2>. QED BY <2>2, <1>2, <1>15, <1>16
<1>31. Len(T) \in Nat /\ Len(T2) \in Nat /\ Len(O) = Len(F) + Len(T) /\ Len(O2) = Len(F2) + Len(T2)
  BY <1>4, <1>5
<1>21. n + 1 <= Len(O2) /\ \A k \in 1..n + 1 : O2[k] = O[k]
  <2>1. CASE n + 1 = b
    <3>1. n + 1 <= Len(F2) /\ n + 1 <= Len(F)
      BY <2>1, <1>30
    <3>2. \A k \in 1..n + 1 : k \in 1..b /\ k \in 1..Len(F) /\ k \in 1..Len(F2)
      BY <3>1, <2>1, <1>30
    <3>3. n + 1 <= Len(O2)
      BY <3>1, <1>30, <1>31
    <3>4. ASSUME NEW k \in 1..n + 1 PROVE O2[k] = O[k]
      <4>1. O2[k] = F2[k] /\ O[k] = F[k]
        BY <3>2, <1>4, <1>5
      <4>2. F2[k] = Before(e)[k] /\ F[k] = Before(e)[k]
        BY <3>2, <1>15, <1>16
      <4>. QED BY <4>1, <4>2
    <3>. QED BY <3>3, <3>4
  <2>2. CASE n + 1 # b /\ n + 1 <= Len(F)
    <3>1. F2 = F
      BY <2>2, <1>11 DEF F, F2
    <3>2. \A k \in 1..n + 1 : k \in 1..Len(F)
      BY <2>2, <1>2, <1>4
    <3>3. n + 1 <= Len(O2)
      BY <3>1, <2>2, <1>30, <1>31
    <3>4. ASSUME NEW k \in 1..n + 1 PROVE O2[k] = O[k]
      BY <3>1, <3>2, <1>4, <1>5
    <3>5. \A k \in 1..n + 1 : O2[k] = O[k]
      BY <3>4
    <3>. QED BY <3>3, <3>5
  <2>3. CASE n + 1 # b /\ n + 1 > Len(F)
    <3>1. F2 = F /\ T2 = T
      BY <2>3, <1>11, <1>13 DEF F, F2
    <3>. QED BY <3>1, <1>8, <1>18
  <2>. QED BY <2>1, <2>2, <2>3, <1>30
<1>22. \A k \in 1..n + 1 : t[k] = O2[k]
  <2>. SUFFICES ASSUME NEW k \in 1..n + 1 PROVE t[k] = O2[k]
    OBVIOUS
  <2>1. CASE k = n + 1
    BY <2>1, <1>3, <1>8, <1>21
  <2>2. CASE k # n + 1
    <3>1. k \in 1..n
      BY <2>2, <1>2
    <3>. QED BY <3>1, <1>1, <1>3, <1>21
  <2>. QED BY <2>1, <2>2
<1>23. RestOf(IF q = Sitemap THEN T2 ELSE IF page THEN Linked(e) \o tail ELSE tail,
              IF n + 1 < Len(F2) THEN F2 ELSE O2, n + 1)
  <2>1. CASE n + 1 = b /\ page
    <3>1. q # Sitemap /\ Len(L) = 0 /\ L2 = Linked(e)
      BY <2>1, <1>9, <1>12, <1>20, NoneIs
    <3>2. n + 1 < Len(F2) /\ n < Len(F)
      BY <2>1, <1>30
    <3>3. K = F
      BY <3>2, <1>6
    <3>4. IsList(tail) /\ Len(tail) = Len(F) - b /\ \A k \in 1..Len(tail) : tail[k] = F[b + k]
      BY <2>1, <3>3, <1>7 DEF RestOf
    <3>5. Len(tail) = c + 2 /\ Len(F) = b + c + 2
      BY <3>1, <3>4, <1>30
    <3>. DEFINE R == L2 \o tail
    <3>6. IsList(R)
      BY <3>4, <1>14, ListsJoin
    <3>7. Len(R) = Len(L2) + Len(tail)
      BY <3>4, <1>14, ListsJoin
    <3>8. \A k \in 1..Len(L2) : R[k] = L2[k]
      BY <3>4, <1>14, ListsJoin
    <3>9. \A k \in 1..Len(tail) : R[Len(L2) + k] = tail[k]
      BY <3>4, <1>14, ListsJoin
    <3>. HIDE DEF R
    <3>10. Len(R) = Len(F2) - b
      BY <3>5, <3>7, <1>30
    <3>11. ASSUME NEW k \in 1..Len(R) PROVE R[k] = F2[b + k]
      <4>1. CASE k <= Len(L2)
        BY <4>1, <3>8, <1>16
      <4>2. CASE k > Len(L2)
        <5>. DEFINE l == k - Len(L2)
        <5>1. l \in 1..c + 2 /\ k = Len(L2) + l /\ b + k = b + Len(L2) + l
          BY <4>2, <3>5, <3>7, <1>30
        <5>. HIDE DEF l
        <5>2. R[k] = F[b + l]
          BY <5>1, <3>4, <3>5, <3>9
        <5>3. CASE l \in 1..c
          <6>1. F[b + l] = Common(e)[l]
            <7>1. b + Len(L) + l = b + l
              BY <5>3, <3>1, <1>30
            <7>. QED BY <7>1, <5>3, <1>15
          <6>2. F2[b + Len(L2) + l] = Common(e)[l]
            BY <5>3, <1>16
          <6>. QED BY <6>1, <6>2, <5>1, <5>2
        <5>4. CASE l = c + 1
          <6>1. F[b + l] = Robots
            <7>1. b + Len(L) + c + 1 = b + l
              BY <5>4, <3>1, <1>30
            <7>. QED BY <7>1, <1>15
          <6>2. b + k = b + Len(L2) + c + 1
            BY <5>1, <5>4, <1>30
          <6>. QED BY <6>1, <6>2, <5>2, <1>16
        <5>5. CASE l = c + 2
          <6>1. F[b + l] = Sitemap
            <7>1. b + Len(L) + c + 2 = b + l
              BY <5>5, <3>1, <1>30
            <7>. QED BY <7>1, <1>15
          <6>2. b + k = b + Len(L2) + c + 2
            BY <5>1, <5>5, <1>30
          <6>. QED BY <6>1, <6>2, <5>2, <1>16
        <5>. QED BY <5>1, <5>3, <5>4, <5>5, <1>15
      <4>. QED BY <4>1, <4>2, <1>16, <3>5, <3>7
    <3>12. RestOf(R, F2, n + 1)
      BY <2>1, <3>6, <3>10, <3>11 DEF RestOf
    <3>13. R = Linked(e) \o tail
      BY <3>1 DEF R
    <3>. QED BY <2>1, <3>1, <3>2, <3>12, <3>13
  <2>2. CASE n + 1 = b /\ ~page
    <3>1. q # Sitemap /\ L2 = L
      BY <2>2, <1>9, <1>12, <1>20
    <3>2. F2 = F
      BY <3>1 DEF F, F2
    <3>3. n + 1 < Len(F2) /\ n < Len(F)
      BY <2>2, <3>2, <1>2, <1>4
    <3>. QED BY <2>2, <3>1, <3>2, <3>3, <1>6, <1>7
  <2>3. CASE n + 1 = Len(F)
    <3>1. q = Sitemap /\ n + 1 # b
      BY <2>3, <1>9, <1>20
    <3>2. F2 = F
      BY <3>1, <1>11 DEF F, F2
    <3>3. Len(T2) = Len(O2) - (n + 1) /\ \A k \in 1..Len(T2) : T2[k] = O2[n + 1 + k]
      <4>1. n + 1 = Len(F2)
        BY <2>3, <3>2
      <4>2. Len(T2) = Len(O2) - (n + 1)
        BY <4>1, <1>30, <1>31
      <4>. QED BY <4>1, <4>2, <1>5
    <3>4. RestOf(T2, O2, n + 1)
      BY <3>3, <1>5 DEF RestOf
    <3>5. ~(n + 1 < Len(F2))
      BY <2>3, <3>2, <1>2
    <3>. QED BY <3>1, <3>4, <3>5
  <2>4. CASE n + 1 # b /\ n + 1 < Len(F)
    <3>1. q # Sitemap /\ q # RootPage
      BY <2>4, <1>2, <1>4, <1>9
    <3>2. F2 = F /\ K = F /\ n + 1 < Len(F2)
      BY <2>4, <1>2, <1>4, <1>6, <1>11 DEF F, F2
    <3>3. ~page
      BY <3>1 DEF page
    <3>. QED BY <3>1, <3>2, <3>3, <1>7
  <2>5. CASE n + 1 # b /\ n + 1 > Len(F)
    <3>1. q # Sitemap /\ q # RootPage
      BY <2>5, <1>2, <1>4, <1>9
    <3>2. F2 = F /\ T2 = T
      BY <2>5, <1>11, <1>13 DEF F, F2
    <3>3. O2 = O /\ K = O /\ ~(n + 1 < Len(F2))
      BY <2>5, <3>2, <1>2, <1>4, <1>6, <1>18
    <3>4. ~page
      BY <3>1 DEF page
    <3>. QED BY <3>1, <3>3, <3>4, <1>7
  <2>. QED BY <2>1, <2>2, <2>3, <2>4, <2>5, <1>2, <1>4
<1>. QED BY <1>17, <1>19, <1>21, <1>22, <1>23 DEF n, O, O2, b, F, F2, T, T2, page, body

(* The paths that an answer names. *)
NamedBy(e, m, m2, q) ==
  IF q = Robots /\ m2 = m /\ ~Is402(e, q) THEN e.robots
  ELSE IF q = Sitemap /\ m2 = m /\ ~Is402(e, q) THEN e.sitemap ELSE <<>>

LEMMA NamesNext ==
  ASSUME NEW e \in Endpoints, NEW s, NEW m, NEW j, Course(e, s, m, j),
         NEW q, NEW tail, NextUp(e, s, m, q, tail),
         NEW m2, NEW t, Asks(s, m, q, t, m2)
  PROVE  NamesIn(e, t, m2) = NamesIn(e, s, m) \o NamedBy(e, m, m2, q)
<1>1. IsList(s) /\ m \subseteq 1..Len(s)
  BY DEF Course
<1>2. \A p : ReadIn(e, t, m2, p) <=> ReadIn(e, s, m, p) \/ (p = q /\ m2 = m /\ ~Is402(e, q))
  BY <1>1, ReadNext
<1>. DEFINE F == Start(e, LinksIn(e, s, m))
            R == IF ReadIn(e, s, m, Robots) THEN e.robots ELSE <<>>
            S == IF ReadIn(e, s, m, Sitemap) THEN e.sitemap ELSE <<>>
            R2 == IF ReadIn(e, t, m2, Robots) THEN e.robots ELSE <<>>
            S2 == IF ReadIn(e, t, m2, Sitemap) THEN e.sitemap ELSE <<>>
<1>3. /\ Len(s) \in Nat
      /\ q = Robots <=> Len(s) + 1 = Len(F) - 1
      /\ q = Sitemap <=> Len(s) + 1 = Len(F)
  BY NextRequest
<1>4. /\ ReadIn(e, s, m, Robots) => Len(F) - 1 <= Len(s)
      /\ ReadIn(e, s, m, Sitemap) => Len(F) <= Len(s)
  BY ReadInPlace
<1>5. Len(F) \in Nat
  BY AllIs
<1>6. IsList(e.robots) /\ IsList(e.sitemap) /\ IsList(<<>>)
  BY EndpointLists, NoneIs
<1>7. \A u : IsList(u) => u \o <<>> = u /\ <<>> \o u = u
  BY ConcatEmptySeq DEF IsList
<1>8. NamesIn(e, s, m) = R \o S /\ NamesIn(e, t, m2) = R2 \o S2
  BY DEF NamesIn
<1>9. IsList(R) /\ IsList(S) /\ IsList(R \o S)
  <2>1. IsList(R) /\ IsList(S)
    BY <1>6
  <2>2. IsList(R \o S)
    <3>. HIDE DEF R, S
    <3>. QED BY <2>1, ListsJoin
  <2>. QED BY <2>1, <2>2
<1>. USE DEF NamedBy
<1>10. CASE q = Robots
  <2>1. ~ReadIn(e, s, m, Robots) /\ ~ReadIn(e, s, m, Sitemap)
    <3>. HIDE DEF F
    <3>. QED BY <1>3, <1>4, <1>5, <1>10
  <2>2. R = <<>> /\ S = <<>> /\ S2 = <<>> /\ R2 = IF m2 = m /\ ~Is402(e, q) THEN e.robots ELSE <<>>
    BY <2>1, <1>2, <1>10, DocumentsDiffer
  <2>. HIDE DEF R, S, R2, S2
  <2>. QED BY <2>2, <1>6, <1>7, <1>8, <1>10
<1>11. CASE q = Sitemap
  <2>1. ~ReadIn(e, s, m, Sitemap)
    <3>. HIDE DEF F
    <3>. QED BY <1>3, <1>4, <1>5, <1>11
  <2>2. S = <<>> /\ R2 = R /\ S2 = IF m2 = m /\ ~Is402(e, q) THEN e.sitemap ELSE <<>>
    BY <2>1, <1>2, <1>11, DocumentsDiffer
  <2>. HIDE DEF R, S, R2, S2
  <2>. QED BY <2>2, <1>6, <1>7, <1>8, <1>9, <1>11, DocumentsDiffer
<1>12. CASE q # Robots /\ q # Sitemap
  <2>1. R2 = R /\ S2 = S
    BY <1>2, <1>12
  <2>. HIDE DEF R, S, R2, S2
  <2>. QED BY <2>1, <1>7, <1>8, <1>9, <1>12
<1>. QED BY <1>10, <1>11, <1>12

(* What becomes of the job with the request. *)
JobGoesOn(e, m, m2, q, tail, j, j2) ==
  /\ j2.n = j.n + 1
  /\ j2.named = j.named \o NamedBy(e, m, m2, q)
  /\ j2.rest = Continued(e, q, q = RootPage /\ e.page /\ m2 = m /\ ~Is402(e, q), j2.named, tail)
  /\ j2.found = IF m2 = m /\ Gate(e, q) THEN {q} ELSE {}

(* A request with its answer, or without: the course goes on. *)
LEMMA CourseGoesOn ==
  ASSUME NEW e \in Endpoints, NEW s, NEW m, NEW j, Course(e, s, m, j),
         NEW q, NEW tail, NextUp(e, s, m, q, tail), j.found = {},
         NEW m2, NEW t, Asks(s, m, q, t, m2),
         NEW j2, JobGoesOn(e, m, m2, q, tail, j, j2)
  PROVE  Course(e, t, m2, j2) /\ RestOf(j2.rest, KnownIn(e, t, m2), Len(t))
<1>1. /\ IsList(s) /\ j.n = Len(s) /\ m \subseteq 1..Len(s) /\ j.named = NamesIn(e, s, m)
      /\ OpenIn(e, s, m) = {}
  <2>1. \A k \in OpenIn(e, s, m) : s[k] \in j.found
    BY DEF Course
  <2>. QED BY <2>1 DEF Course
<1>2. Len(s) \in Nat
  BY <1>1, ListParts
<1>3. /\ IsList(t) /\ Len(t) = Len(s) + 1 /\ t[Len(s) + 1] = q
      /\ \A k \in 1..Len(s) : t[k] = s[k]
  BY <1>1, ListGrows DEF Asks
<1>4. j2.named = NamesIn(e, t, m2)
  <2>2. NamesIn(e, t, m2) = NamesIn(e, s, m) \o NamedBy(e, m, m2, q)
    BY NamesNext
  <2>. QED BY <2>2, <1>1 DEF JobGoesOn
<1>5. Len(s) + 1 <= Len(AllIn(e, t, m2)) /\ \A k \in 1..Len(s) + 1 : t[k] = AllIn(e, t, m2)[k]
  <2>1. Len(s) + 1 <= Len(AllIn(e, t, m2))
    BY ListGoesOnKnown
  <2>2. \A k \in 1..Len(s) + 1 : t[k] = AllIn(e, t, m2)[k]
    BY ListGoesOnKnown
  <2>. QED BY <2>1, <2>2
<1>6. RestOf(Continued(e, q, q = RootPage /\ e.page /\ m2 = m /\ ~Is402(e, q), NamesIn(e, t, m2), tail),
             KnownIn(e, t, m2), Len(s) + 1)
  BY ListGoesOnKnown
<1>8. RestOf(j2.rest, KnownIn(e, t, m2), Len(t))
  BY <1>3, <1>4, <1>6 DEF JobGoesOn
<1>9. m2 \subseteq 1..Len(t) /\ (m2 = m \/ m2 = m \cup {Len(s) + 1})
  BY <1>1, <1>2, <1>3 DEF Asks
<1>10. OpenIn(e, t, m2) = IF m2 = m /\ Gate(e, q) THEN {Len(t)} ELSE {}
  <2>1. \A k \in 1..Len(s) : k \notin OpenIn(e, t, m2)
    BY <1>1, <1>2, <1>3, <1>9 DEF OpenIn
  <2>2. Len(t) \in OpenIn(e, t, m2) <=> m2 = m /\ Gate(e, q)
    <3>1. Len(t) \notin m /\ Len(t) \in 1..Len(t) /\ Len(t) = Len(s) + 1
      BY <1>1, <1>2, <1>3
    <3>2. Len(t) \in m2 <=> m2 # m
      BY <3>1, <1>9
    <3>. QED BY <3>1, <3>2, <1>3 DEF OpenIn
  <2>3. \A k \in OpenIn(e, t, m2) : k \in 1..Len(s) \/ k = Len(t)
    BY <1>2, <1>3 DEF OpenIn
  <2>. QED BY <2>1, <2>2, <2>3
<1>11. j2.found = {t[k] : k \in OpenIn(e, t, m2)}
  BY <1>3, <1>10 DEF JobGoesOn
<1>12. OpenIn(e, t, m2) \subseteq {Len(t)}
  BY <1>10
<1>13. j2.n = Len(t)
  BY <1>1, <1>3 DEF JobGoesOn
<1>14. Course(e, t, m2, j2)
  BY <1>3, <1>4, <1>5, <1>9, <1>11, <1>12, <1>13 DEF Course
<1>. QED BY <1>8, <1>14

----------------------------------------------------------------------------
(* The inductive invariant.  A job has the course of its endpoint; a report has
   what the requests found; the statements that were run stored it. *)

Callable(e) == e.valid /\ ~e.blocked

JobFields == {"item", "rest", "n", "named", "hints", "got402", "found"}

JobOK(j, s, m) ==
  LET e == Listing[j.item]
  IN /\ DOMAIN j = JobFields
     /\ IF Callable(e)
        THEN Course(e, s, m, j) /\ (j.n < MAX_REQUESTS_PER_ENDPOINT => RestOf(j.rest, KnownIn(e, s, m), Len(s)))
        ELSE j.n = 0 /\ j.found = {} /\ (~e.valid => j.rest = <<>>)

Working(w) == job[w] # Idle

JobsOK ==
  /\ \A w \in Workers : Working(w) =>
       /\ items # Unset /\ job[w].item \in items
       /\ JobOK(job[w], asked[job[w].item], missed[job[w].item])
  /\ \A v, w \in Workers : Working(v) /\ Working(w) /\ job[v].item = job[w].item => v = w

Untouched ==
  \A i \in Listed : i > index => asked[i] = <<>> /\ missed[i] = {} /\ results[i] = NoReport

ReportsOK ==
  \A i \in Listed : results[i] # NoReport =>
    /\ items # Unset /\ i \in items
    /\ results[i].update = Suggestion(Listing[i], FirstGate(i))

Original(i) == Row(Listing[i].url, Listing[i].method)
HasGate(i) == \E q \in FirstGate(i) : stored[i].url = q.url /\ MethodOf(stored[i]) = q.method
Hindered(i) == \A q \in FirstGate(i) : Wanted(i, q.url)

AllReported == items # Unset /\ \A i \in items : results[i] # NoReport

ScriptOK ==
  /\ \A i \in Listed : stored[i] = Original(i) \/ (AllReported /\ HasGate(i))
  /\ script # Unset =>
       /\ AllReported /\ script \subseteq Updates
       /\ \A s \in Updates \ script : HasGate(s.item) \/ Hindered(s.item)

DCInv ==
  /\ DCTypeOK
  /\ DOMAIN job = Workers /\ DOMAIN asked = Listed /\ DOMAIN missed = Listed
  /\ DOMAIN results = Listed /\ DOMAIN stored = Listed
  /\ JobsOK /\ Untouched /\ ReportsOK /\ ScriptOK

FirstIn(e, s, m) ==
  LET within == IF Callable(e) THEN 1 .. Min({MAX_REQUESTS_PER_ENDPOINT, Len(AllIn(e, s, m))}) ELSE {}
      open == {k \in within : Gate(e, AllIn(e, s, m)[k]) /\ k \notin m}
  IN {AllIn(e, s, m)[k] : k \in {l \in open : \A k \in open : l <= k}}

LEMMA GateOfItem ==
  ASSUME NEW i \in Listed
  PROVE  FirstGate(i) = IF i \in items THEN FirstIn(Listing[i], asked[i], missed[i]) ELSE {}
<1>. DEFINE e == Listing[i]
            s == asked[i]
            m == missed[i]
<1>1. \A q : WasRead(i, q) <=> ReadIn(e, s, m, q)
  BY DEF WasRead, ReadIn
<1>2. LinksOf(i) = LinksIn(e, s, m)
  BY <1>1 DEF LinksOf, LinksIn
<1>3. NamesOf(i) = NamesIn(e, s, m)
  BY <1>1 DEF NamesOf, NamesIn
<1>4. Offered(i) = AllIn(e, s, m)
  BY <1>2, <1>3 DEF Offered, AllIn, Start, Before
<1>. DEFINE O == AllIn(e, s, m)
            w1 == IF i \in items /\ e.valid /\ ~e.blocked
                  THEN 1 .. Min({MAX_REQUESTS_PER_ENDPOINT, Len(O)}) ELSE {}
            w2 == IF Callable(e) THEN 1 .. Min({MAX_REQUESTS_PER_ENDPOINT, Len(O)}) ELSE {}
            gate(within) == LET open == {k \in within : Gate(e, O[k]) /\ k \notin m}
                            IN {O[k] : k \in {l \in open : \A k \in open : l <= k}}
<1>5. FirstGate(i) = gate(w1)
  BY <1>4 DEF FirstGate
<1>6. FirstIn(e, s, m) = gate(w2)
  BY DEF FirstIn
<1>7. i \in items => w1 = w2
  BY DEF Callable
<1>8. i \notin items => w1 = {}
  OBVIOUS
<1>9. gate({}) = {}
  OBVIOUS
<1>. HIDE DEF gate, w1, w2
<1>. QED BY <1>5, <1>6, <1>7, <1>8, <1>9

LEMMA OneGate ==
  ASSUME NEW e \in Endpoints, NEW s, NEW m
  PROVE  /\ \A p, q \in FirstIn(e, s, m) : p = q
         /\ \A q \in FirstIn(e, s, m) : q.method \in Methods
<1>. DEFINE O == AllIn(e, s, m)
            within == IF Callable(e) THEN 1 .. Min({MAX_REQUESTS_PER_ENDPOINT, Len(O)}) ELSE {}
            open == {k \in within : Gate(e, O[k]) /\ k \notin m}
            least == {l \in open : \A k \in open : l <= k}
<1>1. FirstIn(e, s, m) = {O[k] : k \in least}
  BY DEF FirstIn
<1>2. Len(O) \in Nat /\ \A k \in 1..Len(O) : O[k].method \in Methods
  BY AllIs
<1>3. Min({MAX_REQUESTS_PER_ENDPOINT, Len(O)}) <= Len(O) /\ Min({MAX_REQUESTS_PER_ENDPOINT, Len(O)}) \in Nat
  <2>1. MAX_REQUESTS_PER_ENDPOINT \in Nat
    BY DiscoveryAssumption
  <2>2. \E x \in {MAX_REQUESTS_PER_ENDPOINT, Len(O)} : \A y \in {MAX_REQUESTS_PER_ENDPOINT, Len(O)} : x <= y
    BY <1>2, <2>1
  <2>. QED BY <2>1, <2>2, <1>2 DEF Min
<1>4. least \subseteq 1..Len(O)
  BY <1>2, <1>3
<1>5. \A k, l \in least : k <= l /\ l <= k
  OBVIOUS
<1>. HIDE DEF O, least
<1>6. \A k, l \in least : k = l
  BY <1>2, <1>4, <1>5
<1>. QED BY <1>1, <1>2, <1>4, <1>6

(* A course that is over has the gate. *)
LEMMA CourseEnds ==
  ASSUME NEW e \in Endpoints, NEW s, NEW m, NEW j, Course(e, s, m, j), Callable(e),
         j.n <= MAX_REQUESTS_PER_ENDPOINT,
         j.n = MAX_REQUESTS_PER_ENDPOINT \/ j.n = Len(AllIn(e, s, m)) \/ j.found # {}
  PROVE  FirstIn(e, s, m) = j.found
<1>. DEFINE O == AllIn(e, s, m)
            M == MAX_REQUESTS_PER_ENDPOINT
            within == 1 .. Min({M, Len(O)})
            open == {k \in within : Gate(e, O[k]) /\ k \notin m}
            least == {l \in open : \A k \in open : l <= k}
            n == Len(s)
            told == OpenIn(e, s, m)
<1>1. FirstIn(e, s, m) = {O[k] : k \in least}
  BY DEF FirstIn
<1>2. Len(O) \in Nat /\ M \in Nat
  BY AllIs, DiscoveryAssumption
<1>3. /\ IsList(s) /\ j.n = n /\ n <= Len(O) /\ \A k \in 1..n : s[k] = O[k]
      /\ j.found = {s[k] : k \in told} /\ told \subseteq {n}
  BY DEF Course
<1>4. n \in Nat
  BY <1>3, ListParts
<1>5. Min({M, Len(O)}) \in {M, Len(O)} /\ Min({M, Len(O)}) <= M /\ Min({M, Len(O)}) <= Len(O)
  <2>1. \E x \in {M, Len(O)} : \A y \in {M, Len(O)} : x <= y
    BY <1>2
  <2>. QED BY <2>1 DEF Min
<1>6. told = {k \in 1..n : Gate(e, O[k]) /\ k \notin m}
  BY <1>3 DEF OpenIn
<1>. DEFINE top == Min({M, Len(O)})
<1>7. n <= top /\ top \in Nat /\ (j.found = {} => n = top)
  <2>1. top \in {M, Len(O)} /\ top <= M /\ top <= Len(O)
    BY <1>5
  <2>2. n <= M /\ (j.found = {} => n = M \/ n = Len(O))
    BY <1>3
  <2>3. n <= Len(O) /\ n \in Nat /\ M \in Nat /\ Len(O) \in Nat
    BY <1>2, <1>3, <1>4
  <2>. HIDE DEF top, n, M, O
  <2>4. top \in Nat /\ n <= top
    BY <2>1, <2>2, <2>3
  <2>5. n = M \/ n = Len(O) => n = top
    BY <2>1, <2>3, <2>4
  <2>. QED BY <2>2, <2>4, <2>5
<1>8. open = {k \in 1..top : Gate(e, O[k]) /\ k \notin m}
  OBVIOUS
<1>. HIDE DEF top, O, n, told, open, within
<1>9. told \subseteq open /\ \A k \in open : k \in 1..top /\ (k <= n => k \in told)
  BY <1>4, <1>6, <1>7, <1>8
<1>10. CASE told = {}
  <2>1. j.found = {}
    BY <1>3, <1>10
  <2>2. open = {}
    BY <2>1, <1>7, <1>9, <1>10
  <2>. QED BY <2>1, <2>2, <1>1
<1>11. CASE told # {}
  <2>1. told = {n} /\ j.found = {O[n]} /\ n \in open /\ n \in 1..n
    BY <1>3, <1>6, <1>9, <1>11
  <2>2. \A k \in open : n <= k
    BY <2>1, <1>3, <1>4, <1>7, <1>9
  <2>3. least = {n}
    BY <2>1, <2>2, <1>4, <1>7, <1>9
  <2>. QED BY <2>1, <2>3, <1>1
<1>. QED BY <1>10, <1>11

LEMMA NothingCalled == ASSUME NEW e, NEW s, NEW m, ~Callable(e) PROVE FirstIn(e, s, m) = {}
BY DEF FirstIn

LEMMA RestIsOver ==
  ASSUME NEW e \in Endpoints, NEW s, NEW m, NEW j, Course(e, s, m, j),
         RestOf(<<>>, KnownIn(e, s, m), Len(s))
  PROVE  Len(s) = Len(AllIn(e, s, m))
<1>. DEFINE F == Start(e, LinksIn(e, s, m))
            O == AllIn(e, s, m)
<1>1. Len(F) \in Nat /\ Len(O) \in Nat
  BY AllIs
<1>2. Len(s) \in Nat
  BY ListParts DEF Course
<1>3. Len(KnownIn(e, s, m)) - Len(s) = 0
  BY NoneIs DEF RestOf
<1>4. KnownIn(e, s, m) = IF Len(s) < Len(F) THEN F ELSE O
  BY DEF KnownIn
<1>. HIDE DEF F, O
<1>. QED BY <1>1, <1>2, <1>3, <1>4 DEF O

----------------------------------------------------------------------------

LEMMA ListedAre == Listed = 1..Len(Listing) /\ Len(Listing) \in Nat /\ \A i \in Listed : Listing[i] \in Endpoints
<1>1. IsList(Listing)
  BY DiscoveryAssumption
<1>. QED BY <1>1, ListParts DEF Listed, Endpoints

LEMMA DCInitInv == DCInit => DCInv
<1>. SUFFICES ASSUME DCInit PROVE DCInv
  OBVIOUS
<1>1. DCTypeOK
  <2>1. Len(Listing) \in Nat
    BY ListedAre
  <2>. QED BY <2>1 DEF DCInit, DCTypeOK, NoReport
<1>2. JobsOK /\ Untouched /\ ReportsOK
  BY DEF DCInit, JobsOK, Working, Untouched, ReportsOK
<1>3. ScriptOK
  BY DEF DCInit, ScriptOK, Original
<1>. QED BY <1>1, <1>2, <1>3 DEF DCInit, DCInv

(* The first gate of a place depends on its own requests only. *)
LEMMA GateStays ==
  ASSUME NEW i \in Listed, asked'[i] = asked[i], missed'[i] = missed[i], items' = items
  PROVE  FirstGate(i)' = FirstGate(i)
<1>. DEFINE e == Listing[i]
            s == asked[i]
            m == missed[i]
<1>1. \A q : WasRead(i, q)' <=> WasRead(i, q)
  BY DEF WasRead
<1>2. LinksOf(i)' = LinksOf(i)
  BY <1>1 DEF LinksOf
<1>3. NamesOf(i)' = NamesOf(i)
  BY <1>1 DEF NamesOf
<1>4. Offered(i)' = Offered(i)
  BY <1>2, <1>3 DEF Offered
<1>. DEFINE gate(O, lost, its) ==
              LET within == IF i \in its /\ e.valid /\ ~e.blocked
                            THEN 1 .. Min({MAX_REQUESTS_PER_ENDPOINT, Len(O)}) ELSE {}
                  open == {k \in within : Gate(e, O[k]) /\ k \notin lost}
              IN {O[k] : k \in {l \in open : \A k \in open : l <= k}}
<1>5. FirstGate(i) = gate(Offered(i), missed[i], items)
  BY DEF FirstGate
<1>6. FirstGate(i)' = gate(Offered(i)', missed'[i], items')
  BY DEF FirstGate
<1>. HIDE DEF gate
<1>. QED BY <1>4, <1>5, <1>6

(* While a worker is at it, not everything is reported: nothing is stored yet. *)
LEMMA WorkComesFirst ==
  ASSUME DCInv, NEW w \in Workers, Working(w)
  PROVE  /\ ~AllReported /\ script = Unset /\ \A i \in Listed : stored[i] = Original(i)
         /\ items # Unset /\ items \subseteq Listed /\ job[w].item \in items /\ job[w].item \in Listed
         /\ job[w].item \in 1..index /\ results[job[w].item] = NoReport
         /\ job[w].n \in 0..MAX_REQUESTS_PER_ENDPOINT
         /\ JobOK(job[w], asked[job[w].item], missed[job[w].item])
<1>1. items # Unset /\ job[w].item \in items /\ JobOK(job[w], asked[job[w].item], missed[job[w].item])
  BY DEF DCInv, JobsOK
<1>2. /\ job[w].item \in 1..index /\ results[job[w].item] = NoReport /\ items \subseteq Listed
      /\ job[w].n \in 0..MAX_REQUESTS_PER_ENDPOINT
  BY <1>1 DEF DCInv, DCTypeOK, Working
<1>3. ~AllReported
  BY <1>1, <1>2 DEF AllReported
<1>. QED BY <1>1, <1>2, <1>3 DEF DCInv, ScriptOK

LEMMA JobMoves ==
  ASSUME DCInv, NEW w \in Workers, Working(w), NEW j2, job' = [job EXCEPT ![w] = j2],
         j2.item = job[w].item, j2.n \in 0..MAX_REQUESTS_PER_ENDPOINT,
         UNCHANGED <<items, index, results, script, stored>>,
         DOMAIN asked' = Listed, DOMAIN missed' = Listed,
         \A i \in Listed : i # job[w].item => asked'[i] = asked[i] /\ missed'[i] = missed[i],
         JobOK(j2, asked'[j2.item], missed'[j2.item])
  PROVE  DCInv'
<1>1. /\ ~AllReported /\ script = Unset /\ \A i \in Listed : stored[i] = Original(i)
      /\ items # Unset /\ items \subseteq Listed /\ job[w].item \in items /\ job[w].item \in Listed
      /\ job[w].item \in 1..index /\ results[job[w].item] = NoReport
  BY WorkComesFirst
<1>2. DOMAIN job = Workers /\ job'[w] = j2 /\ \A v \in Workers : v # w => job'[v] = job[v]
  BY DEF DCInv
<1>3. DCTypeOK'
  <2>1. DCTypeOK
    BY DEF DCInv
  <2>2. \A v \in Workers : job'[v] # Idle =>
          /\ job'[v].item \in 1..index' /\ results'[job'[v].item] = NoReport
          /\ job'[v].n \in 0..MAX_REQUESTS_PER_ENDPOINT
    BY <1>1, <1>2, <2>1 DEF DCTypeOK
  <2>. QED BY <2>1, <2>2 DEF DCTypeOK
<1>4. JobsOK'
  <2>1. ASSUME NEW v \in Workers, job'[v] # Idle
        PROVE  /\ items' # Unset /\ job'[v].item \in items'
               /\ JobOK(job'[v], asked'[job'[v].item], missed'[job'[v].item])
    <3>1. CASE v = w
      BY <3>1, <1>1, <1>2
    <3>2. CASE v # w
      <4>1. /\ job'[v] = job[v] /\ Working(v) /\ job[v].item \in items
            /\ JobOK(job[v], asked[job[v].item], missed[job[v].item])
        BY <3>2, <2>1, <1>2 DEF DCInv, JobsOK, Working
      <4>2. job[v].item # job[w].item
        BY <3>2, <4>1 DEF DCInv, JobsOK
      <4>. QED BY <4>1, <4>2, <1>1
    <3>. QED BY <3>1, <3>2
  <2>2. ASSUME NEW v \in Workers, NEW u \in Workers, job'[v] # Idle, job'[u] # Idle, job'[v].item = job'[u].item
        PROVE  v = u
    <3>1. \A x \in Workers : job'[x] # Idle => Working(x) /\ job'[x].item = job[x].item
      BY <1>2 DEF Working
    <3>2. Working(v) /\ Working(u) /\ job[v].item = job[u].item
      BY <3>1, <2>2
    <3>. QED BY <3>2 DEF DCInv, JobsOK
  <2>. QED BY <2>1, <2>2 DEF JobsOK, Working
<1>5. Untouched'
  <2>1. \A i \in Listed : i > index => i # job[w].item
    BY <1>1, ListedAre DEF DCInv, DCTypeOK
  <2>. QED BY <2>1 DEF DCInv, Untouched
<1>6. ReportsOK'
  <2>. SUFFICES ASSUME NEW i \in Listed, results'[i] # NoReport
                PROVE  /\ items' # Unset /\ i \in items'
                       /\ results'[i].update = Suggestion(Listing[i], FirstGate(i)')
    BY DEF ReportsOK
  <2>1. items # Unset /\ i \in items /\ results[i].update = Suggestion(Listing[i], FirstGate(i))
    BY DEF DCInv, ReportsOK
  <2>2. i # job[w].item
    BY <1>1
  <2>3. FirstGate(i)' = FirstGate(i)
    BY <2>2, GateStays
  <2>. QED BY <2>1, <2>3
<1>7. ScriptOK'
  BY <1>1 DEF ScriptOK, Original
<1>. QED BY <1>2, <1>3, <1>4, <1>5, <1>6, <1>7 DEF DCInv

LEMMA FetchKeeps == ASSUME DCInv, Fetch PROVE DCInv'
<1>1. items = Unset /\ items' \subseteq Listed
  BY DEF Fetch
<1>2. \A w \in Workers : ~Working(w)
  BY <1>1 DEF DCInv, JobsOK
<1>3. \A i \in Listed : results[i] = NoReport
  BY <1>1 DEF DCInv, ReportsOK
<1>4. ~AllReported /\ script = Unset
  BY <1>1 DEF AllReported, DCInv, ScriptOK
<1>5. \A i \in Listed : stored[i] = Original(i)
  BY <1>4 DEF DCInv, ScriptOK
<1>. USE DEF Fetch
<1>6. DCTypeOK' /\ JobsOK' /\ Untouched' /\ ReportsOK'
  BY <1>1, <1>2, <1>3 DEF DCInv, DCTypeOK, JobsOK, Working, Untouched, ReportsOK
<1>7. ScriptOK'
  BY <1>4, <1>5 DEF ScriptOK, Original
<1>. QED BY <1>6, <1>7 DEF DCInv

(* A new job is at the beginning of the list. *)
LEMMA CourseBegins ==
  ASSUME NEW e \in Endpoints, NEW j, j.n = 0, j.named = <<>>, j.found = {}, j.rest = Pipeline(e)
  PROVE  Course(e, <<>>, {}, j) /\ RestOf(j.rest, KnownIn(e, <<>>, {}), 0)
<1>1. \A q : ~ReadIn(e, <<>>, {}, q)
  BY DEF ReadIn
<1>2. LinksIn(e, <<>>, {}) = <<>>
  BY <1>1 DEF LinksIn
<1>3. IsList(<<>>) /\ Len(<<>>) = 0
  BY NoneIs
<1>4. NamesIn(e, <<>>, {}) = <<>>
  <2>1. NamesIn(e, <<>>, {}) = <<>> \o <<>>
    BY <1>1 DEF NamesIn
  <2>2. <<>> \o <<>> = <<>>
    BY <1>3, ConcatEmptySeq DEF IsList
  <2>. QED BY <2>1, <2>2
<1>5. Len(AllIn(e, <<>>, {})) \in Nat
  BY AllIs
<1>6. OpenIn(e, <<>>, {}) = {}
  BY <1>3 DEF OpenIn
<1>7. Course(e, <<>>, {}, j)
  BY <1>3, <1>4, <1>5, <1>6 DEF Course
<1>8. j.rest = Start(e, <<>>)
  <2>1. Before(e) \o <<>> = Before(e)
    BY BeforeIs, ConcatEmptySeq DEF IsList
  <2>. QED BY <2>1 DEF Pipeline, Start, Before
<1>9. IsList(Start(e, <<>>)) /\ Len(Start(e, <<>>)) \in Nat /\ Len(Start(e, <<>>)) > 0
  <2>1. /\ IsList(Start(e, <<>>)) /\ Len(Before(e)) \in Nat \ {0} /\ Len(Common(e)) \in Nat
        /\ Len(Start(e, <<>>)) = Len(Before(e)) + Len(<<>>) + Len(Common(e)) + 2
    BY NoneIs, StartIs
  <2>. QED BY <2>1, <1>3
<1>10. KnownIn(e, <<>>, {}) = Start(e, <<>>)
  BY <1>2, <1>3, <1>9 DEF KnownIn
<1>11. RestOf(Start(e, <<>>), Start(e, <<>>), 0)
  BY <1>9 DEF RestOf
<1>. QED BY <1>7, <1>8, <1>10, <1>11

LEMMA TakeKeeps == ASSUME DCInv, NEW w \in Workers, TakeEndpoint(w) PROVE DCInv'
<1>. DEFINE new(i) == [item |-> i, rest |-> IF Listing[i].valid THEN Pipeline(Listing[i]) ELSE <<>>,
                       n |-> 0, named |-> <<>>, hints |-> FALSE, got402 |-> FALSE, found |-> {}]
<1>1. PICK i \in items :
        /\ i > index /\ index' = i /\ job' = [job EXCEPT ![w] = new(i)]
  BY DEF TakeEndpoint
<1>2. /\ items # Unset /\ job[w] = Idle
      /\ UNCHANGED <<items, results, script, stored, asked, missed>>
  BY DEF TakeEndpoint
<1>3. i \in Listed /\ items \subseteq Listed /\ index \in Nat /\ i \in 1..Len(Listing) /\ Len(Listing) \in Nat
  BY <1>2, ListedAre DEF DCInv, DCTypeOK
<1>4. asked[i] = <<>> /\ missed[i] = {} /\ results[i] = NoReport
  BY <1>1, <1>3 DEF DCInv, Untouched
<1>5. ~AllReported /\ script = Unset /\ \A k \in Listed : stored[k] = Original(k)
  BY <1>1, <1>4 DEF AllReported, DCInv, ScriptOK
<1>6. DOMAIN job = Workers /\ job'[w] = new(i) /\ \A v \in Workers : v # w => job'[v] = job[v]
  BY <1>1 DEF DCInv
<1>7. JobOK(new(i), <<>>, {})
  <2>. DEFINE e == Listing[i]
              j == new(i)
  <2>1. e \in Endpoints
    BY <1>3, ListedAre
  <2>2. /\ DOMAIN j = JobFields
        /\ j.item = i /\ j.n = 0 /\ j.named = <<>> /\ j.found = {}
        /\ j.rest = IF e.valid THEN Pipeline(e) ELSE <<>>
    BY DEF JobFields
  <2>3. Len(<<>>) = 0
    BY NoneIs
  <2>. HIDE DEF e, j
  <2>4. CASE Callable(e)
    <3>1. j.rest = Pipeline(e)
      BY <2>2, <2>4 DEF Callable
    <3>2. Course(e, <<>>, {}, j) /\ RestOf(j.rest, KnownIn(e, <<>>, {}), 0)
      BY <2>1, <2>2, <3>1, CourseBegins
    <3>. QED BY <2>2, <2>3, <2>4, <3>2 DEF JobOK, e, j
  <2>5. CASE ~Callable(e)
    BY <2>2, <2>5 DEF JobOK, e, j
  <2>. QED BY <2>4, <2>5
<1>8. \A v \in Workers : Working(v) => job[v].item <= index /\ job[v].item \in Nat
  BY <1>3 DEF DCInv, DCTypeOK, Working
<1>9. new(i).item = i /\ new(i).n = 0
  OBVIOUS
<1>. HIDE DEF new
<1>10. DCTypeOK'
  <2>1. DCTypeOK
    BY DEF DCInv
  <2>2. MAX_REQUESTS_PER_ENDPOINT \in Nat
    BY DiscoveryAssumption
  <2>3. \A v \in Workers : job'[v] # Idle =>
          /\ job'[v].item \in 1..index' /\ results'[job'[v].item] = NoReport
          /\ job'[v].n \in 0..MAX_REQUESTS_PER_ENDPOINT
    <3>1. ASSUME NEW v \in Workers, v # w, job'[v] # Idle
          PROVE  /\ job'[v].item \in 1..index' /\ results'[job'[v].item] = NoReport
                 /\ job'[v].n \in 0..MAX_REQUESTS_PER_ENDPOINT
      <4>1. job'[v] = job[v]
        BY <3>1, <1>6
      <4>2. /\ job[v].item \in 1..index /\ results[job[v].item] = NoReport
            /\ job[v].n \in 0..MAX_REQUESTS_PER_ENDPOINT
        BY <3>1, <4>1, <2>1 DEF DCTypeOK
      <4>. QED BY <4>1, <4>2, <1>1, <1>2, <1>3
    <3>2. job'[w].item \in 1..index' /\ results'[job'[w].item] = NoReport /\ job'[w].n \in 0..MAX_REQUESTS_PER_ENDPOINT
      BY <1>1, <1>2, <1>3, <1>4, <1>6, <1>9, <2>2
    <3>. QED BY <3>1, <3>2
  <2>. QED BY <2>1, <2>3, <1>1, <1>2, <1>3 DEF DCTypeOK
<1>11. JobsOK'
  <2>1. ASSUME NEW v \in Workers, job'[v] # Idle
        PROVE  /\ items' # Unset /\ job'[v].item \in items'
               /\ JobOK(job'[v], asked'[job'[v].item], missed'[job'[v].item])
    <3>1. CASE v = w
      BY <3>1, <1>1, <1>2, <1>4, <1>6, <1>7, <1>9
    <3>2. CASE v # w
      BY <3>2, <2>1, <1>2, <1>6 DEF DCInv, JobsOK, Working
    <3>. QED BY <3>1, <3>2
  <2>2. ASSUME NEW v \in Workers, NEW u \in Workers, job'[v] # Idle, job'[u] # Idle, job'[v].item = job'[u].item
        PROVE  v = u
    <3>1. \A x \in Workers : x # w /\ job'[x] # Idle => job'[x].item <= index /\ job'[x].item \in Nat /\ job'[x] = job[x] /\ Working(x)
      BY <1>6, <1>8 DEF Working
    <3>2. job'[w].item = i
      BY <1>6, <1>9
    <3>3. CASE v # w /\ u # w
      BY <3>1, <3>3, <2>2 DEF DCInv, JobsOK
    <3>4. CASE ~(v # w /\ u # w)
      BY <3>1, <3>2, <3>4, <2>2, <1>1, <1>3
    <3>. QED BY <3>3, <3>4
  <2>. QED BY <2>1, <2>2 DEF JobsOK, Working
<1>12. Untouched'
  BY <1>1, <1>2, <1>3, ListedAre DEF DCInv, Untouched
<1>13. ReportsOK'
  <2>. SUFFICES ASSUME NEW k \in Listed, results'[k] # NoReport
                PROVE  /\ items' # Unset /\ k \in items'
                       /\ results'[k].update = Suggestion(Listing[k], FirstGate(k)')
    BY DEF ReportsOK
  <2>1. items # Unset /\ k \in items /\ results[k].update = Suggestion(Listing[k], FirstGate(k))
    BY <1>2 DEF DCInv, ReportsOK
  <2>2. FirstGate(k)' = FirstGate(k)
    BY <1>2, GateStays
  <2>. QED BY <2>1, <2>2, <1>2
<1>14. ScriptOK'
  BY <1>2, <1>5 DEF ScriptOK, Original
<1>. QED BY <1>1, <1>2, <1>10, <1>11, <1>12, <1>13, <1>14 DEF DCInv

LEMMA SkipKeeps == ASSUME DCInv, NEW w \in Workers, SkipProbe(w) PROVE DCInv'
<1>. DEFINE j == job[w]
            e == Listing[j.item]
            rest2 == Continued(e, Head(j.rest), FALSE, j.named, Tail(j.rest))
            j2 == [j EXCEPT !.rest = rest2]
<1>1. Working(w) /\ j.rest # <<>> /\ ~MayAsk(w)
  BY DEF SkipProbe, Busy, Working
<1>2. /\ j.item \in Listed /\ j.n \in 0..MAX_REQUESTS_PER_ENDPOINT
      /\ JobOK(j, asked[j.item], missed[j.item])
  BY <1>1, WorkComesFirst
<1>3. DOMAIN job = Workers /\ DOMAIN asked = Listed /\ DOMAIN missed = Listed
  BY DEF DCInv
<1>4. job' = [job EXCEPT ![w] = j2]
  BY <1>3 DEF SkipProbe
<1>5. UNCHANGED <<items, index, results, script, stored, asked, missed>>
  BY DEF SkipProbe
<1>6. DOMAIN j = JobFields
  BY <1>2 DEF JobOK
<1>7. /\ DOMAIN j2 = JobFields
      /\ j2.item = j.item /\ j2.n = j.n /\ j2.named = j.named /\ j2.found = j.found
  <2>. HIDE DEF rest2, j
  <2>. QED BY <1>6 DEF JobFields
<1>. HIDE DEF rest2, j2
<1>8. JobOK(j2, asked[j.item], missed[j.item])
  <2>1. MAX_REQUESTS_PER_ENDPOINT \in Nat
    BY DiscoveryAssumption
  <2>2. CASE Callable(e)
    <3>1. ~(j.n < MAX_REQUESTS_PER_ENDPOINT)
      BY <1>1, <2>2 DEF MayAsk, Callable
    <3>2. Course(e, asked[j.item], missed[j.item], j)
      BY <1>2, <2>2 DEF JobOK
    <3>3. Course(e, asked[j.item], missed[j.item], j2)
      <4>. HIDE DEF j
      <4>. QED BY <3>2, <1>7 DEF Course
    <3>4. Callable(Listing[j2.item]) /\ Listing[j2.item] = e
      BY <1>7, <2>2
    <3>. HIDE DEF j, e
    <3>. QED BY <3>1, <3>3, <3>4, <1>7 DEF JobOK
  <2>3. CASE ~Callable(e)
    <3>1. j.n = 0 /\ j.found = {} /\ e.valid
      BY <1>1, <1>2, <2>3 DEF JobOK
    <3>2. Listing[j2.item] = e
      BY <1>7
    <3>. HIDE DEF j, e
    <3>. QED BY <3>1, <3>2, <1>7, <2>3 DEF JobOK
  <2>. QED BY <2>2, <2>3
<1>9. j2.item = job[w].item /\ j2.n \in 0..MAX_REQUESTS_PER_ENDPOINT
  BY <1>2, <1>7
<1>10. JobOK(j2, asked'[j2.item], missed'[j2.item])
  BY <1>5, <1>8, <1>9
<1>11. \A i \in Listed : i # job[w].item => asked'[i] = asked[i] /\ missed'[i] = missed[i]
  BY <1>5
<1>12. DOMAIN asked' = Listed /\ DOMAIN missed' = Listed
  BY <1>3, <1>5
<1>. QED BY <1>1, <1>4, <1>5, <1>9, <1>10, <1>11, <1>12, JobMoves

(* What a worker about to ask knows. *)
LEMMA AskingIs ==
  ASSUME DCInv, NEW w \in Workers, Busy(w), MayAsk(w)
  PROVE  LET j == job[w]
             e == Listing[j.item]
             s == asked[j.item]
             m == missed[j.item]
         IN /\ Working(w) /\ j.item \in Listed /\ e \in Endpoints /\ Callable(e) /\ j.found = {}
            /\ DOMAIN j = JobFields
            /\ j.n \in Nat /\ j.n < MAX_REQUESTS_PER_ENDPOINT /\ j.n = Len(s)
            /\ Course(e, s, m, j) /\ NextUp(e, s, m, Head(j.rest), Tail(j.rest))
<1>. DEFINE j == job[w]
            e == Listing[j.item]
            s == asked[j.item]
            m == missed[j.item]
<1>1. Working(w) /\ j.rest # <<>> /\ j.found = {} /\ j.n < MAX_REQUESTS_PER_ENDPOINT /\ ~e.blocked
  BY DEF Busy, MayAsk, Working
<1>2. j.item \in Listed /\ JobOK(j, s, m) /\ j.n \in Nat
  BY <1>1, WorkComesFirst
<1>3. e \in Endpoints
  BY <1>2, ListedAre
<1>4. Callable(e)
  BY <1>1, <1>2 DEF JobOK, Callable
<1>5. Course(e, s, m, j) /\ RestOf(j.rest, KnownIn(e, s, m), Len(s))
  BY <1>1, <1>2, <1>4 DEF JobOK
<1>6. IsList(KnownIn(e, s, m)) /\ Len(s) \in Nat /\ j.n = Len(s)
  <2>1. IsList(KnownIn(e, s, m))
    BY <1>3, AllIs DEF KnownIn
  <2>. QED BY <2>1, <1>5, ListParts DEF Course
<1>. HIDE DEF e, s, m
<1>7. /\ Head(j.rest) = KnownIn(e, s, m)[Len(s) + 1] /\ Len(s) + 1 <= Len(KnownIn(e, s, m))
      /\ RestOf(Tail(j.rest), KnownIn(e, s, m), Len(s) + 1)
  BY <1>1, <1>5, <1>6, RestMovesOn
<1>8. NextUp(e, s, m, Head(j.rest), Tail(j.rest))
  BY <1>7 DEF NextUp
<1>9. DOMAIN j = JobFields
  BY <1>2 DEF JobOK
<1>. QED BY <1>1, <1>2, <1>3, <1>4, <1>5, <1>6, <1>8, <1>9 DEF e, s, m

(* A request, with an answer or without: j2 is what the job becomes. *)
LEMMA AskKeeps ==
  ASSUME DCInv, NEW w \in Workers, Busy(w), MayAsk(w), NEW j2, NEW q, NEW tail, NEW m2,
         q = Head(job[w].rest), tail = Tail(job[w].rest),
         m2 \in {missed[job[w].item], missed[job[w].item] \cup {Len(asked[job[w].item]) + 1}},
         job' = [job EXCEPT ![w] = j2], j2.item = job[w].item,
         DOMAIN j2 = JobFields,
         JobGoesOn(Listing[job[w].item], missed[job[w].item], m2, q, tail, job[w], j2),
         asked' = [asked EXCEPT ![job[w].item] = Append(@, q)],
         DOMAIN missed' = Listed, missed'[job[w].item] = m2,
         \A i \in Listed : i # job[w].item => missed'[i] = missed[i],
         UNCHANGED <<items, index, results, script, stored>>
  PROVE  DCInv'
<1>. DEFINE j == job[w]
            e == Listing[j.item]
            s == asked[j.item]
            m == missed[j.item]
            t == Append(s, q)
<1>1. /\ Working(w) /\ j.item \in Listed /\ e \in Endpoints /\ Callable(e) /\ j.found = {}
      /\ j.n \in Nat /\ j.n < MAX_REQUESTS_PER_ENDPOINT /\ j.n = Len(s)
      /\ Course(e, s, m, j) /\ NextUp(e, s, m, q, tail)
  BY AskingIs
<1>2. Asks(s, m, q, t, m2)
  BY DEF Asks
<1>3. j2.n = j.n + 1
  BY DEF JobGoesOn
<1>4. DOMAIN asked = Listed /\ DOMAIN missed = Listed
  BY DEF DCInv
<1>5. asked'[j.item] = t /\ missed'[j.item] = m2 /\ DOMAIN asked' = Listed /\ DOMAIN missed' = Listed
  BY <1>1, <1>4
<1>6. \A i \in Listed : i # j.item => asked'[i] = asked[i] /\ missed'[i] = missed[i]
  BY <1>4
<1>7. Len(t) = j.n + 1
  <2>1. IsList(s)
    BY <1>1 DEF Course
  <2>2. Len(t) = Len(s) + 1
    <3>. HIDE DEF s
    <3>. QED BY <2>1, ListGrows
  <2>. HIDE DEF s, t
  <2>. QED BY <1>1, <2>2
<1>8. JobGoesOn(e, m, m2, q, tail, j, j2)
  OBVIOUS
<1>9. Course(e, t, m2, j2) /\ RestOf(j2.rest, KnownIn(e, t, m2), Len(t))
  <2>. HIDE DEF j, e, s, m, t
  <2>. QED BY <1>1, <1>2, <1>8, CourseGoesOn
<1>10. Callable(Listing[j2.item]) /\ Listing[j2.item] = e
  BY <1>1
<1>11. JobOK(j2, t, m2)
  <2>. HIDE DEF j, e, s, m, t
  <2>. QED BY <1>9, <1>10 DEF JobOK
<1>12. JobOK(j2, asked'[j2.item], missed'[j2.item])
  BY <1>5, <1>11
<1>13. j2.n \in 0..MAX_REQUESTS_PER_ENDPOINT
  BY <1>1, <1>3, DiscoveryAssumption
<1>. QED BY <1>1, <1>5, <1>6, <1>12, <1>13, JobMoves

LEMMA TimesOutKeeps == ASSUME DCInv, NEW w \in Workers, TimesOut(w) PROVE DCInv'
<1>. DEFINE j == job[w]
            e == Listing[j.item]
            s == asked[j.item]
            m == missed[j.item]
            q == Head(j.rest)
            tail == Tail(j.rest)
            m2 == m \cup {Len(s) + 1}
            rest2 == Continued(e, q, FALSE, j.named, tail)
            j2 == [j EXCEPT !.n = @ + 1, !.rest = rest2]
<1>1. Busy(w) /\ MayAsk(w)
  BY DEF TimesOut
<1>2. /\ Working(w) /\ j.item \in Listed /\ e \in Endpoints /\ Callable(e) /\ j.found = {}
      /\ DOMAIN j = JobFields
      /\ j.n \in Nat /\ j.n = Len(s) /\ Course(e, s, m, j)
  BY <1>1, AskingIs
<1>3. DOMAIN job = Workers /\ DOMAIN asked = Listed /\ DOMAIN missed = Listed
  BY DEF DCInv
<1>4. /\ job' = [job EXCEPT ![w] = j2]
      /\ asked' = [asked EXCEPT ![j.item] = Append(@, q)]
      /\ missed' = [missed EXCEPT ![j.item] = m2]
  BY <1>2, <1>3 DEF TimesOut
<1>5. UNCHANGED <<items, index, results, script, stored>>
  BY DEF TimesOut
<1>6. m2 # m
  <2>1. IsList(s) /\ m \subseteq 1..Len(s)
    BY <1>2 DEF Course
  <2>. HIDE DEF s, m
  <2>2. Len(s) \in Nat
    BY <2>1, ListParts
  <2>. QED BY <2>1, <2>2 DEF m2
<1>7. j.named \o <<>> = j.named
  <2>1. j.named = NamesIn(e, s, m) /\ IsList(NamesIn(e, s, m))
    BY <1>2, NamesAre DEF Course
  <2>. QED BY <2>1, ConcatEmptySeq DEF IsList
<1>8. /\ j2.item = j.item /\ j2.n = j.n + 1 /\ j2.named = j.named /\ j2.found = {} /\ j2.rest = rest2
      /\ DOMAIN j2 = JobFields
  <2>. HIDE DEF rest2, j
  <2>. QED BY <1>2 DEF JobFields
<1>. HIDE DEF j2
<1>9. NamedBy(e, m, m2, q) = <<>>
  BY <1>6 DEF NamedBy
<1>10. ~(q = RootPage /\ e.page /\ m2 = m /\ ~Is402(e, q)) /\ ~(m2 = m /\ Gate(e, q))
  BY <1>6
<1>11. JobGoesOn(e, m, m2, q, tail, j, j2)
  <2>. HIDE DEF j, e, m, m2, q, tail
  <2>1. j2.rest = Continued(e, q, q = RootPage /\ e.page /\ m2 = m /\ ~Is402(e, q), j2.named, tail)
    BY <1>8, <1>10
  <2>2. j2.found = IF m2 = m /\ Gate(e, q) THEN {q} ELSE {}
    BY <1>8, <1>10
  <2>. QED BY <1>7, <1>8, <1>9, <2>1, <2>2 DEF JobGoesOn
<1>12. /\ DOMAIN missed' = Listed /\ missed'[j.item] = m2
       /\ \A i \in Listed : i # j.item => missed'[i] = missed[i]
  BY <1>2, <1>3, <1>4
<1>13. m2 \in {m, m \cup {Len(s) + 1}}
  OBVIOUS
<1>. HIDE DEF e, s, m, q, tail, m2
<1>. QED BY <1>1, <1>4, <1>5, <1>8, <1>11, <1>12, <1>13, AskKeeps DEF e, s, m, q, tail

LEMMA AnsweredKeeps == ASSUME DCInv, NEW w \in Workers, Answered(w) PROVE DCInv'
<1>. DEFINE j == job[w]
            e == Listing[j.item]
            m == missed[j.item]
            q == Head(j.rest)
            tail == Tail(j.rest)
            body == ~Is402(e, q)
            page == q = RootPage /\ body /\ e.page
            named == j.named \o (IF q = Robots /\ body THEN e.robots ELSE IF q = Sitemap /\ body THEN e.sitemap ELSE <<>>)
            rest2 == Continued(e, q, page, named, tail)
            hints2 == j.hints \/ (page /\ e.hints) \/ named # <<>>
            got2 == j.got402 \/ (q # RootPage /\ Is402(e, q))
            found2 == IF Gate(e, q) THEN {q} ELSE {}
            j2 == [j EXCEPT !.n = @ + 1, !.named = named, !.rest = rest2,
                            !.hints = hints2, !.got402 = got2, !.found = found2]
<1>1. Busy(w) /\ MayAsk(w)
  BY DEF Answered
<1>2. /\ j.item \in Listed
      /\ DOMAIN j = JobFields
  BY <1>1, AskingIs
<1>3. DOMAIN job = Workers /\ DOMAIN asked = Listed /\ DOMAIN missed = Listed
  BY DEF DCInv
<1>4. /\ job' = [job EXCEPT ![w] = j2]
      /\ asked' = [asked EXCEPT ![j.item] = Append(@, q)]
      /\ missed' = missed
  <2>1. job' = [job EXCEPT ![w] =
                  [j EXCEPT !.n = @ + 1, !.named = named,
                            !.rest = Continued(e, q, page, named, Tail(@)),
                            !.hints = @ \/ (page /\ e.hints) \/ named # <<>>,
                            !.got402 = @ \/ (q # RootPage /\ Is402(e, q)),
                            !.found = IF Gate(e, q) THEN {q} ELSE {}]]
    BY DEF Answered
  <2>2. [j EXCEPT !.n = @ + 1, !.named = named,
                  !.rest = Continued(e, q, page, named, Tail(@)),
                  !.hints = @ \/ (page /\ e.hints) \/ named # <<>>,
                  !.got402 = @ \/ (q # RootPage /\ Is402(e, q)),
                  !.found = IF Gate(e, q) THEN {q} ELSE {}] = j2
    <3>. HIDE DEF j, e, page, named
    <3>. QED BY <1>2
  <2>3. asked' = [asked EXCEPT ![j.item] = Append(@, q)] /\ missed' = missed
    BY DEF Answered
  <2>. QED BY <2>1, <2>2, <2>3
<1>5. UNCHANGED <<items, index, results, script, stored>>
  BY DEF Answered
<1>6. DOMAIN missed' = Listed /\ missed'[j.item] = m /\ \A i \in Listed : missed'[i] = missed[i]
  BY <1>3, <1>4
<1>7. /\ j2.item = j.item /\ j2.n = j.n + 1 /\ j2.named = named /\ j2.rest = rest2 /\ j2.found = found2
      /\ DOMAIN j2 = JobFields
  <2>. HIDE DEF rest2, j, named, found2, hints2, got2
  <2>. QED BY <1>2 DEF JobFields
<1>8. named = j.named \o NamedBy(e, m, m, q)
  BY DEF NamedBy
<1>. HIDE DEF j2
<1>9. JobGoesOn(e, m, m, q, tail, j, j2)
  <2>. HIDE DEF j, e, m, q, tail
  <2>1. j2.rest = Continued(e, q, q = RootPage /\ e.page /\ m = m /\ ~Is402(e, q), j2.named, tail)
    <3>1. page <=> q = RootPage /\ e.page /\ m = m /\ ~Is402(e, q)
      OBVIOUS
    <3>2. rest2 = Continued(e, q, page, named, tail)
      OBVIOUS
    <3>. HIDE DEF named, rest2
    <3>. QED BY <3>1, <3>2, <1>7 DEF Continued
  <2>2. j2.found = IF m = m /\ Gate(e, q) THEN {q} ELSE {}
    BY <1>7
  <2>. HIDE DEF named
  <2>. QED BY <1>7, <1>8, <2>1, <2>2 DEF JobGoesOn
<1>. HIDE DEF e, m, q, tail
<1>. QED BY <1>1, <1>4, <1>5, <1>6, <1>7, <1>9, AskKeeps DEF e, m, q, tail

LEMMA FinishKeeps == ASSUME DCInv, NEW w \in Workers, Finish(w) PROVE DCInv'
<1>. DEFINE j == job[w]
            e == Listing[j.item]
            s == asked[j.item]
            m == missed[j.item]
<1>1. Working(w) /\ (j.rest = <<>> \/ j.found # {})
  BY DEF Finish, Busy, Working
<1>2. /\ results' = [results EXCEPT ![j.item] = Report(e, j)]
      /\ job' = [job EXCEPT ![w] = Idle]
      /\ UNCHANGED <<items, index, script, stored, asked, missed>>
  BY DEF Finish
<1>3. /\ ~AllReported /\ script = Unset /\ \A i \in Listed : stored[i] = Original(i)
      /\ items # Unset /\ items \subseteq Listed /\ j.item \in items /\ j.item \in Listed
      /\ j.item \in 1..index /\ j.n \in 0..MAX_REQUESTS_PER_ENDPOINT
      /\ JobOK(j, s, m)
  BY <1>1, WorkComesFirst
<1>4. e \in Endpoints
  BY <1>3, ListedAre
<1>5. FirstIn(e, s, m) = j.found
  <2>1. CASE Callable(e)
    <3>1. Course(e, s, m, j) /\ (j.n < MAX_REQUESTS_PER_ENDPOINT => RestOf(j.rest, KnownIn(e, s, m), Len(s)))
      BY <1>3, <2>1 DEF JobOK
    <3>2. j.n = MAX_REQUESTS_PER_ENDPOINT \/ j.n = Len(AllIn(e, s, m)) \/ j.found # {}
      <4>1. CASE j.rest = <<>> /\ j.n < MAX_REQUESTS_PER_ENDPOINT
        <5>1. RestOf(<<>>, KnownIn(e, s, m), Len(s))
          BY <3>1, <4>1
        <5>2. Len(s) = Len(AllIn(e, s, m))
          <6>. HIDE DEF j, e, s, m
          <6>. QED BY <5>1, <3>1, <1>4, RestIsOver
        <5>. QED BY <3>1, <5>2 DEF Course
      <4>2. CASE ~(j.n < MAX_REQUESTS_PER_ENDPOINT)
        <5>1. MAX_REQUESTS_PER_ENDPOINT \in Nat /\ j.n \in 0..MAX_REQUESTS_PER_ENDPOINT
          BY <1>3, DiscoveryAssumption
        <5>. HIDE DEF j
        <5>. QED BY <4>2, <5>1
      <4>. QED BY <4>1, <4>2, <1>1
    <3>3. j.n <= MAX_REQUESTS_PER_ENDPOINT
      BY <1>3
    <3>. HIDE DEF j, e, s, m
    <3>. QED BY <1>4, <2>1, <3>1, <3>2, <3>3, CourseEnds
  <2>2. CASE ~Callable(e)
    <3>1. j.found = {}
      BY <1>3, <2>2 DEF JobOK
    <3>. QED BY <3>1, <2>2, NothingCalled
  <2>. QED BY <2>1, <2>2
<1>6. \A i \in Listed : FirstGate(i)' = FirstGate(i)
  BY <1>2, GateStays
<1>7. DOMAIN job = Workers /\ DOMAIN results = Listed
  BY DEF DCInv
<1>8. /\ results'[j.item] = Report(e, j) /\ \A i \in Listed : i # j.item => results'[i] = results[i]
      /\ job'[w] = Idle /\ \A v \in Workers : v # w => job'[v] = job[v]
  BY <1>2, <1>3, <1>7
<1>9. ASSUME NEW v \in Workers, job'[v] # Idle
      PROVE  v # w /\ job'[v] = job[v] /\ Working(v) /\ job[v].item # j.item
  <2>1. v # w /\ job'[v] = job[v] /\ Working(v)
    BY <1>8, <1>9 DEF Working
  <2>. QED BY <2>1, <1>1 DEF DCInv, JobsOK
<1>10. /\ Report(e, j).status \in {"none", "found", "partial", "not_found"}
       /\ Report(e, j).update = Suggestion(e, j.found)
  <2>. HIDE DEF j, e
  <2>. QED BY DEF Report
<1>. HIDE DEF j, e, s, m
<1>11. DCTypeOK'
  <2>1. DCTypeOK
    BY DEF DCInv
  <2>2. ASSUME NEW v \in Workers, job'[v] # Idle
        PROVE  /\ job'[v].item \in 1..index' /\ results'[job'[v].item] = NoReport
               /\ job'[v].n \in 0..MAX_REQUESTS_PER_ENDPOINT
    <3>1. job'[v] = job[v] /\ Working(v) /\ job[v].item # j.item
      BY <2>2, <1>9
    <3>2. /\ job[v].item \in 1..index /\ results[job[v].item] = NoReport /\ job[v].item \in Listed
          /\ job[v].n \in 0..MAX_REQUESTS_PER_ENDPOINT
      BY <3>1, WorkComesFirst
    <3>. QED BY <3>1, <3>2, <1>2, <1>8
  <2>3. \A i \in Listed : results'[i].status \in {"none", "found", "partial", "not_found"}
    BY <2>1, <1>8, <1>10 DEF DCTypeOK
  <2>. QED BY <2>1, <2>2, <2>3, <1>2 DEF DCTypeOK
<1>12. JobsOK'
  <2>1. ASSUME NEW v \in Workers, job'[v] # Idle
        PROVE  /\ items' # Unset /\ job'[v].item \in items'
               /\ JobOK(job'[v], asked'[job'[v].item], missed'[job'[v].item])
    BY <2>1, <1>2, <1>9 DEF DCInv, JobsOK
  <2>2. ASSUME NEW v \in Workers, NEW u \in Workers, job'[v] # Idle, job'[u] # Idle, job'[v].item = job'[u].item
        PROVE  v = u
    <3>1. Working(v) /\ Working(u) /\ job[v].item = job[u].item
      BY <2>2, <1>9
    <3>. QED BY <3>1 DEF DCInv, JobsOK
  <2>. QED BY <2>1, <2>2 DEF JobsOK, Working
<1>13. Untouched'
  <2>1. \A i \in Listed : i > index => i # j.item
    BY <1>3, ListedAre DEF DCInv, DCTypeOK
  <2>. QED BY <2>1, <1>2, <1>8 DEF DCInv, Untouched
<1>14. ReportsOK'
  <2>. SUFFICES ASSUME NEW i \in Listed, results'[i] # NoReport
                PROVE  /\ items' # Unset /\ i \in items'
                       /\ results'[i].update = Suggestion(Listing[i], FirstGate(i)')
    BY DEF ReportsOK
  <2>1. CASE i = j.item
    <3>1. FirstGate(i) = j.found
      BY <2>1, <1>3, <1>5, GateOfItem DEF e, s, m
    <3>. QED BY <2>1, <3>1, <1>2, <1>3, <1>6, <1>8, <1>10 DEF e
  <2>2. CASE i # j.item
    <3>1. results'[i] = results[i]
      BY <2>2, <1>8
    <3>2. items # Unset /\ i \in items /\ results[i].update = Suggestion(Listing[i], FirstGate(i))
      BY <3>1 DEF DCInv, ReportsOK
    <3>. QED BY <3>1, <3>2, <1>2, <1>6
  <2>. QED BY <2>1, <2>2
<1>15. ScriptOK'
  BY <1>2, <1>3 DEF ScriptOK, Original
<1>. QED BY <1>2, <1>7, <1>11, <1>12, <1>13, <1>14, <1>15 DEF DCInv

(* The script is printed when everything is reported, and nothing is asked
   any more. *)
LEMMA NoOneWorks == ASSUME DCInv, AllReported, NEW w \in Workers PROVE job[w] = Idle
BY WorkComesFirst DEF Working

LEMMA ScriptMoves ==
  ASSUME DCInv, UNCHANGED <<items, index, job, results, asked, missed>>, DOMAIN stored' = Listed, ScriptOK'
  PROVE  DCInv'
<1>1. DCTypeOK' /\ JobsOK' /\ Untouched'
  BY DEF DCInv, DCTypeOK, JobsOK, Working, Untouched
<1>2. \A i \in Listed : FirstGate(i)' = FirstGate(i)
  BY GateStays
<1>3. ReportsOK'
  BY <1>2 DEF DCInv, ReportsOK
<1>. QED BY <1>1, <1>3 DEF DCInv

LEMMA PrintKeeps == ASSUME DCInv, PrintUpdates PROVE DCInv'
<1>1. /\ AllReported /\ script = Unset /\ script' = Updates
      /\ UNCHANGED <<items, index, job, results, stored, asked, missed>>
  BY DEF PrintUpdates, AllReported
<1>2. \A i \in Listed : FirstGate(i)' = FirstGate(i)
  BY <1>1, GateStays
<1>3. Updates' = Updates /\ AllReported'
  BY <1>1 DEF Updates, AllReported
<1>4. \A i \in Listed : stored'[i] = Original(i) \/ (AllReported' /\ HasGate(i)')
  BY <1>1, <1>2, <1>3 DEF DCInv, ScriptOK, HasGate
<1>5. script' \subseteq Updates' /\ Updates' \ script' = {}
  BY <1>1, <1>3
<1>6. ScriptOK'
  BY <1>3, <1>4, <1>5 DEF ScriptOK, Original
<1>7. DOMAIN stored' = Listed
  BY <1>1 DEF DCInv
<1>. QED BY <1>1, <1>6, <1>7, ScriptMoves

(* A statement makes its row the first gate. *)
LEMMA StatementIs ==
  ASSUME DCInv, AllReported, NEW s \in Updates
  PROVE  /\ s.item \in Listed
         /\ \E q \in FirstGate(s.item) :
              /\ Updated(s.item).url = q.url /\ MethodOf(Updated(s.item)) = q.method
              /\ \A p \in FirstGate(s.item) : p = q
<1>. DEFINE i == s.item
            e == Listing[i]
            new == results[i].update
<1>1. i \in items /\ items \subseteq Listed
  BY DEF AllReported, DCInv, DCTypeOK, Updates
<1>2. i \in Listed /\ results[i] # NoReport
  BY <1>1 DEF AllReported
<1>3. new = Suggestion(e, FirstGate(i))
  BY <1>2 DEF DCInv, ReportsOK
<1>4. new.url = {q.url : q \in FirstGate(i)} \ {e.url} /\ new.method = {q.method : q \in FirstGate(i)} \ {MethodOf(e)}
  BY <1>3 DEF Suggestion
<1>5. new.url # {} \/ new.method # {}
  BY DEF Updates
<1>6. PICK q \in FirstGate(i) : TRUE
  BY <1>4, <1>5
<1>7. FirstGate(i) = FirstIn(e, asked[i], missed[i]) /\ e \in Endpoints
  BY <1>1, <1>2, GateOfItem, ListedAre
<1>8. \A p, r \in FirstGate(i) : p = r
  BY <1>7, OneGate
<1>9. q.method \in Methods
  BY <1>6, <1>7, OneGate
<1>10. new.url = {q.url} \ {e.url} /\ new.method = {q.method} \ {MethodOf(e)}
  BY <1>4, <1>6, <1>8
<1>11. stored[i] = Original(i) \/ (stored[i].url = q.url /\ MethodOf(stored[i]) = q.method)
  BY <1>2, <1>6, <1>8 DEF DCInv, ScriptOK, HasGate
<1>12. Unset \notin Methods
  BY DiscoveryAssumption DEF Methods
<1>13. Updated(i) = Row(OneOf(new.url, stored[i].url), OneOf(new.method, stored[i].method))
  BY DEF Updated
<1>. HIDE DEF i, e, new
<1>14. Original(i).url = e.url /\ MethodOf(Original(i)) = MethodOf(e)
  BY DEF Original, Row, MethodOf, e
<1>15. Updated(i).url = q.url
  <2>1. Updated(i).url = OneOf(new.url, stored[i].url)
    BY <1>13 DEF Row
  <2>2. CASE q.url = e.url
    <3>1. new.url = {}
      BY <2>2, <1>10
    <3>. QED BY <2>1, <2>2, <3>1, <1>11, <1>14 DEF OneOf
  <2>3. CASE q.url # e.url
    <3>1. new.url = {q.url}
      BY <2>3, <1>10
    <3>. QED BY <2>1, <3>1 DEF OneOf
  <2>. QED BY <2>2, <2>3
<1>16. MethodOf(Updated(i)) = q.method
  <2>1. Updated(i).method = OneOf(new.method, stored[i].method)
    BY <1>13 DEF Row
  <2>2. CASE q.method = MethodOf(e)
    <3>1. Updated(i).method = stored[i].method
      BY <2>1, <2>2, <1>10 DEF OneOf
    <3>2. MethodOf(stored[i]) = q.method
      BY <2>2, <1>11, <1>14
    <3>. QED BY <3>1, <3>2 DEF MethodOf
  <2>3. CASE q.method # MethodOf(e)
    <3>1. new.method = {q.method}
      BY <2>3, <1>10
    <3>2. Updated(i).method = q.method
      BY <2>1, <3>1 DEF OneOf
    <3>. QED BY <3>2, <1>9, <1>12 DEF MethodOf
  <2>. QED BY <2>2, <2>3
<1>. QED BY <1>2, <1>6, <1>8, <1>15, <1>16 DEF i

LEMMA RunKeeps == ASSUME DCInv, RunStatement PROVE DCInv'
<1>1. PICK s \in script :
        /\ script' = script \ {s}
        /\ stored' = IF Collides(s.item, Updated(s.item).url) THEN stored
                     ELSE [stored EXCEPT ![s.item] = Updated(s.item)]
  BY DEF RunStatement
<1>2. script # Unset /\ UNCHANGED <<items, index, job, results, asked, missed>>
  BY DEF RunStatement
<1>3. AllReported /\ script \subseteq Updates
  BY <1>2 DEF DCInv, ScriptOK
<1>. DEFINE i == s.item
<1>4. i \in Listed
  BY <1>3, StatementIs
<1>5. PICK q \in FirstGate(i) :
        /\ Updated(i).url = q.url /\ MethodOf(Updated(i)) = q.method
        /\ \A p \in FirstGate(i) : p = q
  BY <1>3, StatementIs
<1>. HIDE DEF i
<1>6. \A k \in Listed : FirstGate(k)' = FirstGate(k)
  BY <1>2, GateStays
<1>7. Updates' = Updates /\ AllReported'
  BY <1>2, <1>3 DEF Updates, AllReported
<1>8. DOMAIN stored = Listed /\ DOMAIN stored' = Listed
  BY <1>1 DEF DCInv
<1>9. \A k \in Listed : k # i => stored'[k] = stored[k]
  BY <1>1 DEF i
<1>10. \A k, url : Wanted(k, url)' <=> Wanted(k, url)
  BY <1>6 DEF Wanted
<1>11. \A k \in Listed : Hindered(k) => Hindered(k)'
  BY <1>6, <1>10 DEF Hindered
<1>12. \A k \in Listed : stored[k] = Original(k) \/ HasGate(k)
  BY DEF DCInv, ScriptOK
<1>13. stored'[i] = stored[i] \/ HasGate(i)'
  <2>1. CASE stored' = [stored EXCEPT ![s.item] = Updated(s.item)]
    <3>1. stored'[i] = Updated(i)
      BY <2>1, <1>4, <1>8 DEF i
    <3>2. HasGate(i)'
      BY <3>1, <1>4, <1>5, <1>6 DEF HasGate, MethodOf
    <3>. QED BY <3>2
  <2>2. CASE stored' = stored
    BY <2>2
  <2>. QED BY <2>1, <2>2, <1>1
<1>14. \A k \in Listed : HasGate(k) => HasGate(k)'
  <2>1. ASSUME NEW k \in Listed, HasGate(k), stored'[k] = stored[k] PROVE HasGate(k)'
    BY <2>1, <1>6 DEF HasGate, MethodOf
  <2>. QED BY <2>1, <1>9, <1>13
<1>15. \A k \in Listed : stored'[k] = Original(k) \/ HasGate(k)'
  BY <1>9, <1>12, <1>13, <1>14
<1>16. HasGate(i)' \/ Hindered(i)'
  <2>1. CASE Collides(i, q.url)
    <3>1. PICK k \in Listed \ {i} : Listing[k].host = Listing[i].host /\ stored[k].url = q.url
      BY <2>1 DEF Collides
    <3>2. stored[k] = Original(k) => Wanted(i, q.url)
      BY <3>1 DEF Original, Row, Wanted
    <3>3. HasGate(k) => Wanted(i, q.url)
      BY <3>1 DEF HasGate, Wanted
    <3>4. Wanted(i, q.url)
      BY <3>1, <3>2, <3>3, <1>12
    <3>5. Hindered(i)
      BY <3>4, <1>5 DEF Hindered
    <3>. QED BY <3>5, <1>4, <1>11
  <2>2. CASE ~Collides(i, q.url)
    <3>1. stored' = [stored EXCEPT ![i] = Updated(i)]
      BY <2>2, <1>1, <1>5 DEF i
    <3>2. stored'[i] = Updated(i)
      BY <3>1, <1>4, <1>8
    <3>. QED BY <3>2, <1>4, <1>5, <1>6 DEF HasGate, MethodOf
  <2>. QED BY <2>1, <2>2
<1>17. ASSUME NEW t \in Updates \ script' PROVE HasGate(t.item)' \/ Hindered(t.item)'
  <2>1. t.item \in Listed
    BY <1>3, StatementIs
  <2>2. CASE t = s
    BY <2>2, <1>16 DEF i
  <2>3. CASE t # s
    <3>1. t \in Updates \ script
      BY <2>3, <1>1
    <3>2. HasGate(t.item) \/ Hindered(t.item)
      BY <3>1, <1>2 DEF DCInv, ScriptOK
    <3>. QED BY <3>2, <2>1, <1>11, <1>14
  <2>. QED BY <2>2, <2>3
<1>18. script' \subseteq Updates
  BY <1>1, <1>3
<1>19. ScriptOK'
  <2>1. \A k \in Listed : stored'[k] = Original(k) \/ (AllReported' /\ HasGate(k)')
    BY <1>7, <1>15
  <2>2. \A t \in Updates' \ script' : HasGate(t.item)' \/ Hindered(t.item)'
    BY <1>7, <1>17
  <2>. QED BY <2>1, <2>2, <1>7, <1>18 DEF ScriptOK, Original
<1>. QED BY <1>2, <1>8, <1>19, ScriptMoves

LEMMA DCNextInv == DCInv /\ [DCNext]_dcVars => DCInv'
<1>. SUFFICES ASSUME DCInv, [DCNext]_dcVars PROVE DCInv'
  OBVIOUS
<1>1. CASE Fetch
  BY <1>1, FetchKeeps
<1>2. ASSUME NEW w \in Workers, TakeEndpoint(w) PROVE DCInv'
  BY <1>2, TakeKeeps
<1>3. ASSUME NEW w \in Workers, SkipProbe(w) PROVE DCInv'
  BY <1>3, SkipKeeps
<1>4. ASSUME NEW w \in Workers, TimesOut(w) PROVE DCInv'
  BY <1>4, TimesOutKeeps
<1>5. ASSUME NEW w \in Workers, Answered(w) PROVE DCInv'
  BY <1>5, AnsweredKeeps
<1>6. ASSUME NEW w \in Workers, Finish(w) PROVE DCInv'
  BY <1>6, FinishKeeps
<1>7. CASE PrintUpdates
  BY <1>7, PrintKeeps
<1>8. CASE RunStatement
  BY <1>8, RunKeeps
<1>9. CASE UNCHANGED dcVars
  <2>1. UNCHANGED <<items, index, job, results, script, stored, asked, missed>>
    BY <1>9 DEF dcVars
  <2>2. \A i \in Listed : FirstGate(i)' = FirstGate(i)
    BY <2>1, GateStays
  <2>3. ScriptOK'
    <3>1. \A k, url : Wanted(k, url)' <=> Wanted(k, url)
      BY <2>2 DEF Wanted
    <3>2. \A i \in Listed : /\ HasGate(i) => HasGate(i)'
                            /\ Hindered(i) => Hindered(i)'
      BY <2>1, <2>2, <3>1 DEF HasGate, Hindered, MethodOf
    <3>3. Updates' = Updates /\ (AllReported => AllReported')
      BY <2>1 DEF Updates, AllReported
    <3>4. AllReported => \A t \in Updates : t.item \in Listed
      BY StatementIs DEF DCInv
    <3>5. ScriptOK
      BY DEF DCInv
    <3>. QED BY <2>1, <3>2, <3>3, <3>4, <3>5 DEF ScriptOK, Original
  <2>4. DOMAIN stored' = Listed
    BY <2>1 DEF DCInv
  <2>. QED BY <2>1, <2>3, <2>4, ScriptMoves
<1>. QED BY <1>1, <1>2, <1>3, <1>4, <1>5, <1>6, <1>7, <1>8, <1>9 DEF DCNext

LEMMA DCInvFixes == ASSUME DCInv PROVE DiscoveryFixes
<1>. SUFFICES ASSUME script = {}, NEW i \in Listed
              PROVE  HasGate(i) \/ (stored[i] = Original(i) /\ Hindered(i))
  BY DEF DiscoveryFixes, HasGate, Original, Hindered
<1>1. script # Unset
  BY DiscoveryAssumption
<1>2. AllReported /\ \A s \in Updates : HasGate(s.item) \/ Hindered(s.item)
  BY <1>1 DEF DCInv, ScriptOK
<1>3. HasGate(i) \/ stored[i] = Original(i)
  BY DEF DCInv, ScriptOK
<1>. SUFFICES ASSUME ~HasGate(i) PROVE Hindered(i)
  BY <1>3
<1>4. stored[i] = Original(i)
  BY <1>3
<1>. SUFFICES ASSUME NEW q \in FirstGate(i) PROVE Hindered(i)
  BY DEF Hindered
<1>5. i \in items
  BY GateOfItem
<1>6. results[i].update = Suggestion(Listing[i], FirstGate(i))
  BY <1>2, <1>5 DEF AllReported, DCInv, ReportsOK
<1>. DEFINE new == results[i].update
            s(n) == [pass |-> n, item |-> i]
<1>7. new.url # {} \/ new.method # {}
  <2>. SUFFICES ASSUME new.url = {}, new.method = {} PROVE HasGate(i)
    OBVIOUS
  <2>1. q.url = Listing[i].url /\ q.method = MethodOf(Listing[i])
    BY <1>6 DEF Suggestion
  <2>2. stored[i].url = q.url /\ MethodOf(stored[i]) = q.method
    BY <2>1, <1>4 DEF Original, Row, MethodOf
  <2>. QED BY <2>2 DEF HasGate
<1>8. new.url # {} => s(1) \in Updates
  BY <1>5 DEF Updates
<1>9. new.method # {} => s(2) \in Updates
  BY <1>5 DEF Updates
<1>10. s(1).item = i /\ s(2).item = i
  OBVIOUS
<1>. HIDE DEF s, new
<1>. QED BY <1>2, <1>7, <1>8, <1>9, <1>10

(* For any listing, any number of workers, any budget and any answers lost, the
   statements of the script store the first request of the five stages that got
   a valid 402, unless another row of the host stands in the way. *)
THEOREM DiscoveriesAreStored == DCSpec => []DiscoveryFixes
<1>1. DCInit => DCInv
  BY DCInitInv
<1>2. DCInv /\ [DCNext]_dcVars => DCInv'
  BY DCNextInv
<1>3. DCInv => DiscoveryFixes
  BY DCInvFixes
<1>. QED BY <1>1, <1>2, <1>3, PTL DEF DCSpec

----------------------------------------------------------------------------
(***************************************************************************)
(* The components side by side                                             *)
(***************************************************************************)

(* A behaviour of the run is one of each component: the one it is about takes
   steps, the others stutter. *)
LEMMA EachServiceStarts ==
  ServicesInit => Init /\ WHInit /\ QLInit /\ MGInit /\ OBInit /\ SCInit /\ DCInit
BY Zenon DEF ServicesInit

LEMMA EachServiceSteps ==
  [ServicesNext]_servicesVars =>
    /\ [Next]_vars /\ [WHNext]_whVars /\ [QLNext]_qlVars /\ [MGNext]_mgVars
    /\ [OBNext]_obVars /\ [SCNext]_scVars /\ [DCNext]_dcVars
    /\ part' = part
<1>1. ServicesNext => [Next]_vars /\ [WHNext]_whVars /\ [QLNext]_qlVars /\ [MGNext]_mgVars
  BY Zenon DEF ServicesNext
<1>2. ServicesNext => [OBNext]_obVars /\ [SCNext]_scVars /\ [DCNext]_dcVars /\ part' = part
  BY Zenon DEF ServicesNext
<1>3. UNCHANGED servicesVars =>
        /\ UNCHANGED vars /\ UNCHANGED whVars /\ UNCHANGED qlVars /\ UNCHANGED mgVars
        /\ UNCHANGED obVars /\ UNCHANGED scVars /\ UNCHANGED dcVars /\ part' = part
  BY Zenon DEF servicesVars
<1>. QED BY Zenon, <1>1, <1>2, <1>3

(* MCServices, and with it the components it composes: a behaviour of the
   composition is one of every component, so that what is proved of the
   components' specifications holds of it. *)
THEOREM ServicesAreComposed ==
  ServicesSpec => Spec /\ WHSpec /\ QLSpec /\ MGSpec /\ OBSpec /\ SCSpec /\ DCSpec
BY EachServiceStarts, EachServiceSteps, PTL
   DEF ServicesSpec, Spec, WHSpec, QLSpec, MGSpec, OBSpec, SCSpec, DCSpec

LEMMA SweepTypeCorrect == Spec => []TypeOK
<1>1. Init => SweepInv /\ SweepBounds
  BY SweepInitInv, SweepBoundsInit
<1>2. (SweepInv /\ SweepBounds) /\ [Next]_vars => (SweepInv /\ SweepBounds)'
  BY SweepNextInv, SweepBoundsNext
<1>3. SweepInv /\ SweepBounds => TypeOK
  BY SweepTypes
<1>. QED BY <1>1, <1>2, <1>3, PTL DEF Spec

LEMMA RollupTypeCorrect == QLSpec => []QLTypeOK
<1>1. QLInit => RollupInv /\ RollupBounds
  BY RollupInitInv, RollupBoundsInit
<1>2. (RollupInv /\ RollupBounds) /\ [QLNext]_qlVars => (RollupInv /\ RollupBounds)'
  BY RollupNextInv, RollupBoundsNext
<1>3. RollupInv /\ RollupBounds => QLTypeOK
  BY RollupTypes
<1>. QED BY <1>1, <1>2, <1>3, PTL DEF QLSpec

LEMMA CardsTypeCorrect == OBSpec => []OBTypeOK
<1>1. OBInit => OBInv /\ CardNamesTyped /\ CallsTyped
  BY OBInitInv DEF OBInit, CardNamesTyped, CallsTyped
<1>2. (OBInv /\ CardNamesTyped /\ CallsTyped) /\ [OBNext]_obVars => (OBInv /\ CardNamesTyped /\ CallsTyped)'
  BY OBNextInv, CardNamesNext, CallsNext
<1>3. OBInv /\ CardNamesTyped /\ CallsTyped => OBTypeOK
  BY CardTypes
<1>. QED BY <1>1, <1>2, <1>3, PTL DEF OBSpec

LEMMA SchedulerTypeCorrect == SCSpec => []SCTypeOK
<1>1. SCInit => ScriptInv /\ ServerTyped
  BY ScriptInit, ServerTypedInit
<1>2. (ScriptInv /\ ServerTyped) /\ [SCNext]_scVars => (ScriptInv /\ ServerTyped)'
  BY ScriptStep, ServerTypedNext
<1>3. ScriptInv /\ ServerTyped => SCTypeOK
  BY SchedulerTypes
<1>. QED BY <1>1, <1>2, <1>3, PTL DEF SCSpec

LEMMA OthersTypeCorrect == (WHSpec => []WHTypeOK) /\ (MGSpec => []MGTypeOK) /\ (DCSpec => []DCTypeOK)
<1>1. WHInv => WHTypeOK
  BY DEF WHInv
<1>2. MGInv => MGTypeOK
  BY DEF MGInv
<1>3. DCInv => DCTypeOK
  BY DEF DCInv
<1>4. WHSpec => []WHTypeOK
  BY <1>1, WHInitInv, WHNextInv, PTL DEF WHSpec
<1>5. MGSpec => []MGTypeOK
  BY <1>2, MGInitInv, MGNextInv, PTL DEF MGSpec
<1>6. DCSpec => []DCTypeOK
  BY <1>3, DCInitInv, DCNextInv, PTL DEF DCSpec
<1>. QED BY <1>4, <1>5, <1>6

(* The rows, queues, counts, calls and statements that the seven components
   keep have their types and stay within their bounds in every state, whatever
   the component at work does. *)
THEOREM ServicesTypeCorrect == ServicesSpec => []ServicesTypeOK
<1>. DEFINE Parts == part \in {"health", "webhooks", "log", "boot", "cards", "scheduler", "discovery"}
<1>1. ServicesInit => Parts
  BY DEF ServicesInit
<1>2. Parts /\ [ServicesNext]_servicesVars => Parts'
  BY EachServiceSteps
<1>3. Parts /\ TypeOK /\ WHTypeOK /\ QLTypeOK /\ MGTypeOK /\ OBTypeOK /\ SCTypeOK /\ DCTypeOK => ServicesTypeOK
  BY DEF ServicesTypeOK
<1>4. ServicesSpec => []Parts
  BY <1>1, <1>2, PTL DEF ServicesSpec
<1>. HIDE DEF Parts
<1>. QED BY <1>3, <1>4, ServicesAreComposed, SweepTypeCorrect, RollupTypeCorrect, CardsTypeCorrect,
            SchedulerTypeCorrect, OthersTypeCorrect, PTL

============================================================================
