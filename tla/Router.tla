------------------------------ MODULE Router ------------------------------
(***************************************************************************)
(* The paying router (router/src): the `invoke` tool, from the cold call   *)
(* that quotes a job and places a card hold, through consent or a standing *)
(* budget, to settlement, redemption and capture, together with the loss   *)
(* ledger, the paid credentials and the scheduled recovery pass.           *)
(*                                                                         *)
(* Node runs one handler at a time between two awaits, so an action here   *)
(* is everything a handler does from one await to the next.  Stripe and    *)
(* the wallet act in steps of their own (StripeHolds, WalletPays, ...), so *)
(* that a reply can be lost after the effect and a crash can fall between. *)
(*                                                                         *)
(* A call of the tool is an element of Calls.  A cold call names the job   *)
(* it prepares: the job's nonce, card hold, pending_jobs row, ledger row   *)
(* and credential all carry its identity.  A retry works on the job of an  *)
(* earlier cold call.  Arguments are part of a caller's identity: a retry  *)
(* with other arguments is refused like one of another principal.          *)
(***************************************************************************)
EXTENDS Integers, FiniteSets, Functions

CONSTANTS
  Calls,                    \* the invoke requests the router receives
  Principals,               \* the agents they come from, each with a card on file
  Candidates,               \* (service, route) pairs of the live index
  Nobody,                   \* no principal, no job, no candidate
  Quotes,                   \* sats a firm quote may ask for
  Fees,                     \* sats the wallet may lose on top of a quote
  Charges,                  \* card amounts, after Stripe's floor
  Budgets,                  \* standing budgets an agent may grant
  MaxSatsPerJob,            \* GuardLimits.maxSatsPerJob
  MaxTotalSats,             \* GuardLimits.maxTotalSats
  PrincipalMaxSatsPerJob,   \* PrincipalLimits.maxSatsPerJob
  PrincipalMaxTotalSats,    \* PrincipalLimits.maxTotalSats
  MockPinned,               \* config.settlementAdapter = 'mock'
  RecoveryOn,               \* config.retryIntervalMinutes > 0
  MaxCrashes                \* bound: how often the process dies

ASSUME CallsAssumption ==
  /\ Nobody \notin Calls \union Principals \union Candidates
  /\ IsFiniteSet(Calls)
  /\ Quotes \subseteq Nat \ {0}
  /\ Fees \subseteq Nat
  /\ Charges \subseteq Nat
  /\ Budgets \subseteq Nat \ {0}
ASSUME LimitsAssumption ==
  /\ MaxSatsPerJob \in Nat /\ MaxTotalSats \in Nat
  /\ PrincipalMaxSatsPerJob \in Nat /\ PrincipalMaxTotalSats \in Nat
  /\ MockPinned \in BOOLEAN
  /\ RecoveryOn \in BOOLEAN
  /\ MaxCrashes \in Nat

VARIABLES
  \* the handlers, in memory
  pc,        \* where each call is; a terminal value is the answer it got
  who,       \* the principal of a call
  job,       \* the job a call works on
  cand,      \* the candidate a job's cold call chose
  sats,      \* a job's firm quote
  charge,    \* what its card hold is for
  \* router.db
  nonces,    \* state_nonces: consents already used
  pending,   \* pending_jobs
  ledger,    \* spend_ledger: "none", or what the row's `delivered` says
  cred,      \* paid_credentials
  mandates,  \* standing budgets, one per principal
  degraded,  \* degraded_candidates
  \* the recovery pass, in memory
  retrying,  \* the credential it is redeeming, or Nobody: `running` is # Nobody
  rest,      \* the rows of its snapshot still to do
  \* the world
  stale,     \* requestState blobs past their TTL
  hold,      \* the card hold at Stripe
  wallet,    \* sats that left the wallet for a job
  read,      \* jobs whose result body an execution has read
  crashes    \* how often the process has died

handlers == <<pc, who, job, cand, sats, charge>>
recovery == <<retrying, rest>>
world == <<stale, hold, wallet, read, crashes>>
vars == <<pc, who, job, cand, sats, charge, nonces, pending, ledger, cred,
          mandates, degraded, retrying, rest, stale, hold, wallet, read, crashes>>

(* A handler's progress: awaiting the quote, then Stripe, the wallet, the
   provider, the response body, Stripe again. "releasing" and "failing" both
   await the void; after "failing" the loss is still to be written. *)
Executing == {"settling", "redeeming", "reading", "capturing", "releasing", "failing"}
Live == {"quoting", "authorizing"} \union Executing
(* "consent" hands the blob to the agent; "free" says the hold was voided;
   "expired" and "refused" are StateErrors or a refusal before any hold;
   "unread" and "thrown" are exceptions; "dropped" died with the process. *)
Answers == {"consent", "free", "expired", "refused", "receipt", "unread", "thrown", "dropped"}

Mandated(c) == job[c] = c

NoMandate == [budget |-> 0, spent |-> 0, live |-> FALSE]

TypeOK ==
  /\ pc \in [Calls -> {"idle"} \union Live \union Answers]
  /\ who \in [Calls -> Principals \union {Nobody}]
  /\ job \in [Calls -> Calls \union {Nobody}]
  /\ cand \in [Calls -> Candidates \union {Nobody}]
  /\ sats \in [Calls -> Nat]
  /\ charge \in [Calls -> Nat]
  /\ nonces \subseteq Calls
  /\ pending \subseteq Calls
  /\ ledger \in [Calls -> {"none", "unknown", "yes", "no"}]
  /\ cred \in [Calls -> {"none", "unredeemed", "redeemed"}]
  /\ mandates \in [Principals -> [budget : Nat, spent : Nat, live : BOOLEAN]]
  /\ degraded \subseteq Candidates
  /\ retrying \in Calls \union {Nobody}
  /\ rest \subseteq Calls
  /\ stale \subseteq Calls
  /\ hold \in [Calls -> {"none", "held", "captured", "voided"}]
  /\ wallet \in [Calls -> Nat]
  /\ read \subseteq Calls
  /\ crashes \in 0..MaxCrashes

(* A mandate may have been granted on the setup page before the first call. *)
Init ==
  /\ pc = [c \in Calls |-> "idle"]
  /\ who = [c \in Calls |-> Nobody]
  /\ job = [c \in Calls |-> Nobody]
  /\ cand = [c \in Calls |-> Nobody]
  /\ sats = [c \in Calls |-> 0]
  /\ charge = [c \in Calls |-> 0]
  /\ nonces = {} /\ pending = {}
  /\ ledger = [j \in Calls |-> "none"]
  /\ cred = [j \in Calls |-> "none"]
  /\ mandates \in [Principals -> {NoMandate} \union
                     {[budget |-> b, spent |-> 0, live |-> TRUE] : b \in Budgets}]
  /\ degraded = {}
  /\ retrying = Nobody /\ rest = {}
  /\ stale = {}
  /\ hold = [j \in Calls |-> "none"]
  /\ wallet = [j \in Calls |-> 0]
  /\ read = {}
  /\ crashes = 0

----------------------------------------------------------------------------
(* guards.ts *)

(* The row's `sats` column is settledSats + feeSats: what left the wallet. *)
Booked == [j \in Calls |-> IF ledger[j] = "none" THEN 0 ELSE wallet[j]]
SumOver(f, S) == FoldFunctionOnSet(+, 0, f, S)
TotalSpent == SumOver(Booked, Calls)
PrincipalSpent(p) == SumOver(Booked, {j \in Calls : who[j] = p})

CheckJob(s, p) ==
  /\ s <= MaxSatsPerJob
  /\ TotalSpent + s <= MaxTotalSats
  /\ s <= PrincipalMaxSatsPerJob
  /\ PrincipalSpent(p) + s <= PrincipalMaxTotalSats

(* getMandate, and the budget test under which a cold call runs at once. *)
Covered(p, u) == mandates[p].live /\ mandates[p].budget - mandates[p].spent >= u

(* Bug: the nonce is not claimed. *)
AnyNonce(j, p) == j \notin stale /\ p = who[j]

(* Bug: the principal is not compared. *)
AnyPrincipal(j, p) == j \notin stale /\ j \notin nonces

(* verifyState: not expired, the same principal, the nonce never used. *)
VerifyState(j, p) == j \notin stale /\ p = who[j] /\ j \notin nonces

----------------------------------------------------------------------------
(* The cold call *)

(* The candidate ladder up to a candidate's route: any candidate that was
   not degraded when the list was built. *)
ColdCall(c, p, k) ==
  /\ pc[c] = "idle" /\ k \notin degraded
  /\ pc' = [pc EXCEPT ![c] = "quoting"]
  /\ who' = [who EXCEPT ![c] = p]
  /\ job' = [job EXCEPT ![c] = c]
  /\ cand' = [cand EXCEPT ![c] = k]
  /\ UNCHANGED <<sats, charge, nonces, pending, ledger, cred, mandates, degraded, recovery, world>>

(* The firm quote arrives; the guard refuses or the card is authorized. *)
Quoted(c, s, u) ==
  /\ pc[c] = "quoting"
  /\ sats' = [sats EXCEPT ![c] = s]
  /\ charge' = [charge EXCEPT ![c] = u]
  /\ pc' = [pc EXCEPT ![c] = IF CheckJob(s, who[c]) THEN "authorizing" ELSE "refused"]
  /\ UNCHANGED <<who, job, cand, nonces, pending, ledger, cred, mandates, degraded, recovery, world>>

(* No candidate gave a payable quote within the caller's price. *)
QuoteFailed(c) ==
  /\ pc[c] = "quoting"
  /\ pc' = [pc EXCEPT ![c] = "refused"]
  /\ UNCHANGED <<who, job, cand, sats, charge, nonces, pending, ledger, cred, mandates, degraded, recovery, world>>

StripeHolds(c) ==
  /\ pc[c] = "authorizing" /\ hold[c] = "none"
  /\ hold' = [hold EXCEPT ![c] = "held"]
  /\ UNCHANGED <<handlers, nonces, pending, ledger, cred, mandates, degraded, recovery, stale, wallet, read, crashes>>

(* registry.select finds an adapter; after a restart under another
   configuration it may not. *)
AdapterFound == {TRUE} \union {crashes = 0}

(* The head of executeJob for job j: the guard once more, on what the ledger
   says now, and an adapter; either failing goes to the void. *)
Start(j, adapter) ==
  IF CheckJob(sats[j], who[j]) /\ adapter THEN "settling" ELSE "releasing"

(* Bug: the standing budget is debited before anything is delivered. *)
AuthorizedDebits(c) ==
  /\ pc[c] = "authorizing" /\ hold[c] = "held"
  /\ IF Covered(who[c], charge[c])
     THEN /\ pc' = [pc EXCEPT ![c] = Start(c, TRUE)]
          /\ mandates' = [mandates EXCEPT ![who[c]].spent = @ + charge[c]]
          /\ UNCHANGED pending
     ELSE /\ pc' = [pc EXCEPT ![c] = "consent"]
          /\ pending' = pending \union {c}
          /\ UNCHANGED mandates
  /\ UNCHANGED <<who, job, cand, sats, charge, nonces, ledger, cred, degraded, recovery, world>>

(* The hold is there: run at once under a standing budget, or store the job
   and hand the agent a consent blob. *)
Authorized(c) ==
  /\ pc[c] = "authorizing" /\ hold[c] = "held"
  /\ IF Covered(who[c], charge[c])
     THEN pc' = [pc EXCEPT ![c] = Start(c, TRUE)] /\ UNCHANGED pending
     ELSE /\ pc' = [pc EXCEPT ![c] = "consent"]
          /\ pending' = pending \union {c}
  /\ UNCHANGED <<who, job, cand, sats, charge, nonces, ledger, cred, mandates, degraded, recovery, world>>

----------------------------------------------------------------------------
(* The retry with the consent *)

(* Consent given, with or without a standing budget. The nonce is claimed,
   the mandate replaced, the pending job taken and deleted, and the job run:
   one synchronous stretch. A job whose row is gone is released. *)
RetryApproved(c, p, j, b) ==
  /\ pc[c] = "idle" /\ pc[j] = "consent" /\ VerifyState(j, p)
  /\ nonces' = nonces \union {j}
  /\ mandates' = IF b = 0 THEN mandates
                 ELSE [mandates EXCEPT ![p] = [budget |-> b, spent |-> 0, live |-> TRUE]]
  /\ pending' = pending \ {j}
  /\ who' = [who EXCEPT ![c] = p]
  /\ job' = [job EXCEPT ![c] = j]
  /\ \E adapter \in AdapterFound :
       pc' = [pc EXCEPT ![c] = IF j \in pending THEN Start(j, adapter) ELSE "releasing"]
  /\ UNCHANGED <<cand, sats, charge, ledger, cred, degraded, recovery, world>>

(* Consent declined: the nonce is claimed, the pending row stays. *)
RetryDeclined(c, p, j) ==
  /\ pc[c] = "idle" /\ pc[j] = "consent" /\ VerifyState(j, p)
  /\ nonces' = nonces \union {j}
  /\ who' = [who EXCEPT ![c] = p]
  /\ job' = [job EXCEPT ![c] = j]
  /\ pc' = [pc EXCEPT ![c] = "releasing"]
  /\ UNCHANGED <<cand, sats, charge, pending, ledger, cred, mandates, degraded, recovery, world>>

(* A StateError answers the call and does nothing else. *)
RetryRejected(c, p, j) ==
  /\ pc[c] = "idle" /\ pc[j] = "consent" /\ ~VerifyState(j, p)
  /\ who' = [who EXCEPT ![c] = p]
  /\ job' = [job EXCEPT ![c] = j]
  /\ pc' = [pc EXCEPT ![c] = IF j \in stale THEN "expired" ELSE "refused"]
  /\ UNCHANGED <<cand, sats, charge, nonces, pending, ledger, cred, mandates, degraded, recovery, world>>

----------------------------------------------------------------------------
(* executeJob, from one await to the next *)

WalletPays(c, f) ==
  /\ pc[c] = "settling" /\ wallet[job[c]] = 0 /\ ~MockPinned
  /\ wallet' = [wallet EXCEPT ![job[c]] = sats[job[c]] + f]
  /\ UNCHANGED <<handlers, nonces, pending, ledger, cred, mandates, degraded, recovery, stale, hold, read, crashes>>

(* The adapter returns a proof: the outflow is booked unless the adapter is
   the mock, the credential is persisted, and only then is it redeemed. *)
Settled(c) ==
  /\ pc[c] = "settling" /\ (wallet[job[c]] > 0 \/ MockPinned)
  /\ ledger' = IF MockPinned THEN ledger ELSE [ledger EXCEPT ![job[c]] = "unknown"]
  /\ cred' = [cred EXCEPT ![job[c]] = "unredeemed"]
  /\ pc' = [pc EXCEPT ![c] = "redeeming"]
  /\ UNCHANGED <<who, job, cand, sats, charge, nonces, pending, mandates, degraded, recovery, world>>

(* The adapter throws, whether or not the sats have left. *)
PayThrew(c) ==
  /\ pc[c] = "settling"
  /\ pc' = [pc EXCEPT ![c] = "releasing"]
  /\ UNCHANGED <<who, job, cand, sats, charge, nonces, pending, ledger, cred, mandates, degraded, recovery, world>>

(* Bug: the card is captured on the 2xx, before the body is read. *)
CaptureFirst(c) ==
  /\ pc[c] = "redeeming"
  /\ pc' = [pc EXCEPT ![c] = "capturing"]
  /\ UNCHANGED <<who, job, cand, sats, charge, nonces, pending, ledger, cred, mandates, degraded, recovery, world>>

RedeemAnswered(c) ==
  /\ pc[c] = "redeeming"
  /\ pc' = [pc EXCEPT ![c] = "reading"]
  /\ UNCHANGED <<who, job, cand, sats, charge, nonces, pending, ledger, cred, mandates, degraded, recovery, world>>

(* recordDelivery updates the job's row, if it has one. *)
RecordDelivery(j, delivered) ==
  ledger' = IF ledger[j] = "none" THEN ledger ELSE [ledger EXCEPT ![j] = delivered]

(* Not 2xx, a timeout, a network error. *)
RedeemFailed(c) ==
  /\ pc[c] = "redeeming"
  /\ pc' = [pc EXCEPT ![c] = "failing"]
  /\ UNCHANGED <<who, job, cand, sats, charge, nonces, pending, ledger, cred, mandates, degraded, recovery, world>>

BodyRead(c) ==
  /\ pc[c] = "reading"
  /\ read' = read \union {job[c]}
  /\ pc' = [pc EXCEPT ![c] = "capturing"]
  /\ UNCHANGED <<who, job, cand, sats, charge, nonces, pending, ledger, cred, mandates, degraded, recovery, stale, hold, wallet, crashes>>

(* The stream breaks after the 2xx: text() rejects and nothing catches it. *)
BodyThrew(c) ==
  /\ pc[c] = "reading"
  /\ pc' = [pc EXCEPT ![c] = "unread"]
  /\ UNCHANGED <<who, job, cand, sats, charge, nonces, pending, ledger, cred, mandates, degraded, recovery, world>>

StripeCaptures(c) ==
  /\ pc[c] = "capturing" /\ hold[job[c]] = "held"
  /\ hold' = [hold EXCEPT ![job[c]] = "captured"]
  /\ UNCHANGED <<handlers, nonces, pending, ledger, cred, mandates, degraded, recovery, stale, wallet, read, crashes>>

Debited(p, u) == [mandates EXCEPT ![p].spent = @ + u]

(* Captured: debit the mandate, close the ledger row, mark the credential. *)
Captured(c) ==
  /\ pc[c] = "capturing" /\ hold[job[c]] = "captured"
  /\ mandates' = IF Mandated(c) \/ mandates[who[c]].live
                 THEN Debited(who[c], charge[job[c]])
                 ELSE mandates
  /\ RecordDelivery(job[c], "yes")
  /\ cred' = [cred EXCEPT ![job[c]] = "redeemed"]
  /\ pc' = [pc EXCEPT ![c] = "receipt"]
  /\ UNCHANGED <<who, job, cand, sats, charge, nonces, pending, degraded, recovery, world>>

StripeVoids(c) ==
  /\ pc[c] \in {"releasing", "failing"} /\ hold[job[c]] = "held"
  /\ hold' = [hold EXCEPT ![job[c]] = "voided"]
  /\ UNCHANGED <<handlers, nonces, pending, ledger, cred, mandates, degraded, recovery, stale, wallet, read, crashes>>

(* Bug: the void is not awaited. *)
ReleasedEarly(c) ==
  /\ pc[c] = "releasing"
  /\ pc' = [pc EXCEPT ![c] = "free"]
  /\ UNCHANGED <<who, job, cand, sats, charge, nonces, pending, ledger, cred, mandates, degraded, recovery, world>>

Released(c) ==
  /\ pc[c] = "releasing" /\ hold[job[c]] = "voided"
  /\ pc' = [pc EXCEPT ![c] = "free"]
  /\ UNCHANGED <<who, job, cand, sats, charge, nonces, pending, ledger, cred, mandates, degraded, recovery, world>>

(* Voided after a failed redemption: degrade the candidate, book the loss.
   The attempt counter of the credential is left out: nothing reads it. *)
Failed(c) ==
  /\ pc[c] = "failing" /\ hold[job[c]] = "voided"
  /\ degraded' = degraded \union {cand[job[c]]}
  /\ RecordDelivery(job[c], "no")
  /\ pc' = [pc EXCEPT ![c] = "free"]
  /\ UNCHANGED <<who, job, cand, sats, charge, nonces, pending, cred, mandates, recovery, world>>

(* Bug: an error of the void is swallowed and never answered. *)
VoidErrorSwallowed(c) ==
  /\ pc[c] \in {"authorizing", "capturing"}
  /\ pc' = [pc EXCEPT ![c] = "thrown"]
  /\ UNCHANGED <<who, job, cand, sats, charge, nonces, pending, ledger, cred, mandates, degraded, recovery, world>>

(* Stripe's reply is an error or is lost: the exception leaves the handler. *)
StripeThrew(c) ==
  /\ pc[c] \in {"authorizing", "capturing", "releasing", "failing"}
  /\ pc' = [pc EXCEPT ![c] = "thrown"]
  /\ UNCHANGED <<who, job, cand, sats, charge, nonces, pending, ledger, cred, mandates, degraded, recovery, world>>

----------------------------------------------------------------------------
(* The recovery pass *)

(* Bug: a job whose loss is booked counts as closed. *)
UnredeemedOpen == {j \in Calls : cred[j] = "unredeemed" /\ ledger[j] # "no"}

Unredeemed == {j \in Calls : cred[j] = "unredeemed"}

(* The interval fires; a pass in flight is never overlapped. The snapshot is
   every row with redeemed = 0. Their order is left open. *)
RecoveryTick(j) ==
  /\ RecoveryOn /\ retrying = Nobody
  /\ j \in Unredeemed
  /\ retrying' = j
  /\ rest' = Unredeemed \ {j}
  /\ UNCHANGED <<handlers, nonces, pending, ledger, cred, mandates, degraded, world>>

(* The for loop moves on, or the pass ends and `running` is cleared. *)
NextRow ==
  \/ rest = {} /\ retrying' = Nobody /\ rest' = {}
  \/ \E k \in rest : retrying' = k /\ rest' = rest \ {k}

RecoveryDelivered ==
  /\ retrying # Nobody
  /\ cred' = [cred EXCEPT ![retrying] = "redeemed"]
  /\ RecordDelivery(retrying, "yes")
  /\ NextRow
  /\ UNCHANGED <<handlers, nonces, pending, mandates, degraded, world>>

(* Bug: a failed retry books the loss too. *)
RecoveryBooksLoss ==
  /\ retrying # Nobody
  /\ RecordDelivery(retrying, "no")
  /\ NextRow
  /\ UNCHANGED <<handlers, nonces, pending, cred, mandates, degraded, world>>

RecoveryFailed ==
  /\ retrying # Nobody
  /\ NextRow
  /\ UNCHANGED <<handlers, nonces, pending, ledger, cred, mandates, degraded, world>>

----------------------------------------------------------------------------
(* Time and failure *)

BlobExpires(j) ==
  /\ pc[j] = "consent" /\ j \notin stale
  /\ stale' = stale \union {j}
  /\ UNCHANGED <<handlers, nonces, pending, ledger, cred, mandates, degraded, recovery, hold, wallet, read, crashes>>

MandateExpires(p) ==
  /\ mandates[p].live
  /\ mandates' = [mandates EXCEPT ![p].live = FALSE]
  /\ UNCHANGED <<handlers, nonces, pending, ledger, cred, degraded, recovery, world>>

(* The process dies and comes back with what router.db holds. *)
Crash ==
  /\ crashes < MaxCrashes
  /\ crashes' = crashes + 1
  /\ pc' = [c \in Calls |-> IF pc[c] \in Live THEN "dropped" ELSE pc[c]]
  /\ retrying' = Nobody /\ rest' = {}
  /\ UNCHANGED <<who, job, cand, sats, charge, nonces, pending, ledger, cred, mandates, degraded, stale, hold, wallet, read>>

----------------------------------------------------------------------------

Stripe(c) == StripeHolds(c) \/ StripeCaptures(c) \/ StripeVoids(c)

Handle(c) ==
  \/ \E s \in Quotes, u \in Charges : Quoted(c, s, u)
  \/ QuoteFailed(c)
  \/ Authorized(c)
  \/ Settled(c) \/ PayThrew(c)
  \/ RedeemAnswered(c) \/ RedeemFailed(c) \/ BodyRead(c) \/ BodyThrew(c)
  \/ Captured(c) \/ Released(c) \/ Failed(c) \/ StripeThrew(c)

Arrive(c) ==
  \/ \E p \in Principals, k \in Candidates : ColdCall(c, p, k)
  \/ \E p \in Principals, j \in Calls :
       \/ \E b \in Budgets \union {0} : RetryApproved(c, p, j, b)
       \/ RetryDeclined(c, p, j)
       \/ RetryRejected(c, p, j)

Recover == (\E j \in Calls : RecoveryTick(j)) \/ RecoveryDelivered \/ RecoveryFailed

Next ==
  \/ \E c \in Calls : Arrive(c) \/ Handle(c) \/ Stripe(c)
  \/ \E c \in Calls, f \in Fees : WalletPays(c, f)
  \/ Recover
  \/ \E j \in Calls : BlobExpires(j)
  \/ \E p \in Principals : MandateExpires(p)
  \/ Crash

Spec == Init /\ [][Next]_vars

(* Every await of a handler ends: the calls it makes carry timeouts, and their
   errors are answers. Stripe and the wallet owe nothing. *)
Served == \A c \in Calls : WF_vars(Handle(c))

(* The interval keeps firing and a retry ends (timeoutMs). *)
Ticking == WF_vars(\E j \in Calls : RecoveryTick(j)) /\ WF_vars(RecoveryDelivered \/ RecoveryFailed)

(* A provider asked again and again comes back: an assumption on the world. *)
ProvidersRecover == \A j \in Calls : SF_vars(retrying = j /\ RecoveryDelivered)

FairSpec == Spec /\ Served /\ Ticking /\ ProvidersRecover

----------------------------------------------------------------------------
(* What holds *)

(* No two calls ever execute the same job, whatever retries arrive, expire or
   are replayed: a second one would void a hold under a running settlement. *)
SingleExecution ==
  \A c, d \in Calls : pc[c] \in Executing /\ pc[d] \in Executing /\ job[c] = job[d] => c = d

(* A captured card is backed: the result was read, the credential is kept and
   the outflow is in the ledger ("You are charged only when the result is
   delivered"). *)
ChargeIsBacked ==
  \A j \in Calls : hold[j] = "captured" =>
    j \in read /\ cred[j] # "none" /\ (MockPinned \/ ledger[j] # "none")

(* Every answer that says "you were charged $0" after a void is true, and
   stays true while retries and recoveries of the same job go on. *)
ToldFreeIsFree == \A c \in Calls : pc[c] = "free" => hold[job[c]] = "voided"

(* A job booked as a loss was not charged, and its candidate is out of the
   running: the void comes before both writes. *)
LossIsClosed ==
  \A j \in Calls : ledger[j] = "no" => hold[j] = "voided" /\ cand[j] \in degraded

(* Once the agent has its receipt the ledger says delivered, the credential is
   redeemed and the card is charged, whatever the recovery pass does later
   with a stale snapshot. *)
ReceiptStands ==
  \A c \in Calls : pc[c] = "receipt" =>
    /\ hold[job[c]] = "captured" /\ cred[job[c]] = "redeemed"
    /\ MockPinned \/ ledger[job[c]] = "yes"

(* A standing budget is debited for captured jobs of its principal alone. *)
CapturedOf(p) == {j \in Calls : who[j] = p /\ hold[j] = "captured"}
BudgetPaysForCaptured ==
  \A p \in Principals : mandates[p].spent <= SumOver(charge, CapturedOf(p))

(* Sats leave for a job that asked for consent only after one retry of the
   same principal claimed the nonce and took the pending row. *)
PaidWithConsent ==
  \A j \in Calls : pc[j] = "consent" /\ wallet[j] > 0 =>
    /\ j \in nonces \ pending
    /\ \E c \in Calls \ {j} : job[c] = j /\ who[c] = who[j]

(* Every request in flight gets an answer, or dies with the process. *)
Answered == \A c \in Calls : pc[c] \in Live ~> pc[c] \in Answers

(* A credential the router paid for is redeemed in the end, across crashes,
   failed deliveries and failed passes. *)
Recovered == \A j \in Calls : cred[j] = "unredeemed" ~> cred[j] = "redeemed"

(* The router keeps the promise of PaidDelivery. *)
Promise == INSTANCE PaidDelivery WITH
  Jobs <- Calls, money <- hold, bought <- {j \in Calls : cred[j] # "none"}, result <- read
KeepsPromise == Promise!Spec

----------------------------------------------------------------------------
(* The inductive invariant: which job a call may work on, what a job looks
   like before anything executes it, and what each await of executeJob may
   assume about the hold, the credential and the result. *)

(* A call works on its own job or on one whose consent was handed out. *)
JobNamed ==
  \A c \in Calls :
    /\ pc[c] = "idle" => job[c] = Nobody
    /\ pc[c] # "idle" => job[c] \in Calls /\ who[c] \in Principals
    /\ pc[c] \in {"quoting", "authorizing", "consent"} => job[c] = c
    /\ job[c] = c => cand[c] \in Candidates
    /\ job[c] \notin {c, Nobody} => pc[job[c]] = "consent"

(* Nothing has executed the job: it is still in its cold call, or its
   consent has not been used. *)
Ready(j) == pc[j] \in {"idle", "quoting", "authorizing"} \/ (pc[j] = "consent" /\ j \notin nonces)

ReadyIsClean ==
  \A j \in Calls :
    /\ Ready(j) => cred[j] = "none" /\ ledger[j] = "none" /\ wallet[j] = 0 /\ j \notin read
    /\ pc[j] \in {"idle", "quoting"} => hold[j] = "none"
    /\ pc[j] = "authorizing" => hold[j] \in {"none", "held"}
    /\ pc[j] = "consent" /\ j \notin nonces => hold[j] = "held"

(* A retry at work holds the nonce; one that settles took the pending row. *)
RetryClaimed ==
  \A c \in Calls : job[c] # c =>
    /\ pc[c] \in Executing => job[c] \in nonces
    /\ pc[c] = "settling" => job[c] \notin pending /\ who[c] = who[job[c]]

(* What each await of an execution finds. *)
StageOK ==
  \A c \in Calls :
    /\ pc[c] = "settling" =>
         hold[job[c]] = "held" /\ cred[job[c]] = "none" /\ ledger[job[c]] = "none" /\ job[c] \notin read
    /\ pc[c] \in {"redeeming", "reading"} =>
         hold[job[c]] = "held" /\ cred[job[c]] # "none" /\ job[c] \notin read
    /\ pc[c] = "capturing" =>
         hold[job[c]] \in {"held", "captured"} /\ cred[job[c]] # "none" /\ job[c] \in read
    /\ pc[c] \in {"releasing", "failing"} =>
         hold[job[c]] \in {"held", "voided"} /\ job[c] \notin read

(* What was bought is on disk, and only what was bought is charged. *)
AssetsKept ==
  \A j \in Calls :
    /\ hold[j] = "captured" => j \in read
    /\ j \in read => cred[j] # "none"
    /\ cred[j] # "none" => MockPinned \/ ledger[j] # "none"

RecoveryOwns == \A j \in rest \union ({retrying} \ {Nobody}) : cred[j] # "none"

IInv ==
  /\ TypeOK
  /\ JobNamed /\ ReadyIsClean /\ RetryClaimed /\ StageOK /\ AssetsKept /\ RecoveryOwns
  /\ SingleExecution /\ ToldFreeIsFree /\ LossIsClosed /\ ReceiptStands /\ PaidWithConsent

----------------------------------------------------------------------------
(* What the repository says and the code does not do *)

(* guards.ts and ledger.ts: the cap is cumulative and counts in-flight jobs. *)
SpendCap == TotalSpent <= MaxTotalSats

(* golem-http.ts: a payment that may have left is an outflow for the ledger. *)
OutflowBooked ==
  \A c \in Calls : pc[c] = "free" /\ wallet[job[c]] > 0 => ledger[job[c]] # "none"

(* NOTES.md: redeems of one credential do not run in parallel. *)
NoParallelRedeem == \A c \in Calls : ~(pc[c] = "redeeming" /\ retrying = job[c])

(* credentials.ts: a recovery repairs the ledger row, the loss goes to zero. *)
RecoveryRepairs == [][\A j \in Calls : ledger[j] = "yes" => ledger'[j] = "yes"]_vars

(* invoke.ts: any failure past executeJob's head voids the hold. *)
FailureVoids == \A c \in Calls : pc[c] = "unread" => hold[job[c]] = "voided"

(* invoke.ts: every failure after authorization voids the hold. *)
ExpiryVoids ==
  \A c \in Calls : pc[c] = "expired" /\ job[c] \notin nonces => hold[job[c]] = "voided"

(* invoke.ts: a mandated call is one the standing budget covers. *)
MandatedOf(p) == {c \in Calls : pc[c] = "receipt" /\ Mandated(c) /\ who[c] = p}
MandatedWithinBudget ==
  \A p \in Principals : SumOver(charge, MandatedOf(p)) <= mandates[p].budget
============================================================================
