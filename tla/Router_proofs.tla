--------------------------- MODULE Router_proofs ---------------------------
(***************************************************************************)
(* Proofs about Router, for any number of calls, principals and candidates *)
(* and any limits.  IInv is inductive: one lemma for each of its parts,    *)
(* with a step for every action that disturbs the part.  The theorems at   *)
(* the end read the properties of Router off IInv and show that every step *)
(* is a step of PaidDelivery or leaves its state alone.                    *)
(***************************************************************************)
EXTENDS Router, SumLemmas

(* Every variable keeps its type. JobNamed supplies that a call at work has
   a job, a principal and a candidate. *)
LEMMA TypePreserved ==
  ASSUME TypeOK, JobNamed, [Next]_vars
  PROVE  TypeOK'
<1> USE CallsAssumption, LimitsAssumption DEF TypeOK, JobNamed, Live, Answers, Executing,
      Mandated, handlers, recovery, world
<1>1. ASSUME NEW c \in Calls, NEW p \in Principals, NEW k \in Candidates,
             ColdCall(c, p, k)
      PROVE  TypeOK'
  BY <1>1 DEF ColdCall
<1>2. ASSUME NEW c \in Calls, NEW s \in Quotes, NEW u \in Charges,
             Quoted(c, s, u)
      PROVE  TypeOK'
  BY <1>2 DEF Quoted
<1>3. ASSUME NEW c \in Calls,
             QuoteFailed(c)
      PROVE  TypeOK'
  BY <1>3 DEF QuoteFailed
<1>4. ASSUME NEW c \in Calls,
             StripeHolds(c)
      PROVE  TypeOK'
  BY <1>4 DEF StripeHolds
<1>5. ASSUME NEW c \in Calls,
             Authorized(c)
      PROVE  TypeOK'
  BY <1>5 DEF Authorized, Start
<1>6. ASSUME NEW c \in Calls, NEW p \in Principals, NEW j \in Calls,
             NEW b \in Budgets \union {0},
             RetryApproved(c, p, j, b)
      PROVE  TypeOK'
  BY <1>6 DEF RetryApproved, Start, VerifyState
<1>7. ASSUME NEW c \in Calls, NEW p \in Principals, NEW j \in Calls,
             RetryDeclined(c, p, j)
      PROVE  TypeOK'
  BY <1>7 DEF RetryDeclined, VerifyState
<1>8. ASSUME NEW c \in Calls, NEW p \in Principals, NEW j \in Calls,
             RetryRejected(c, p, j)
      PROVE  TypeOK'
  BY <1>8 DEF RetryRejected
<1>9. ASSUME NEW c \in Calls, NEW f \in Fees,
             WalletPays(c, f)
      PROVE  TypeOK'
  BY <1>9 DEF WalletPays
<1>10. ASSUME NEW c \in Calls,
             Settled(c)
      PROVE  TypeOK'
  BY <1>10 DEF Settled
<1>11. ASSUME NEW c \in Calls,
             PayThrew(c)
      PROVE  TypeOK'
  BY <1>11 DEF PayThrew
<1>12. ASSUME NEW c \in Calls,
             RedeemAnswered(c)
      PROVE  TypeOK'
  BY <1>12 DEF RedeemAnswered
<1>13. ASSUME NEW c \in Calls,
             RedeemFailed(c)
      PROVE  TypeOK'
  BY <1>13 DEF RedeemFailed
<1>14. ASSUME NEW c \in Calls,
             BodyRead(c)
      PROVE  TypeOK'
  BY <1>14 DEF BodyRead
<1>15. ASSUME NEW c \in Calls,
             BodyThrew(c)
      PROVE  TypeOK'
  BY <1>15 DEF BodyThrew
<1>16. ASSUME NEW c \in Calls,
             StripeCaptures(c)
      PROVE  TypeOK'
  BY <1>16 DEF StripeCaptures
<1>17. ASSUME NEW c \in Calls,
             Captured(c)
      PROVE  TypeOK'
  BY <1>17 DEF Captured, RecordDelivery, Debited
<1>18. ASSUME NEW c \in Calls,
             StripeVoids(c)
      PROVE  TypeOK'
  BY <1>18 DEF StripeVoids
<1>19. ASSUME NEW c \in Calls,
             Released(c)
      PROVE  TypeOK'
  BY <1>19 DEF Released
<1>20. ASSUME NEW c \in Calls,
             Failed(c)
      PROVE  TypeOK'
  BY <1>20 DEF Failed, RecordDelivery
<1>21. ASSUME NEW c \in Calls,
             StripeThrew(c)
      PROVE  TypeOK'
  BY <1>21 DEF StripeThrew
<1>22. ASSUME NEW j \in Calls,
             RecoveryTick(j)
      PROVE  TypeOK'
  BY <1>22 DEF RecoveryTick, Unredeemed
<1>23. CASE RecoveryDelivered
  BY <1>23 DEF RecoveryDelivered, RecordDelivery, NextRow
<1>24. CASE RecoveryFailed
  BY <1>24 DEF RecoveryFailed, NextRow
<1>25. ASSUME NEW j \in Calls,
             BlobExpires(j)
      PROVE  TypeOK'
  BY <1>25 DEF BlobExpires
<1>26. ASSUME NEW p \in Principals,
             MandateExpires(p)
      PROVE  TypeOK'
  <2>1. mandates' \in [Principals -> [budget : Nat, spent : Nat, live : BOOLEAN]]
    <3>1. mandates[p] \in [budget : Nat, spent : Nat, live : BOOLEAN]
      OBVIOUS
    <3>2. [mandates[p] EXCEPT !.live = FALSE] \in [budget : Nat, spent : Nat, live : BOOLEAN]
      BY <3>1
    <3> QED
      BY <1>26, <3>2 DEF MandateExpires
  <2> QED
    BY <1>26, <2>1 DEF MandateExpires
<1>27. CASE Crash
  <2>1. crashes' \in 0..MaxCrashes
    BY <1>27 DEF Crash
  <2>2. pc' \in [Calls -> {"idle"} \union Live \union Answers]
    BY <1>27 DEF Crash
  <2> QED
    BY <1>27, <2>1, <2>2 DEF Crash
<1>28. CASE UNCHANGED vars
  BY <1>28 DEF vars
<1> HIDE DEF TypeOK, JobNamed, Live, Answers, Executing, Mandated, handlers, recovery, world
<1> QED
  BY <1>1, <1>2, <1>3, <1>4, <1>5, <1>6, <1>7, <1>8, <1>9, <1>10, <1>11, <1>12, <1>13,
        <1>14, <1>15, <1>16, <1>17, <1>18, <1>19, <1>20, <1>21, <1>22, <1>23, <1>24, <1>25,
        <1>26, <1>27, <1>28
  DEF Next, Arrive, Handle, Stripe, Recover

(* A call never works on a job that is neither its own nor one handed out
   for consent. *)
LEMMA JobNamedPreserved ==
  ASSUME TypeOK, JobNamed, [Next]_vars
  PROVE  JobNamed'
<1> USE CallsAssumption, LimitsAssumption DEF TypeOK, JobNamed, Live, Answers, Executing,
      Mandated, handlers, recovery, world
<1>1. ASSUME NEW c \in Calls, NEW p \in Principals, NEW k \in Candidates,
             ColdCall(c, p, k)
      PROVE  JobNamed'
  BY <1>1 DEF ColdCall
<1>2. ASSUME NEW c \in Calls, NEW p \in Principals, NEW j \in Calls,
             NEW b \in Budgets \union {0},
             RetryApproved(c, p, j, b)
      PROVE  JobNamed'
  BY <1>2 DEF RetryApproved, Start, VerifyState
<1>3. ASSUME NEW c \in Calls, NEW p \in Principals, NEW j \in Calls,
             RetryDeclined(c, p, j)
      PROVE  JobNamed'
  BY <1>3 DEF RetryDeclined, VerifyState
<1>4. ASSUME NEW c \in Calls, NEW p \in Principals, NEW j \in Calls,
             RetryRejected(c, p, j)
      PROVE  JobNamed'
  BY <1>4 DEF RetryRejected
<1>5. ASSUME NEW c \in Calls,
             Authorized(c)
      PROVE  JobNamed'
  BY <1>5 DEF Authorized, Start
<1>6. CASE Crash
  BY <1>6 DEF Crash
<1> QED
  BY SMTT(120), <1>1, <1>2, <1>3, <1>4, <1>5, <1>6
  DEF Next, Arrive, Handle, Stripe, Recover, vars, Quoted, QuoteFailed, StripeHolds,
         WalletPays, Settled, PayThrew, RedeemAnswered, RedeemFailed, BodyRead, BodyThrew,
         StripeCaptures, Captured, StripeVoids, Released, Failed, StripeThrew, RecoveryTick,
         RecoveryDelivered, RecoveryFailed, BlobExpires, MandateExpires, RecordDelivery,
         Debited, Unredeemed, NextRow

(* A job nothing has executed stays untouched: whoever settles, reads or
   voids for it executes it, and then it is no longer ready. *)
LEMMA ReadyIsCleanPreserved ==
  ASSUME TypeOK, ReadyIsClean, JobNamed, RetryClaimed, StageOK, RecoveryOwns, [Next]_vars
  PROVE  ReadyIsClean'
<1> USE CallsAssumption, LimitsAssumption DEF TypeOK, ReadyIsClean, JobNamed, RetryClaimed,
      StageOK, RecoveryOwns, Ready, Live, Answers, Executing, Mandated, handlers, recovery,
      world
<1>1. ASSUME NEW c \in Calls,
             StripeHolds(c)
      PROVE  ReadyIsClean'
  BY <1>1 DEF StripeHolds
<1>2. ASSUME NEW c \in Calls,
             Authorized(c)
      PROVE  ReadyIsClean'
  BY <1>2 DEF Authorized, Start
<1>3. ASSUME NEW c \in Calls, NEW f \in Fees,
             WalletPays(c, f)
      PROVE  ReadyIsClean'
  BY <1>3 DEF WalletPays
<1>4. ASSUME NEW c \in Calls,
             Settled(c)
      PROVE  ReadyIsClean'
  BY <1>4 DEF Settled
<1>5. ASSUME NEW c \in Calls,
             BodyRead(c)
      PROVE  ReadyIsClean'
  BY <1>5 DEF BodyRead
<1>6. ASSUME NEW c \in Calls,
             StripeCaptures(c)
      PROVE  ReadyIsClean'
  BY <1>6 DEF StripeCaptures
<1>7. ASSUME NEW c \in Calls,
             Captured(c)
      PROVE  ReadyIsClean'
  BY <1>7 DEF Captured, RecordDelivery, Debited
<1>8. ASSUME NEW c \in Calls,
             StripeVoids(c)
      PROVE  ReadyIsClean'
  BY <1>8 DEF StripeVoids
<1>9. ASSUME NEW c \in Calls,
             Failed(c)
      PROVE  ReadyIsClean'
  BY <1>9 DEF Failed, RecordDelivery
<1>10. CASE RecoveryDelivered
  BY <1>10 DEF RecoveryDelivered, RecordDelivery, NextRow
<1> QED
  BY SMTT(120), <1>1, <1>2, <1>3, <1>4, <1>5, <1>6, <1>7, <1>8, <1>9, <1>10
  DEF Next, Arrive, Handle, Stripe, Recover, vars, ColdCall, Quoted, QuoteFailed,
         RetryApproved, RetryDeclined, RetryRejected, PayThrew, RedeemAnswered,
         RedeemFailed, BodyThrew, Released, StripeThrew, RecoveryTick, RecoveryFailed,
         BlobExpires, MandateExpires, Crash, Start, VerifyState, Unredeemed, NextRow

(* A retry executes only after claiming the nonce and, to settle, taking
   the pending row. *)
LEMMA RetryClaimedPreserved ==
  ASSUME TypeOK, RetryClaimed, JobNamed, [Next]_vars
  PROVE  RetryClaimed'
<1> USE CallsAssumption, LimitsAssumption DEF TypeOK, RetryClaimed, JobNamed, Live, Answers,
      Executing, Mandated, handlers, recovery, world
<1>1. ASSUME NEW c \in Calls, NEW p \in Principals, NEW k \in Candidates,
             ColdCall(c, p, k)
      PROVE  RetryClaimed'
  BY <1>1 DEF ColdCall
<1>2. ASSUME NEW c \in Calls,
             Authorized(c)
      PROVE  RetryClaimed'
  BY <1>2 DEF Authorized, Start
<1>3. ASSUME NEW c \in Calls, NEW p \in Principals, NEW j \in Calls,
             NEW b \in Budgets \union {0},
             RetryApproved(c, p, j, b)
      PROVE  RetryClaimed'
  BY <1>3 DEF RetryApproved, Start, VerifyState
<1>4. ASSUME NEW c \in Calls, NEW p \in Principals, NEW j \in Calls,
             RetryDeclined(c, p, j)
      PROVE  RetryClaimed'
  BY <1>4 DEF RetryDeclined, VerifyState
<1>5. ASSUME NEW c \in Calls, NEW p \in Principals, NEW j \in Calls,
             RetryRejected(c, p, j)
      PROVE  RetryClaimed'
  BY <1>5 DEF RetryRejected
<1>6. CASE Crash
  BY <1>6 DEF Crash
<1>7. ASSUME NEW c \in Calls,
             QuoteFailed(c) \/ Settled(c) \/ PayThrew(c) \/ RedeemAnswered(c) \/
                   RedeemFailed(c) \/ BodyRead(c) \/ BodyThrew(c) \/ Captured(c) \/
                   Released(c) \/ Failed(c) \/ StripeThrew(c)
      PROVE  RetryClaimed'
  BY <1>7 DEF QuoteFailed, Settled, PayThrew, RedeemAnswered, RedeemFailed, BodyRead,
         BodyThrew, Captured, Released, Failed, StripeThrew, RecordDelivery, Debited
<1> QED
  BY SMTT(30), <1>1, <1>2, <1>3, <1>4, <1>5, <1>6, <1>7
  DEF Next, Arrive, Handle, Stripe, Recover, vars, Quoted, StripeHolds, WalletPays,
         StripeCaptures, StripeVoids, RecoveryTick, RecoveryDelivered, RecoveryFailed,
         BlobExpires, MandateExpires, Unredeemed, RecordDelivery, NextRow

(* Each await of an execution finds the hold, the credential and the result
   where the execution left them: no other call executes the job, and
   recovery touches only what is bought. *)
LEMMA StageOKPreserved ==
  ASSUME TypeOK, StageOK, JobNamed, ReadyIsClean, RetryClaimed, AssetsKept, RecoveryOwns,
        SingleExecution, [Next]_vars
  PROVE  StageOK'
<1> USE CallsAssumption, LimitsAssumption DEF TypeOK, StageOK, JobNamed, ReadyIsClean,
      RetryClaimed, AssetsKept, RecoveryOwns, SingleExecution, Ready, Live, Answers,
      Executing, Mandated, handlers, recovery, world
<1>1. ASSUME NEW c \in Calls,
             Authorized(c)
      PROVE  StageOK'
  BY <1>1 DEF Authorized, Start
<1>2. ASSUME NEW c \in Calls, NEW p \in Principals, NEW j \in Calls,
             NEW b \in Budgets \union {0},
             RetryApproved(c, p, j, b)
      PROVE  StageOK'
  BY <1>2 DEF RetryApproved, Start, VerifyState
<1>3. ASSUME NEW c \in Calls, NEW p \in Principals, NEW j \in Calls,
             RetryDeclined(c, p, j)
      PROVE  StageOK'
  BY <1>3 DEF RetryDeclined, VerifyState
<1>4. ASSUME NEW c \in Calls,
             StripeHolds(c)
      PROVE  StageOK'
  BY <1>4 DEF StripeHolds
<1>5. ASSUME NEW c \in Calls,
             Settled(c)
      PROVE  StageOK'
  BY <1>5 DEF Settled
<1>6. ASSUME NEW c \in Calls,
             BodyRead(c)
      PROVE  StageOK'
  BY <1>6 DEF BodyRead
<1>7. ASSUME NEW c \in Calls,
             StripeCaptures(c)
      PROVE  StageOK'
  BY <1>7 DEF StripeCaptures
<1>8. ASSUME NEW c \in Calls,
             Captured(c)
      PROVE  StageOK'
  BY <1>8 DEF Captured, RecordDelivery, Debited
<1>9. ASSUME NEW c \in Calls,
             StripeVoids(c)
      PROVE  StageOK'
  BY <1>9 DEF StripeVoids
<1>10. ASSUME NEW c \in Calls,
             Failed(c)
      PROVE  StageOK'
  BY <1>10 DEF Failed, RecordDelivery
<1>11. CASE RecoveryDelivered
  BY <1>11 DEF RecoveryDelivered, RecordDelivery, NextRow
<1>12. ASSUME NEW c \in Calls, NEW p \in Principals, NEW k \in Candidates,
              ColdCall(c, p, k)
      PROVE  StageOK'
  BY <1>12 DEF ColdCall
<1>13. ASSUME NEW c \in Calls, NEW s \in Quotes, NEW u \in Charges,
              Quoted(c, s, u)
      PROVE  StageOK'
  BY <1>13 DEF Quoted
<1>14. ASSUME NEW c \in Calls,
              QuoteFailed(c) \/ PayThrew(c) \/ RedeemAnswered(c) \/ RedeemFailed(c)
                \/ BodyThrew(c) \/ Released(c) \/ StripeThrew(c)
      PROVE  StageOK'
  BY <1>14 DEF QuoteFailed, PayThrew, RedeemAnswered, RedeemFailed, BodyThrew, Released, StripeThrew
<1>15. ASSUME NEW c \in Calls, NEW p \in Principals, NEW j \in Calls,
              RetryRejected(c, p, j)
      PROVE  StageOK'
  BY <1>15 DEF RetryRejected, VerifyState
<1>16. ASSUME NEW c \in Calls, NEW f \in Fees,
              WalletPays(c, f)
      PROVE  StageOK'
  BY <1>16 DEF WalletPays
<1>17. ASSUME NEW j \in Calls,
              RecoveryTick(j) \/ BlobExpires(j)
      PROVE  StageOK'
  BY <1>17 DEF RecoveryTick, BlobExpires, Unredeemed
<1>18. ASSUME NEW p \in Principals,
              MandateExpires(p)
      PROVE  StageOK'
  BY <1>18 DEF MandateExpires
<1>19. CASE RecoveryFailed
  BY <1>19 DEF RecoveryFailed, NextRow
<1>20. CASE Crash
  BY <1>20 DEF Crash
<1>21. CASE UNCHANGED vars
  BY <1>21 DEF vars
<1> HIDE DEF TypeOK, StageOK, JobNamed, ReadyIsClean, RetryClaimed, AssetsKept, RecoveryOwns,
      SingleExecution, Ready
<1> QED
  BY <1>1, <1>2, <1>3, <1>4, <1>5, <1>6, <1>7, <1>8, <1>9, <1>10, <1>11, <1>12, <1>13, <1>14,
     <1>15, <1>16, <1>17, <1>18, <1>19, <1>20, <1>21 DEF Next, Arrive, Handle, Stripe, Recover

(* What is charged was read, what was read was bought, what was bought is
   on disk. *)
LEMMA AssetsKeptPreserved ==
  ASSUME TypeOK, AssetsKept, JobNamed, ReadyIsClean, StageOK, RecoveryOwns, [Next]_vars
  PROVE  AssetsKept'
<1> USE CallsAssumption, LimitsAssumption DEF TypeOK, AssetsKept, JobNamed, ReadyIsClean,
      StageOK, RecoveryOwns, Ready, Live, Answers, Executing, Mandated, handlers, recovery,
      world
<1>1. ASSUME NEW c \in Calls,
             Settled(c)
      PROVE  AssetsKept'
  BY <1>1 DEF Settled
<1>2. ASSUME NEW c \in Calls,
             BodyRead(c)
      PROVE  AssetsKept'
  BY <1>2 DEF BodyRead
<1>3. ASSUME NEW c \in Calls,
             StripeCaptures(c)
      PROVE  AssetsKept'
  BY <1>3 DEF StripeCaptures
<1>4. ASSUME NEW c \in Calls,
             StripeVoids(c)
      PROVE  AssetsKept'
  BY <1>4 DEF StripeVoids
<1>5. ASSUME NEW c \in Calls,
             Captured(c)
      PROVE  AssetsKept'
  BY <1>5 DEF Captured, RecordDelivery, Debited
<1>6. ASSUME NEW c \in Calls,
             Failed(c)
      PROVE  AssetsKept'
  BY <1>6 DEF Failed, RecordDelivery
<1>7. CASE RecoveryDelivered
  BY <1>7 DEF RecoveryDelivered, RecordDelivery, NextRow
<1> QED
  BY SMTT(30), <1>1, <1>2, <1>3, <1>4, <1>5, <1>6, <1>7
  DEF Next, Arrive, Handle, Stripe, Recover, vars, ColdCall, Quoted, QuoteFailed,
         StripeHolds, Authorized, RetryApproved, RetryDeclined, RetryRejected, WalletPays,
         PayThrew, RedeemAnswered, RedeemFailed, BodyThrew, Released, StripeThrew,
         RecoveryTick, RecoveryFailed, BlobExpires, MandateExpires, Crash, Start,
         VerifyState, Unredeemed, NextRow

(* The recovery pass works on bought credentials alone. *)
LEMMA RecoveryOwnsPreserved ==
  ASSUME TypeOK, RecoveryOwns, [Next]_vars
  PROVE  RecoveryOwns'
<1> USE CallsAssumption, LimitsAssumption DEF TypeOK, RecoveryOwns, Live, Answers,
      Executing, Mandated, handlers, recovery, world
<1>1. ASSUME NEW j \in Calls,
             RecoveryTick(j)
      PROVE  RecoveryOwns'
  BY <1>1 DEF RecoveryTick, Unredeemed
<1>2. CASE RecoveryDelivered
  BY <1>2 DEF RecoveryDelivered, RecordDelivery, NextRow
<1>3. CASE RecoveryFailed
  BY <1>3 DEF RecoveryFailed, NextRow
<1>4. ASSUME NEW c \in Calls,
             Settled(c)
      PROVE  RecoveryOwns'
  BY <1>4 DEF Settled
<1>5. ASSUME NEW c \in Calls,
             Captured(c)
      PROVE  RecoveryOwns'
  BY <1>5 DEF Captured, RecordDelivery, Debited
<1> QED
  BY SMTT(30), <1>1, <1>2, <1>3, <1>4, <1>5
  DEF Next, Arrive, Handle, Stripe, Recover, vars, ColdCall, Quoted, QuoteFailed,
         StripeHolds, Authorized, RetryApproved, RetryDeclined, RetryRejected, WalletPays,
         PayThrew, RedeemAnswered, RedeemFailed, BodyRead, BodyThrew, StripeCaptures,
         StripeVoids, Released, Failed, StripeThrew, BlobExpires, MandateExpires, Crash,
         Start, VerifyState, RecordDelivery

(* No two calls execute the same job: the nonce admits one retry, and a
   cold call that executes never hands out consent. *)
LEMMA SingleExecutionPreserved ==
  ASSUME TypeOK, SingleExecution, JobNamed, RetryClaimed, [Next]_vars
  PROVE  SingleExecution'
<1> USE CallsAssumption, LimitsAssumption DEF TypeOK, SingleExecution, JobNamed,
      RetryClaimed, Live, Answers, Executing, Mandated, handlers, recovery, world
<1>1. ASSUME NEW c \in Calls, NEW p \in Principals, NEW k \in Candidates,
             ColdCall(c, p, k)
      PROVE  SingleExecution'
  BY <1>1 DEF ColdCall
<1>2. ASSUME NEW c \in Calls,
             Authorized(c)
      PROVE  SingleExecution'
  BY <1>2 DEF Authorized, Start
<1>3. ASSUME NEW c \in Calls, NEW p \in Principals, NEW j \in Calls,
             NEW b \in Budgets \union {0},
             RetryApproved(c, p, j, b)
      PROVE  SingleExecution'
  BY <1>3 DEF RetryApproved, Start, VerifyState
<1>4. ASSUME NEW c \in Calls, NEW p \in Principals, NEW j \in Calls,
             RetryDeclined(c, p, j)
      PROVE  SingleExecution'
  BY <1>4 DEF RetryDeclined, VerifyState
<1>5. ASSUME NEW c \in Calls, NEW p \in Principals, NEW j \in Calls,
             RetryRejected(c, p, j)
      PROVE  SingleExecution'
  BY <1>5 DEF RetryRejected
<1>6. CASE Crash
  BY <1>6 DEF Crash
<1>7. ASSUME NEW c \in Calls,
             QuoteFailed(c) \/ Settled(c) \/ PayThrew(c) \/ RedeemAnswered(c) \/
                   RedeemFailed(c) \/ BodyRead(c) \/ BodyThrew(c) \/ Captured(c) \/
                   Released(c) \/ Failed(c) \/ StripeThrew(c)
      PROVE  SingleExecution'
  BY <1>7 DEF QuoteFailed, Settled, PayThrew, RedeemAnswered, RedeemFailed, BodyRead,
         BodyThrew, Captured, Released, Failed, StripeThrew, RecordDelivery, Debited
<1> QED
  BY SMTT(30), <1>1, <1>2, <1>3, <1>4, <1>5, <1>6, <1>7
  DEF Next, Arrive, Handle, Stripe, Recover, vars, Quoted, StripeHolds, WalletPays,
         StripeCaptures, StripeVoids, RecoveryTick, RecoveryDelivered, RecoveryFailed,
         BlobExpires, MandateExpires, Unredeemed, RecordDelivery, NextRow

(* A voided hold stays voided. *)
LEMMA ToldFreeIsFreePreserved ==
  ASSUME TypeOK, ToldFreeIsFree, JobNamed, [Next]_vars
  PROVE  ToldFreeIsFree'
<1> USE CallsAssumption, LimitsAssumption DEF TypeOK, ToldFreeIsFree, JobNamed, Live,
      Answers, Executing, Mandated, handlers, recovery, world
<1>1. ASSUME NEW c \in Calls, NEW p \in Principals, NEW k \in Candidates,
             ColdCall(c, p, k)
      PROVE  ToldFreeIsFree'
  BY <1>1 DEF ColdCall
<1>2. ASSUME NEW c \in Calls, NEW p \in Principals, NEW j \in Calls,
             NEW b \in Budgets \union {0},
             RetryApproved(c, p, j, b)
      PROVE  ToldFreeIsFree'
  BY <1>2 DEF RetryApproved, Start, VerifyState
<1>3. ASSUME NEW c \in Calls, NEW p \in Principals, NEW j \in Calls,
             RetryDeclined(c, p, j)
      PROVE  ToldFreeIsFree'
  BY <1>3 DEF RetryDeclined, VerifyState
<1>4. ASSUME NEW c \in Calls, NEW p \in Principals, NEW j \in Calls,
             RetryRejected(c, p, j)
      PROVE  ToldFreeIsFree'
  BY <1>4 DEF RetryRejected
<1>5. ASSUME NEW c \in Calls,
             StripeHolds(c)
      PROVE  ToldFreeIsFree'
  BY <1>5 DEF StripeHolds
<1>6. ASSUME NEW c \in Calls,
             StripeCaptures(c)
      PROVE  ToldFreeIsFree'
  BY <1>6 DEF StripeCaptures
<1>7. ASSUME NEW c \in Calls,
             StripeVoids(c)
      PROVE  ToldFreeIsFree'
  BY <1>7 DEF StripeVoids
<1>8. ASSUME NEW c \in Calls,
             Released(c)
      PROVE  ToldFreeIsFree'
  BY <1>8 DEF Released
<1>9. ASSUME NEW c \in Calls,
             Failed(c)
      PROVE  ToldFreeIsFree'
  BY <1>9 DEF Failed, RecordDelivery
<1>10. CASE Crash
  BY <1>10 DEF Crash
<1>11. ASSUME NEW c \in Calls,
             QuoteFailed(c) \/ Settled(c) \/ PayThrew(c) \/ RedeemAnswered(c) \/
                   RedeemFailed(c) \/ BodyRead(c) \/ BodyThrew(c) \/ Captured(c) \/
                   StripeThrew(c)
      PROVE  ToldFreeIsFree'
  BY <1>11 DEF QuoteFailed, Settled, PayThrew, RedeemAnswered, RedeemFailed, BodyRead,
         BodyThrew, Captured, StripeThrew, RecordDelivery, Debited
<1> QED
  BY SMTT(30), <1>1, <1>2, <1>3, <1>4, <1>5, <1>6, <1>7, <1>8, <1>9, <1>10, <1>11
  DEF Next, Arrive, Handle, Stripe, Recover, vars, Quoted, Authorized, WalletPays,
         RecoveryTick, RecoveryDelivered, RecoveryFailed, BlobExpires, MandateExpires,
         Start, Unredeemed, RecordDelivery, NextRow

(* A loss is booked only after the void and with the candidate degraded;
   neither is undone. *)
LEMMA LossIsClosedPreserved ==
  ASSUME TypeOK, LossIsClosed, JobNamed, ReadyIsClean, RecoveryOwns, [Next]_vars
  PROVE  LossIsClosed'
<1> USE CallsAssumption, LimitsAssumption DEF TypeOK, LossIsClosed, JobNamed, ReadyIsClean,
      RecoveryOwns, Ready, Live, Answers, Executing, Mandated, handlers, recovery, world
<1>1. ASSUME NEW c \in Calls, NEW p \in Principals, NEW k \in Candidates,
             ColdCall(c, p, k)
      PROVE  LossIsClosed'
  BY <1>1 DEF ColdCall
<1>2. ASSUME NEW c \in Calls,
             StripeHolds(c)
      PROVE  LossIsClosed'
  BY <1>2 DEF StripeHolds
<1>3. ASSUME NEW c \in Calls,
             StripeCaptures(c)
      PROVE  LossIsClosed'
  BY <1>3 DEF StripeCaptures
<1>4. ASSUME NEW c \in Calls,
             StripeVoids(c)
      PROVE  LossIsClosed'
  BY <1>4 DEF StripeVoids
<1>5. ASSUME NEW c \in Calls,
             Settled(c)
      PROVE  LossIsClosed'
  BY <1>5 DEF Settled
<1>6. ASSUME NEW c \in Calls,
             Failed(c)
      PROVE  LossIsClosed'
  BY <1>6 DEF Failed, RecordDelivery
<1>7. ASSUME NEW c \in Calls,
             Captured(c)
      PROVE  LossIsClosed'
  BY <1>7 DEF Captured, RecordDelivery, Debited
<1>8. CASE RecoveryDelivered
  BY <1>8 DEF RecoveryDelivered, RecordDelivery, NextRow
<1> QED
  BY SMTT(30), <1>1, <1>2, <1>3, <1>4, <1>5, <1>6, <1>7, <1>8
  DEF Next, Arrive, Handle, Stripe, Recover, vars, Quoted, QuoteFailed, Authorized,
         RetryApproved, RetryDeclined, RetryRejected, WalletPays, PayThrew, RedeemAnswered,
         RedeemFailed, BodyRead, BodyThrew, Released, StripeThrew, RecoveryTick,
         RecoveryFailed, BlobExpires, MandateExpires, Crash, Start, VerifyState, Unredeemed,
         NextRow

(* After the receipt no execution and no recovery pass takes the job back. *)
LEMMA ReceiptStandsPreserved ==
  ASSUME TypeOK, ReceiptStands, JobNamed, StageOK, AssetsKept, [Next]_vars
  PROVE  ReceiptStands'
<1> USE CallsAssumption, LimitsAssumption DEF TypeOK, ReceiptStands, JobNamed, StageOK,
      AssetsKept, Live, Answers, Executing, Mandated, handlers, recovery, world
<1>1. ASSUME NEW c \in Calls,
             StripeHolds(c)
      PROVE  ReceiptStands'
  BY <1>1 DEF StripeHolds
<1>2. ASSUME NEW c \in Calls,
             StripeCaptures(c)
      PROVE  ReceiptStands'
  BY <1>2 DEF StripeCaptures
<1>3. ASSUME NEW c \in Calls,
             StripeVoids(c)
      PROVE  ReceiptStands'
  BY <1>3 DEF StripeVoids
<1>4. ASSUME NEW c \in Calls,
             Settled(c)
      PROVE  ReceiptStands'
  BY <1>4 DEF Settled
<1>5. ASSUME NEW c \in Calls,
             Captured(c)
      PROVE  ReceiptStands'
  BY <1>5 DEF Captured, RecordDelivery, Debited
<1>6. ASSUME NEW c \in Calls,
             Failed(c)
      PROVE  ReceiptStands'
  BY <1>6 DEF Failed, RecordDelivery
<1>7. CASE RecoveryDelivered
  BY <1>7 DEF RecoveryDelivered, RecordDelivery, NextRow
<1> QED
  BY SMTT(120), <1>1, <1>2, <1>3, <1>4, <1>5, <1>6, <1>7
  DEF Next, Arrive, Handle, Stripe, Recover, vars, ColdCall, Quoted, QuoteFailed,
         Authorized, RetryApproved, RetryDeclined, RetryRejected, WalletPays, PayThrew,
         RedeemAnswered, RedeemFailed, BodyRead, BodyThrew, Released, StripeThrew,
         RecoveryTick, RecoveryFailed, BlobExpires, MandateExpires, Crash, Start,
         VerifyState, Unredeemed, NextRow

(* Sats leave for a consented job only from the retry that took its row. *)
LEMMA PaidWithConsentPreserved ==
  ASSUME TypeOK, PaidWithConsent, JobNamed, ReadyIsClean, RetryClaimed, [Next]_vars
  PROVE  PaidWithConsent'
<1> USE CallsAssumption, LimitsAssumption DEF TypeOK, PaidWithConsent, JobNamed,
      ReadyIsClean, RetryClaimed, Ready, Live, Answers, Executing, Mandated, handlers,
      recovery, world
<1>1. ASSUME NEW c \in Calls, NEW p \in Principals, NEW k \in Candidates,
             ColdCall(c, p, k)
      PROVE  PaidWithConsent'
  BY <1>1 DEF ColdCall
<1>2. ASSUME NEW c \in Calls,
             Authorized(c)
      PROVE  PaidWithConsent'
  BY <1>2 DEF Authorized, Start
<1>3. ASSUME NEW c \in Calls, NEW p \in Principals, NEW j \in Calls,
             NEW b \in Budgets \union {0},
             RetryApproved(c, p, j, b)
      PROVE  PaidWithConsent'
  BY <1>3 DEF RetryApproved, Start, VerifyState
<1>4. ASSUME NEW c \in Calls, NEW p \in Principals, NEW j \in Calls,
             RetryDeclined(c, p, j)
      PROVE  PaidWithConsent'
  BY <1>4 DEF RetryDeclined, VerifyState
<1>5. ASSUME NEW c \in Calls, NEW p \in Principals, NEW j \in Calls,
             RetryRejected(c, p, j)
      PROVE  PaidWithConsent'
  BY <1>5 DEF RetryRejected
<1>6. ASSUME NEW c \in Calls, NEW f \in Fees,
             WalletPays(c, f)
      PROVE  PaidWithConsent'
  BY <1>6 DEF WalletPays
<1>7. CASE Crash
  BY <1>7 DEF Crash
<1>8. ASSUME NEW c \in Calls,
             QuoteFailed(c) \/ Settled(c) \/ PayThrew(c) \/ RedeemAnswered(c) \/
                   RedeemFailed(c) \/ BodyRead(c) \/ BodyThrew(c) \/ Captured(c) \/
                   Released(c) \/ Failed(c) \/ StripeThrew(c)
      PROVE  PaidWithConsent'
  BY <1>8 DEF QuoteFailed, Settled, PayThrew, RedeemAnswered, RedeemFailed, BodyRead,
         BodyThrew, Captured, Released, Failed, StripeThrew, RecordDelivery, Debited
<1> QED
  BY SMTT(30), <1>1, <1>2, <1>3, <1>4, <1>5, <1>6, <1>7, <1>8
  DEF Next, Arrive, Handle, Stripe, Recover, vars, Quoted, StripeHolds, StripeCaptures,
         StripeVoids, RecoveryTick, RecoveryDelivered, RecoveryFailed, BlobExpires,
         MandateExpires, Unredeemed, RecordDelivery, NextRow

----------------------------------------------------------------------------

(* The invariant holds initially: nothing has happened to any job. *)
LEMMA InitIInv == Init => IInv
<1> SUFFICES ASSUME Init
             PROVE  IInv
  OBVIOUS
<1> USE CallsAssumption, LimitsAssumption DEF Init
<1>1. TypeOK
  <2>1. mandates \in [Principals -> [budget : Nat, spent : Nat, live : BOOLEAN]]
    <3> DEFINE Granted == {[budget |-> b, spent |-> 0, live |-> TRUE] : b \in Budgets}
    <3>1. NoMandate \in [budget : Nat, spent : Nat, live : BOOLEAN]
      BY DEF NoMandate
    <3>2. Granted \subseteq [budget : Nat, spent : Nat, live : BOOLEAN]
      <4> SUFFICES ASSUME NEW b \in Budgets
                   PROVE  [budget |-> b, spent |-> 0, live |-> TRUE] \in [budget : Nat, spent : Nat, live : BOOLEAN]
        OBVIOUS
      <4>1. b \in Nat
        OBVIOUS
      <4> QED
        BY <4>1
    <3>3. mandates \in [Principals -> {NoMandate} \union Granted]
      OBVIOUS
    <3> HIDE DEF Granted, Init
    <3> QED
      BY <3>1, <3>2, <3>3
  <2> QED
    BY <2>1 DEF TypeOK
<1>2. JobNamed /\ ReadyIsClean /\ RetryClaimed /\ StageOK /\ AssetsKept /\ RecoveryOwns
  BY DEF JobNamed, ReadyIsClean, Ready, RetryClaimed, StageOK, AssetsKept, RecoveryOwns, Executing
<1>3. SingleExecution /\ ToldFreeIsFree /\ LossIsClosed /\ ReceiptStands /\ PaidWithConsent
  BY DEF SingleExecution, ToldFreeIsFree, LossIsClosed, ReceiptStands, PaidWithConsent, Executing
<1> QED
  BY <1>1, <1>2, <1>3 DEF IInv

(* Every step keeps it. *)
LEMMA NextIInv == IInv /\ [Next]_vars => IInv'
<1> SUFFICES ASSUME IInv, [Next]_vars
             PROVE  IInv'
  OBVIOUS
<1> USE DEF IInv
<1>1. TypeOK' /\ JobNamed' /\ RetryClaimed' /\ RecoveryOwns'
  BY TypePreserved, JobNamedPreserved, RetryClaimedPreserved, RecoveryOwnsPreserved
<1>2. ReadyIsClean' /\ StageOK' /\ AssetsKept' /\ SingleExecution'
  BY ReadyIsCleanPreserved, StageOKPreserved, AssetsKeptPreserved, SingleExecutionPreserved
<1>3. ToldFreeIsFree' /\ LossIsClosed' /\ ReceiptStands' /\ PaidWithConsent'
  BY ToldFreeIsFreePreserved, LossIsClosedPreserved, ReceiptStandsPreserved, PaidWithConsentPreserved
<1> QED
  BY <1>1, <1>2, <1>3

(* IInv is an invariant of the router. *)
THEOREM Inductive == Spec => []IInv
<1>1. Init => IInv
  BY InitIInv
<1>2. IInv /\ [Next]_vars => IInv'
  BY NextIInv
<1> QED
  BY <1>1, <1>2, PTL DEF Spec

(* Every variable keeps its type. *)
THEOREM TypeCorrect == Spec => []TypeOK
<1>1. IInv => TypeOK
  BY DEF IInv
<1> QED
  BY <1>1, Inductive, PTL

(* No two calls ever execute the same job. *)
THEOREM OneExecution == Spec => []SingleExecution
<1>1. IInv => SingleExecution
  BY DEF IInv
<1> QED
  BY <1>1, Inductive, PTL

(* A captured card stands for a result read, a credential kept and an
   outflow booked. *)
THEOREM ChargesAreBacked == Spec => []ChargeIsBacked
<1>1. IInv => ChargeIsBacked
  BY DEF IInv, AssetsKept, ChargeIsBacked
<1> QED
  BY <1>1, Inductive, PTL

(* "You were charged $0" is true and stays true. *)
THEOREM FreeStaysFree == Spec => []ToldFreeIsFree
<1>1. IInv => ToldFreeIsFree
  BY DEF IInv
<1> QED
  BY <1>1, Inductive, PTL

(* A booked loss was voided and its candidate is degraded. *)
THEOREM LossesAreClosed == Spec => []LossIsClosed
<1>1. IInv => LossIsClosed
  BY DEF IInv
<1> QED
  BY <1>1, Inductive, PTL

(* A receipt is never contradicted by the ledger, the credential or Stripe. *)
THEOREM ReceiptsStand == Spec => []ReceiptStands
<1>1. IInv => ReceiptStands
  BY DEF IInv
<1> QED
  BY <1>1, Inductive, PTL

(* Sats leave for a consented job only with one used consent of its owner. *)
THEOREM ConsentComesFirst == Spec => []PaidWithConsent
<1>1. IInv => PaidWithConsent
  BY DEF IInv
<1> QED
  BY <1>1, Inductive, PTL

----------------------------------------------------------------------------
(* What a standing budget was debited for *)

(* The captured jobs whose execution has passed its debit: a job that is
   captured at Stripe while its handler still awaits the answer is not yet
   debited. *)
Debitable(p) == {j \in CapturedOf(p) : \A c \in Calls : job[c] = j => pc[c] # "capturing"}

(* The caller that is debited is the one the job was quoted to. *)
PayerOwns ==
  \A c \in Calls :
    pc[c] \in {"settling", "redeeming", "reading", "capturing"} => who[c] = who[job[c]]

DebitsArePaid == \A p \in Principals : mandates[p].spent <= SumOver(charge, Debitable(p))

BudgetInv == PayerOwns /\ DebitsArePaid

(* A retry settles only as the principal of its job. *)
LEMMA PayerOwnsPreserved ==
  ASSUME TypeOK, PayerOwns, JobNamed, RetryClaimed, [Next]_vars
  PROVE  PayerOwns'
<1> USE CallsAssumption, LimitsAssumption DEF TypeOK, PayerOwns, JobNamed, RetryClaimed,
      Live, Answers, Executing, Mandated, handlers, recovery, world
<1>1. ASSUME NEW c \in Calls, NEW p \in Principals, NEW k \in Candidates,
             ColdCall(c, p, k)
      PROVE  PayerOwns'
  BY <1>1 DEF ColdCall
<1>2. ASSUME NEW c \in Calls,
             Authorized(c)
      PROVE  PayerOwns'
  BY <1>2 DEF Authorized, Start
<1>3. ASSUME NEW c \in Calls, NEW p \in Principals, NEW j \in Calls,
             NEW b \in Budgets \union {0},
             RetryApproved(c, p, j, b)
      PROVE  PayerOwns'
  BY <1>3 DEF RetryApproved, Start, VerifyState
<1>4. ASSUME NEW c \in Calls, NEW p \in Principals, NEW j \in Calls,
             RetryDeclined(c, p, j)
      PROVE  PayerOwns'
  BY <1>4 DEF RetryDeclined, VerifyState
<1>5. ASSUME NEW c \in Calls, NEW p \in Principals, NEW j \in Calls,
             RetryRejected(c, p, j)
      PROVE  PayerOwns'
  BY <1>5 DEF RetryRejected
<1>6. CASE Crash
  BY <1>6 DEF Crash
<1>7. ASSUME NEW c \in Calls,
             QuoteFailed(c) \/ Settled(c) \/ PayThrew(c) \/ RedeemAnswered(c) \/
                   RedeemFailed(c) \/ BodyRead(c) \/ BodyThrew(c) \/ Captured(c) \/
                   Released(c) \/ Failed(c) \/ StripeThrew(c)
      PROVE  PayerOwns'
  BY <1>7 DEF QuoteFailed, Settled, PayThrew, RedeemAnswered, RedeemFailed, BodyRead,
         BodyThrew, Captured, Released, Failed, StripeThrew, RecordDelivery, Debited
<1> QED
  BY SMTT(30), <1>1, <1>2, <1>3, <1>4, <1>5, <1>6, <1>7
  DEF Next, Arrive, Handle, Stripe, Recover, vars, Quoted, StripeHolds, WalletPays,
         StripeCaptures, StripeVoids, RecoveryTick, RecoveryDelivered, RecoveryFailed,
         BlobExpires, MandateExpires, Unredeemed, RecordDelivery, NextRow

(* What a sum over a set of jobs is: natural, and no less over a larger set
   whose old members kept their charges. *)
LEMMA SumOfJobs ==
  ASSUME NEW S \in SUBSET Calls, NEW f, \A x \in S : f[x] \in Nat
  PROVE  /\ SumOver(f, S) \in Nat
         /\ \A R \in SUBSET S : \A g : (\A x \in R : g[x] = f[x]) => SumOver(g, R) <= SumOver(f, S)
         /\ \A x \in S : SumOver(f, S) = f[x] + SumOver(f, S \ {x})
<1> USE DEF SumOver, SumFunctionOnSet
<1>1. IsFiniteSet(S)
  BY CallsAssumption, FS_Subset
<1>2. SumFunctionOnSet(f, S) \in Nat
  BY <1>1, SumIsNatural
<1>3. ASSUME NEW R \in SUBSET S, NEW g, \A x \in R : g[x] = f[x]
      PROVE  SumFunctionOnSet(g, R) <= SumFunctionOnSet(f, S)
  <2>1. IsFiniteSet(R)
    BY <1>1, FS_Subset
  <2>2. SumFunctionOnSet(g, R) = SumFunctionOnSet(f, R)
    BY <1>3, <2>1, SumDependsOnValues
  <2>3. SumFunctionOnSet(f, R) <= SumFunctionOnSet(f, S)
    BY <1>1, SumGrows
  <2> QED
    BY <2>2, <2>3
<1>4. \A x \in S : SumFunctionOnSet(f, S) = f[x] + SumFunctionOnSet(f, S \ {x})
  BY <1>1, SumTakesOut
<1> QED
  BY <1>2, <1>3, <1>4

(* A job once debitable stays so, at the charge it was quoted. *)
LEMMA DebitableKept ==
  ASSUME TypeOK, JobNamed, ReadyIsClean, StageOK, [Next]_vars,
         NEW p \in Principals, NEW j \in Debitable(p)
  PROVE  j \in Debitable(p)' /\ charge'[j] = charge[j]
<1> USE CallsAssumption DEF TypeOK, JobNamed, ReadyIsClean, Ready, StageOK, Debitable, CapturedOf,
      Live, Answers, Executing, handlers, recovery, world
<1>1. ASSUME NEW c \in Calls, NEW q \in Principals, NEW k \in Candidates,
             ColdCall(c, q, k)
      PROVE  j \in Debitable(p)' /\ charge'[j] = charge[j]
  BY <1>1 DEF ColdCall
<1>2. ASSUME NEW c \in Calls, NEW s \in Quotes, NEW u \in Charges,
             Quoted(c, s, u)
      PROVE  j \in Debitable(p)' /\ charge'[j] = charge[j]
  BY <1>2 DEF Quoted
<1>3. ASSUME NEW c \in Calls,
             StripeHolds(c) \/ StripeCaptures(c) \/ StripeVoids(c)
      PROVE  j \in Debitable(p)' /\ charge'[j] = charge[j]
  BY <1>3 DEF StripeHolds, StripeCaptures, StripeVoids
<1>4. ASSUME NEW c \in Calls,
             Authorized(c)
      PROVE  j \in Debitable(p)' /\ charge'[j] = charge[j]
  BY <1>4 DEF Authorized, Start
<1>5. ASSUME NEW c \in Calls, NEW q \in Principals, NEW i \in Calls,
             NEW b \in Budgets \union {0},
             RetryApproved(c, q, i, b)
      PROVE  j \in Debitable(p)' /\ charge'[j] = charge[j]
  BY <1>5 DEF RetryApproved, Start, VerifyState
<1>6. ASSUME NEW c \in Calls, NEW q \in Principals, NEW i \in Calls,
             RetryDeclined(c, q, i) \/ RetryRejected(c, q, i)
      PROVE  j \in Debitable(p)' /\ charge'[j] = charge[j]
  <2>1. CASE RetryDeclined(c, q, i)
    BY <2>1 DEF RetryDeclined, VerifyState
  <2>2. CASE RetryRejected(c, q, i)
    BY <2>2 DEF RetryRejected, VerifyState
  <2> QED
    BY <1>6, <2>1, <2>2
<1>7. ASSUME NEW c \in Calls,
             BodyRead(c)
      PROVE  j \in Debitable(p)' /\ charge'[j] = charge[j]
  BY <1>7 DEF BodyRead
<1>8. ASSUME NEW c \in Calls,
             QuoteFailed(c) \/ Settled(c) \/ PayThrew(c) \/ RedeemAnswered(c) \/
                   RedeemFailed(c) \/ BodyThrew(c) \/ Captured(c) \/
                   Released(c) \/ Failed(c) \/ StripeThrew(c)
      PROVE  j \in Debitable(p)' /\ charge'[j] = charge[j]
  BY <1>8 DEF QuoteFailed, Settled, PayThrew, RedeemAnswered, RedeemFailed,
         BodyThrew, Captured, Released, Failed, StripeThrew
<1>9. CASE Crash
  BY <1>9 DEF Crash
<1> HIDE DEF TypeOK, JobNamed, ReadyIsClean, Ready, StageOK
<1> QED
  BY SMTT(30), <1>1, <1>2, <1>3, <1>4, <1>5, <1>6, <1>7, <1>8, <1>9
  DEF Next, Arrive, Handle, Stripe, Recover, vars, WalletPays, RecoveryTick, RecoveryDelivered,
         RecoveryFailed, BlobExpires, MandateExpires, RecordDelivery, NextRow

(* A mandate is debited by Captured alone, once, and replaced by a new one. *)
LEMMA OnlyCapturedDebits ==
  ASSUME TypeOK, JobNamed, [Next]_vars, NEW p \in Principals
  PROVE  \/ mandates'[p].spent <= mandates[p].spent
         \/ \E c \in Calls :
              Captured(c) /\ who[c] = p /\ mandates'[p].spent = mandates[p].spent + charge[job[c]]
<1> USE CallsAssumption DEF TypeOK, JobNamed, Live, Answers, Executing, handlers, recovery, world
<1>0. mandates[p].spent \in Nat
  OBVIOUS
<1>1. ASSUME NEW c \in Calls,
             Captured(c)
      PROVE  \/ mandates'[p].spent <= mandates[p].spent
             \/ who[c] = p /\ mandates'[p].spent = mandates[p].spent + charge[job[c]]
  BY <1>0, <1>1 DEF Captured, Debited
<1>2. ASSUME NEW c \in Calls, NEW q \in Principals, NEW i \in Calls,
             NEW b \in Budgets \union {0},
             RetryApproved(c, q, i, b)
      PROVE  mandates'[p].spent <= mandates[p].spent
  BY <1>0, <1>2 DEF RetryApproved
<1>3. ASSUME NEW q \in Principals,
             MandateExpires(q)
      PROVE  mandates'[p].spent <= mandates[p].spent
  BY <1>0, <1>3 DEF MandateExpires
<1>4. CASE UNCHANGED mandates
  BY <1>0, <1>4
<1> HIDE DEF TypeOK, JobNamed
<1>5. ASSUME NEW c \in Calls, Handle(c)
      PROVE  Captured(c) \/ UNCHANGED mandates
  BY <1>5 DEF Handle, Quoted, QuoteFailed, Authorized, Settled, PayThrew, RedeemAnswered,
         RedeemFailed, BodyRead, BodyThrew, Released, Failed, StripeThrew
<1>6. ASSUME NEW c \in Calls, Arrive(c)
      PROVE  \/ \E q \in Principals, i \in Calls, b \in Budgets \union {0} : RetryApproved(c, q, i, b)
             \/ UNCHANGED mandates
  BY <1>6 DEF Arrive, ColdCall, RetryDeclined, RetryRejected
<1>7. ASSUME NEW c \in Calls, Stripe(c)
      PROVE  UNCHANGED mandates
  BY <1>7 DEF Stripe, StripeHolds, StripeCaptures, StripeVoids
<1> QED
  BY <1>1, <1>2, <1>3, <1>4, <1>5, <1>6, <1>7
  DEF Next, Recover, vars, WalletPays, RecoveryTick, RecoveryDelivered, RecoveryFailed,
      BlobExpires, Crash

(* The job that Captured debits becomes debitable with that step. *)
LEMMA CapturedIsDebitable ==
  ASSUME TypeOK, JobNamed, SingleExecution, PayerOwns, NEW c \in Calls, Captured(c),
         NEW p \in Principals, who[c] = p, NEW j \in Calls, j = job[c]
  PROVE  j \in Debitable(p)' /\ j \notin Debitable(p) /\ charge'[j] = charge[j]
  BY DEF Captured, TypeOK, JobNamed, SingleExecution, PayerOwns, Debitable, CapturedOf, Live,
         Answers, Executing, world

(* What was debited is paid for by the charges of the debitable jobs. *)
LEMMA DebitsArePaidPreserved ==
  ASSUME IInv, BudgetInv, [Next]_vars, TypeOK'
  PROVE  DebitsArePaid'
<1> SUFFICES ASSUME NEW p \in Principals
             PROVE  mandates'[p].spent <= SumOver(charge', Debitable(p)')
  BY DEF DebitsArePaid
<1>0. TypeOK /\ JobNamed /\ ReadyIsClean /\ StageOK /\ SingleExecution /\ PayerOwns
  BY DEF IInv, BudgetInv
<1>1. PICK D \in SUBSET Calls : D = Debitable(p)
  BY DEF Debitable, CapturedOf
<1>2. PICK E \in SUBSET Calls : E = Debitable(p)'
  BY DEF Debitable, CapturedOf
<1>3. D \subseteq E /\ \A j \in D : charge'[j] = charge[j]
  BY <1>0, <1>1, <1>2, DebitableKept
<1>4. \A j \in Calls : charge[j] \in Nat /\ charge'[j] \in Nat
  BY <1>0 DEF TypeOK
<1>5. mandates[p].spent \in Nat /\ mandates'[p].spent \in Nat
  BY <1>0 DEF TypeOK
<1>6. SumOver(charge, D) \in Nat /\ SumOver(charge', E) \in Nat
  BY <1>4, SumOfJobs
<1>7. SumOver(charge, D) <= SumOver(charge', E)
  BY <1>3, <1>4, SumOfJobs
<1>8. mandates[p].spent <= SumOver(charge, D)
  BY <1>1 DEF BudgetInv, DebitsArePaid
<1>9. CASE mandates'[p].spent <= mandates[p].spent
  BY <1>2, <1>5, <1>6, <1>7, <1>8, <1>9
<1>10. ASSUME NEW c \in Calls, Captured(c), who[c] = p,
              mandates'[p].spent = mandates[p].spent + charge[job[c]]
       PROVE  mandates'[p].spent <= SumOver(charge', E)
  <2>1. PICK j \in Calls : j = job[c]
    BY <1>0, <1>10 DEF Captured, TypeOK, JobNamed
  <2>2. j \in E /\ j \notin D /\ charge'[j] = charge[j]
    BY <1>0, <1>1, <1>2, <1>10, <2>1, CapturedIsDebitable
  <2>3. SumOver(charge', E) = charge'[j] + SumOver(charge', E \ {j})
    BY <1>4, <2>2, SumOfJobs
  <2>4. PICK F \in SUBSET Calls : F = E \ {j}
    OBVIOUS
  <2>5. D \in SUBSET F
    BY <1>3, <2>2, <2>4
  <2>6. SumOver(charge, D) <= SumOver(charge', F) /\ SumOver(charge', F) \in Nat
    BY <1>3, <1>4, <2>5, SumOfJobs
  <2> QED
    BY <1>4, <1>5, <1>6, <1>8, <1>10, <2>1, <2>2, <2>3, <2>4, <2>6
<1> QED
  BY <1>0, <1>2, <1>9, <1>10, OnlyCapturedDebits

(* Whatever order retries, captures, lost replies and crashes come in, a
   standing budget was never debited for more than the captured jobs of its
   principal cost. *)
THEOREM BudgetsPayForCaptured == Spec => []BudgetPaysForCaptured
<1>1. Init => BudgetInv
  <2> SUFFICES ASSUME Init, NEW p \in Principals
               PROVE  mandates[p].spent <= SumOver(charge, Debitable(p))
    BY DEF Init, BudgetInv, PayerOwns, DebitsArePaid
  <2>1. PICK D \in SUBSET Calls : D = Debitable(p)
    BY DEF Debitable, CapturedOf
  <2>2. mandates[p].spent = 0
    BY DEF Init, NoMandate
  <2>3. \A j \in Calls : charge[j] \in Nat
    BY DEF Init
  <2>4. SumOver(charge, D) \in Nat
    BY <2>3, SumOfJobs
  <2> QED
    BY <2>1, <2>2, <2>4
<1>2. IInv /\ BudgetInv /\ [Next]_vars => BudgetInv'
  BY NextIInv, PayerOwnsPreserved, DebitsArePaidPreserved DEF BudgetInv, IInv
<1>3. IInv /\ BudgetInv => BudgetPaysForCaptured
  <2> SUFFICES ASSUME IInv, BudgetInv, NEW p \in Principals
               PROVE  mandates[p].spent <= SumOver(charge, CapturedOf(p))
    BY DEF BudgetPaysForCaptured
  <2>1. PICK D \in SUBSET Calls : D = Debitable(p)
    BY DEF Debitable, CapturedOf
  <2>2. PICK E \in SUBSET Calls : E = CapturedOf(p)
    BY DEF CapturedOf
  <2>3. D \in SUBSET E
    BY <2>1, <2>2 DEF Debitable
  <2>4. \A j \in Calls : charge[j] \in Nat
    BY DEF IInv, TypeOK
  <2>5. SumOver(charge, D) <= SumOver(charge, E) /\ SumOver(charge, D) \in Nat /\ SumOver(charge, E) \in Nat
    BY <2>3, <2>4, SumOfJobs
  <2>6. mandates[p].spent <= SumOver(charge, D) /\ mandates[p].spent \in Nat
    BY <2>1 DEF IInv, TypeOK, BudgetInv, DebitsArePaid
  <2> QED
    BY <2>2, <2>5, <2>6
<1> QED
  BY <1>1, <1>2, <1>3, Inductive, PTL DEF Spec

----------------------------------------------------------------------------

(* Every step of the router is a step of PaidDelivery or a stutter: Stripe
   holds, captures and voids, Settled buys, BodyRead obtains. *)
LEMMA StepKeepsPromise ==
  ASSUME IInv, [Next]_vars
  PROVE  [Promise!Next]_(Promise!vars)
<1>0. TypeOK /\ JobNamed /\ StageOK /\ ReadyIsClean /\ AssetsKept /\ RecoveryOwns
  BY DEF IInv
<1>1. ASSUME NEW c \in Calls, StripeHolds(c)
      PROVE  Promise!Next
  <2>1. c \in Calls
    BY <1>0, <1>1 DEF StripeHolds, TypeOK, JobNamed
  <2>2. Promise!Hold(c)
    BY <1>0, <1>1, <2>1 DEF StripeHolds, Promise!Hold, TypeOK, JobNamed, ReadyIsClean, world
  <2> QED
    BY <2>1, <2>2 DEF Promise!Next
<1>2. ASSUME NEW c \in Calls, Settled(c)
      PROVE  Promise!Next
  <2>1. job[c] \in Calls
    BY <1>0, <1>2 DEF Settled, TypeOK, JobNamed
  <2>2. Promise!Buy(job[c])
    BY <1>0, <1>2, <2>1 DEF Settled, Promise!Buy, TypeOK, JobNamed, StageOK, world
  <2> QED
    BY <2>1, <2>2 DEF Promise!Buy, Promise!Next
<1>3. ASSUME NEW c \in Calls, BodyRead(c)
      PROVE  Promise!Next
  <2>1. job[c] \in Calls
    BY <1>0, <1>3 DEF BodyRead, TypeOK, JobNamed
  <2>2. Promise!Obtain(job[c])
    BY <1>0, <1>3, <2>1 DEF BodyRead, Promise!Obtain, TypeOK, JobNamed, StageOK, world
  <2> QED
    BY <2>1, <2>2 DEF Promise!Next
<1>4. ASSUME NEW c \in Calls, StripeCaptures(c)
      PROVE  Promise!Next
  <2>1. job[c] \in Calls
    BY <1>0, <1>4 DEF StripeCaptures, TypeOK, JobNamed
  <2>2. Promise!Charge(job[c])
    BY <1>0, <1>4, <2>1 DEF StripeCaptures, Promise!Charge, TypeOK, JobNamed, StageOK, world
  <2> QED
    BY <2>1, <2>2 DEF Promise!Next
<1>5. ASSUME NEW c \in Calls, StripeVoids(c)
      PROVE  Promise!Next
  <2>1. job[c] \in Calls
    BY <1>0, <1>5 DEF StripeVoids, TypeOK, JobNamed
  <2>2. Promise!Return(job[c])
    BY <1>0, <1>5, <2>1 DEF StripeVoids, Promise!Return, TypeOK, JobNamed, StageOK, world
  <2> QED
    BY <2>1, <2>2 DEF Promise!Next
<1>6. ASSUME NEW c \in Calls, Captured(c)
      PROVE  UNCHANGED Promise!vars
  BY <1>0, <1>6 DEF Captured, TypeOK, JobNamed, StageOK, world, Promise!vars
<1>7. CASE RecoveryDelivered
  BY <1>0, <1>7 DEF RecoveryDelivered, TypeOK, RecoveryOwns, world, Promise!vars
<1>8. ASSUME NEW c \in Calls, Handle(c)
      PROVE  Promise!Next \/ UNCHANGED Promise!vars
  BY <1>2, <1>3, <1>6, <1>8
  DEF Handle, Quoted, QuoteFailed, Authorized, PayThrew, RedeemAnswered, RedeemFailed,
      BodyThrew, Released, Failed, StripeThrew, world, Promise!vars
<1>9. ASSUME NEW c \in Calls, Arrive(c)
      PROVE  UNCHANGED Promise!vars
  BY <1>9 DEF Arrive, ColdCall, RetryApproved, RetryDeclined, RetryRejected, world, Promise!vars
<1>10. ASSUME NEW c \in Calls, Stripe(c)
       PROVE  Promise!Next
  BY <1>1, <1>4, <1>5, <1>10 DEF Stripe
<1> QED
  BY <1>7, <1>8, <1>9, <1>10
  DEF Next, Recover, RecoveryTick, RecoveryFailed, WalletPays, BlobExpires, MandateExpires,
      Crash, vars, handlers, world, Promise!vars

(* The router implements PaidDelivery. *)
THEOREM PromiseKept == Spec => KeepsPromise
<1>1. Init => Promise!Init
  BY DEF Init, Promise!Init
<1>2. IInv /\ [Next]_vars => [Promise!Next]_(Promise!vars)
  BY StepKeepsPromise
<1> QED
  BY <1>1, <1>2, Inductive, PTL DEF Spec, KeepsPromise, Promise!Spec
============================================================================
