---------------------------- MODULE HealthSweep ----------------------------
(***************************************************************************)
(* The health sweep (src/health/checker.js, src/scheduler.js): every hour  *)
(* the listed rows are put in order, a pool of workers takes them from the *)
(* queue until the budget is used up, each probes one url and writes the   *)
(* verdict to the row and to the other rows of that url, its siblings.     *)
(*                                                                         *)
(* An action is what the code does from one await to the next: a verdict   *)
(* is written from the row the sweep read when it began.  What is counted  *)
(* in health_checks (uptime, latency, score) and protocol changes are left *)
(* out; a paywall found by the retry with POST is a paywall.  Whether a    *)
(* row that is up is healthy or degraded is left open: it depends on the   *)
(* challenge and the latency, and no later check depends on it.            *)
(***************************************************************************)
EXTENDS Naturals, SequencesExt

CONSTANTS
  Rows,               \* services rows
  Url, Host,          \* functions on Rows
  Tier0,              \* self-registered or domain-verified rows
  CONCURRENCY,        \* workers of the pool
  DOWN_AFTER,         \* failing checks that make a row down (3); bound of the count
  MinChecks,          \* checks that are begun before the budget can run out
  Contested,          \* rows others act on: off the list or unprobeable, at the start or later
  AdminDuringSweep,   \* may the administrator act while rows are checked?
  MaxTroubles         \* bound: changes made by others and writes that fail

ASSUME SweepAssumption ==
  /\ IsFiniteSet(Rows) /\ DOMAIN Url = Rows /\ DOMAIN Host = Rows
  /\ \A q, r \in Rows : Url[q] = Url[r] => Host[q] = Host[r]
  /\ Tier0 \subseteq Rows /\ Contested \subseteq Rows
  /\ DOWN_AFTER \in Nat \ {0} /\ CONCURRENCY \in Nat \ {0} /\ MinChecks \in Nat /\ MaxTroubles \in Nat
  /\ AdminDuringSweep \in BOOLEAN

VARIABLES
  row,       \* services: active, unlisted or gone; probeable; health; failures
  out,       \* quarantined hosts
  recency,   \* the rows by last_checked, never checked ones first
  sweep,     \* stage; rows in the queue, as read; checks begun; budget used up
  checked,   \* checkedThisCycle
  check,     \* checkService of a row: stage, row as read, answer, siblings to do
  troubles,
  \* history
  streak,    \* failing checks logged in a row, for rows without siblings
  logged,    \* rows this sweep has logged a check of
  chosen,    \* rows this sweep is to check
  fault      \* has a write failed in this sweep?

history == <<streak, logged, chosen, fault>>
vars == <<row, out, recency, sweep, checked, check, troubles, streak, logged, chosen, fault>>

Kinds == {"error", "server_error", "other", "paywall"}
NoAnswer == [kind |-> "other", shown |-> {}]
NoCheck == [at |-> "none", fails |-> 0, answer |-> NoAnswer, todo |-> <<>>]
NoSweep == [at |-> "idle", queue |-> <<>>, begun |-> 0, over |-> FALSE]
Up(n) == Min({n + 1, DOWN_AFTER})
InFlight == {r \in Rows : check[r].at # "none"}
Trouble == troubles < MaxTroubles /\ troubles' = troubles + 1

TypeOK ==
  /\ row \in [Rows -> [state : {"active", "unlisted", "gone"}, probeable : BOOLEAN,
                       health : {"up", "down", "unknown"}, fails : 0..DOWN_AFTER]]
  /\ IsInjective(recency) /\ ToSet(recency) = Rows
  /\ out \subseteq ToSet(Host)
  /\ sweep.at \in {"idle", "preparing", "checking"} /\ {s.row : s \in ToSet(sweep.queue)} \subseteq chosen
  /\ sweep.begun \in 0..Cardinality(Rows) /\ sweep.over \in BOOLEAN
  /\ checked \subseteq Rows
  /\ \A r \in Rows :
       /\ check[r].at \in {"none", "probing", "sibling"}
       /\ check[r].fails \in 0..DOWN_AFTER
       /\ check[r].answer.kind \in Kinds /\ check[r].answer.shown \subseteq Rows
       /\ check[r].at = "sibling" => check[r].todo # <<>>
  /\ streak \in [Rows -> 0..DOWN_AFTER] /\ logged \subseteq Rows
  /\ chosen \subseteq Rows /\ fault \in BOOLEAN
  /\ troubles \in 0..MaxTroubles

Init ==
  /\ row \in [Rows -> [state : {"active", "unlisted"}, probeable : BOOLEAN,
                       health : {"unknown"}, fails : {0}]]
  /\ \A r \in Rows \ Contested : row[r].state = "active" /\ row[r].probeable
  /\ recency \in SetToSeqs(Rows)
  /\ out = {} /\ sweep = NoSweep
  /\ checked = {}
  /\ check = [r \in Rows |-> NoCheck]
  /\ troubles = 0
  /\ streak = [r \in Rows |-> 0] /\ logged = {} /\ chosen = {} /\ fault = FALSE

----------------------------------------------------------------------------
(* The order of a sweep *)

Candidates(quarantined) ==
  {r \in Rows : row[r].state = "active" /\ row[r].probeable /\ Host[r] \notin quarantined}

Age(r) == CHOOSE i \in DOMAIN recency : recency[i] = r
Tier(r) == IF r \in Tier0 THEN 0 ELSE 1

(* Bug: rows are dealt in the order of the table. *)
TableOrder(rows) == {SetToSeq(rows)}

(* Tier by tier, each host's most overdue row, then each host's second, ...;
   within a round the hosts by their most overdue row.  There is one such order. *)
orderForSweep(rows) ==
  LET queue(r) == {q \in rows : Tier(q) = Tier(r) /\ Host[q] = Host[r]}
      round(r) == Cardinality({q \in queue(r) : Age(q) < Age(r)})
      turn(r) == Min({Age(q) : q \in queue(r)})
      Before(a, b) == \/ Tier(a) < Tier(b)
                      \/ Tier(a) = Tier(b) /\ round(a) < round(b)
                      \/ Tier(a) = Tier(b) /\ round(a) = round(b) /\ turn(a) < turn(b)
  IN {o \in SetToSeqs(rows) : \A i, j \in DOMAIN o : i < j => Before(o[i], o[j])}

----------------------------------------------------------------------------
(* runHealthChecks *)

(* The interval; a tick during a sweep is dropped. *)
Tick ==
  /\ sweep.at = "idle"
  /\ sweep' = [NoSweep EXCEPT !.at = "preparing"]
  /\ UNCHANGED <<row, out, recency, checked, check, troubles, history>>

(* The disk is too full for a sweep. *)
DiskGuard ==
  /\ sweep.at = "preparing"
  /\ sweep' = NoSweep
  /\ UNCHANGED <<row, out, recency, checked, check, troubles, history>>

Read(r) == [row |-> r, fails |-> row[r].fails, probeable |-> row[r].probeable]

Queued(rows) ==
  \E order \in orderForSweep(rows) :
    sweep' = [sweep EXCEPT !.at = "checking", !.queue = [i \in DOMAIN order |-> Read(order[i])]]

(* Bug: the rows of the last sweep stay in checkedThisCycle. *)
Remembered(rows) == Queued(rows) /\ UNCHANGED checked

Selected(rows) == Queued(rows) /\ checked' = {}

(* evaluateQuarantine has run, with whatever outcome; the rows are read. *)
SweepStart ==
  /\ sweep.at = "preparing"
  /\ \/ UNCHANGED <<out, troubles>>
     \/ Trouble /\ out' \in SUBSET ToSet(Host) \ {out}
  /\ chosen' = Candidates(out')
  /\ Selected(chosen')
  /\ UNCHANGED <<row, recency, check, streak, logged, fault>>

BudgetOver ==
  /\ sweep.at = "checking" /\ ~sweep.over /\ sweep.begun >= MinChecks
  /\ sweep' = [sweep EXCEPT !.over = TRUE]
  /\ UNCHANGED <<row, out, recency, checked, check, troubles, history>>

SweepEnd ==
  /\ sweep.at = "checking" /\ (sweep.over \/ sweep.queue = <<>>)
  /\ InFlight = {}
  /\ sweep' = NoSweep
  /\ logged' = {} /\ chosen' = {} /\ fault' = FALSE
  /\ UNCHANGED <<row, out, recency, checked, check, troubles, streak>>

----------------------------------------------------------------------------
(* checkService *)

(* A worker takes the next row, and skips it if a sibling's probe has checked it. *)
Take ==
  LET s == Head(sweep.queue)
  IN
  /\ sweep.at = "checking" /\ ~sweep.over /\ sweep.queue # <<>>
  /\ Cardinality(InFlight) < CONCURRENCY
  /\ sweep' = [sweep EXCEPT !.queue = Tail(@), !.begun = @ + 1]
  /\ checked' = checked \union {s.row}
  /\ check' = IF s.row \in checked THEN check
              ELSE [check EXCEPT ![s.row] = [NoCheck EXCEPT !.at = "probing", !.fails = s.fails]]
  /\ UNCHANGED <<row, out, recency, troubles, history>>

SameUrl(r) == {q \in Rows : Url[q] = Url[r]}
Lone(r) == SameUrl(r) = {r}

(* What a probe can answer: shown are the siblings whose protocol is in a 402. *)
Answers(r) ==
  {[NoAnswer EXCEPT !.kind = k] : k \in Kinds \ {"paywall"}}
  \union {[kind |-> "paywall", shown |-> s] : s \in SUBSET (SameUrl(r) \ {r})}

Failing(answer) == answer.kind \in {"error", "server_error"}

(* Bug: the status of the check is stored as the health of the row. *)
CheckStatus(answer, fails) ==
  [health |-> answer.kind, fails |-> IF Failing(answer) THEN Up(fails) ELSE fails]

(* Bug: a server error is not a failure. *)
ErrorsOnly(answer, fails) ==
  [health |-> IF answer.kind # "error" THEN "up" ELSE IF Up(fails) = DOWN_AFTER THEN "down" ELSE "unknown",
   fails |-> CASE answer.kind = "error" -> Up(fails) [] answer.kind = "paywall" -> 0 [] OTHER -> fails]

classifyHealthStatus(answer, fails) ==
  [health |-> CASE Failing(answer) /\ Up(fails) = DOWN_AFTER -> "down"
                [] answer.kind = "error" /\ Up(fails) < DOWN_AFTER -> "unknown"
                [] OTHER -> "up",
   fails |-> CASE Failing(answer) -> Up(fails)
               [] answer.kind = "paywall" -> 0
               [] OTHER -> fails]

(* A sibling the 402 does not show is degraded and keeps its count. *)
SiblingVerdict(r, answer, fails) ==
  IF answer.kind = "paywall" /\ r \notin answer.shown
  THEN [health |-> "up", fails |-> fails]
  ELSE classifyHealthStatus(answer, fails)

(* The order once some rows are the latest checked: the others come before them,
   and nothing else changes.  There is one such order. *)
Reordered(done) ==
  LET MoreOverdue(a, b) == IF a \in done <=> b \in done THEN Age(a) < Age(b) ELSE b \in done
  IN {o \in SetToSeqs(Rows) : \A i, j \in DOMAIN o : i < j => MoreOverdue(o[i], o[j])}

(* persistHealthResult for the rows of a verdict; the foreign key of the log
   keeps a row that is gone from being written. *)
Persist(verdict, answer) ==
  LET done == {r \in DOMAIN verdict : row[r].state # "gone"}
  IN
  /\ row' = [r \in Rows |-> IF r \in done THEN [row[r] EXCEPT !.health = verdict[r].health,
                                                              !.fails = verdict[r].fails]
                            ELSE row[r]]
  /\ recency' \in Reordered(done)
  /\ logged' = logged \union done
  /\ streak' = [r \in Rows |->
                  IF r \notin done \/ ~Lone(r) THEN streak[r]
                  ELSE IF Failing(answer) THEN Up(streak[r])
                  ELSE IF answer.kind = "paywall" THEN 0
                  ELSE streak[r]]

(* A sibling needs no await unless its own protocol was shown. *)
AtOnce(s, answer) == ~s.probeable \/ answer.kind # "paywall" \/ s.row \notin answer.shown

(* The loop over the siblings as far as it gets without an await: the verdicts
   of those at its head, and what is left. *)
AtHead(todo, answer) == Max({n \in 0..Len(todo) : \A i \in 1..n : AtOnce(todo[i], answer)})
HeadVerdicts(todo, answer) ==
  LET head == {s \in ToSet(SubSeq(todo, 1, AtHead(todo, answer))) : s.probeable}
  IN [r \in {s.row : s \in head} |->
        SiblingVerdict(r, answer, (CHOOSE s \in head : s.row = r).fails)]

(* A verdict of row q, those of the siblings at the head of the list, and on. *)
Proceed(r, answer, q, verdict, todo) ==
  LET head == HeadVerdicts(todo, answer)
      verdicts == [x \in DOMAIN head \union {q} |-> IF x \in DOMAIN head THEN head[x] ELSE verdict]
      rest == SubSeq(todo, AtHead(todo, answer) + 1, Len(todo))
  IN
  /\ Persist(verdicts, answer)
  /\ checked' = checked \union DOMAIN verdicts
                        \union (IF rest = <<>> THEN {} ELSE {Head(rest).row})
  /\ check' = [check EXCEPT ![r] = IF rest = <<>> THEN NoCheck
                                   ELSE [@ EXCEPT !.at = "sibling", !.answer = answer, !.todo = rest]]
  /\ UNCHANGED <<out, sweep, troubles, chosen, fault>>

Siblings(r) == {q \in SameUrl(r) \ {r} : row[q].state = "active"}

(* The probe is answered: the row's verdict, from the failures the sweep read.
   The siblings are read now. *)
Recorded(r) ==
  /\ check[r].at = "probing"
  /\ \E answer \in Answers(r), order \in SetToSeqs(Siblings(r)) :
       Proceed(r, answer, r, classifyHealthStatus(answer, check[r].fails),
               [i \in DOMAIN order |-> Read(order[i])])

(* The verdict of a sibling whose protocol was shown. *)
SiblingRecorded(r) ==
  LET s == Head(check[r].todo)
  IN
  /\ check[r].at = "sibling"
  /\ Proceed(r, check[r].answer, s.row, SiblingVerdict(s.row, check[r].answer, s.fails), Tail(check[r].todo))

(* The database refuses the write: the check is given up where it is. *)
StoreFails(r) ==
  /\ check[r].at # "none" /\ Trouble
  /\ fault' = TRUE
  /\ check' = [check EXCEPT ![r] = NoCheck]
  /\ UNCHANGED <<row, out, recency, sweep, checked, streak, logged, chosen>>

----------------------------------------------------------------------------
(* The rest of the index *)

Changed(r, new) ==
  /\ r \in Contested /\ Trouble
  /\ row[r] # new /\ row' = [row EXCEPT ![r] = new]
  /\ UNCHANGED <<out, recency, sweep, checked, check, logged, chosen, fault>>

(* Retired by a poll or deleted by its owner; approved, restored or listed again. *)
Delist(r) ==
  row[r].state = "active" /\ Changed(r, [row[r] EXCEPT !.state = "unlisted"]) /\ UNCHANGED streak
Relist(r) ==
  row[r].state = "unlisted" /\ Changed(r, [row[r] EXCEPT !.state = "active"]) /\ UNCHANGED streak

(* Removed by the administrator, or purged long after its owner deleted it. *)
RowRemoved(r) ==
  row[r].state # "gone" /\ Changed(r, [row[r] EXCEPT !.state = "gone"]) /\ UNCHANGED streak

(* A registration probes on its own and sets the health, not the count. *)
Reregister(r) ==
  row[r].state # "gone" /\ Changed(r, [row[r] EXCEPT !.health = "up"]) /\ UNCHANGED streak

SetUnprobeable(r) ==
  /\ AdminDuringSweep \/ sweep.at = "idle"
  /\ row[r].state # "gone"
  /\ Changed(r, [row[r] EXCEPT !.probeable = FALSE, !.health = "unknown", !.fails = 0])
  /\ streak' = [streak EXCEPT ![r] = 0]

SetProbeable(r) ==
  /\ row[r].state # "gone" /\ Changed(r, [row[r] EXCEPT !.probeable = TRUE]) /\ UNCHANGED streak

----------------------------------------------------------------------------

Next ==
  \/ Tick \/ DiskGuard \/ SweepStart \/ BudgetOver \/ SweepEnd
  \/ Take
  \/ \E r \in Rows :
       \/ Recorded(r) \/ SiblingRecorded(r) \/ StoreFails(r)
       \/ Delist(r) \/ Relist(r) \/ RowRemoved(r) \/ Reregister(r) \/ SetUnprobeable(r) \/ SetProbeable(r)

Spec == Init /\ [][Next]_vars

Advance ==
  \/ Tick \/ Take \/ SweepEnd
  \/ \E r \in Rows : Recorded(r) \/ SiblingRecorded(r)

(* The interval fires, every await of a check has a timeout, and the disk is
   not full for ever.  A sweep has finitely many steps: it is enough that some
   step of it is taken. *)
FairSpec == Spec /\ WF_vars(Advance) /\ SF_vars(SweepStart)

----------------------------------------------------------------------------
(* What holds *)

(* The count a row is judged by is the number of failing checks logged in a
   row, although it is written from a copy read when the sweep began. *)
StreakMatchesLog == \A r \in Rows : Lone(r) => row[r].fails = streak[r]

(* A sweep that keeps its budget has checked every row it set out to check:
   no row is left out because a sibling's probe was to cover it. *)
SweepCovers ==
  [][sweep.at = "checking" /\ sweep'.at = "idle" /\ ~sweep.over /\ ~fault
       => \A r \in chosen : r \in logged \/ row[r].state = "gone"]_vars

(* Budgets end sweeps early, but no row that stays on the list is put off for
   ever, as long as a sweep gets past the first tier. *)
EveryRowChecked ==
  \A r \in Rows : <>[](r \in Candidates(out)) => []<>(r \in logged)

----------------------------------------------------------------------------
(* What the repository says and the code does not do *)

(* checkService: skip if already checked by a sibling in this cycle; a row
   whose own probe is under way is checked a second time. *)
OneCheckPerSweep == \A r \in logged : check[r].at # "probing"

(* checkService: the health of an unprobeable row is the administrator's. *)
UnprobeableUntouched == \A r \in Rows : ~row[r].probeable => row[r].fails = 0
============================================================================
