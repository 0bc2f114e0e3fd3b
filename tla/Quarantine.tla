---------------------------- MODULE Quarantine ----------------------------
(***************************************************************************)
(* Host quarantine (src/health/quarantine.js): taking a host that stopped  *)
(* answering with a paywall out of every count and list, and putting it    *)
(* back.  One host is modelled: hosts share nothing but the run.           *)
(*                                                                         *)
(* A run reads the host's row, awaits its probes, and writes the row back  *)
(* from the copy it read.  The operator's scripts (scripts/ops) are other  *)
(* processes on the same database and may write between the two.           *)
(*                                                                         *)
(* A timestamp is modelled by its age, which grows with time up to MaxAge, *)
(* an age past every threshold.  NoAge is NULL.                            *)
(***************************************************************************)
EXTENDS Integers

CONSTANTS
  ENTER,                      \* failing runs before a host is excluded
  EXIT, LARGE_EXIT,           \* passing runs before it is back
  EXIT_HOURS, LARGE_EXIT_HOURS,
  FLAP_WINDOW,                \* re-entry within it is held
  MIN_GAP,                    \* a streak advances at most once per gap
  MaxAge,                     \* bound: older ages are not told apart
  MaxOps,                     \* bound: how often an operator steps in
  OpsDuringRun                \* may an operator step in while a run probes?

ASSUME QuarantineAssumption ==
  /\ ENTER \in Nat \ {0, 1} /\ EXIT \in Nat \ {0} /\ LARGE_EXIT \in Nat /\ LARGE_EXIT >= EXIT
  /\ EXIT_HOURS \in Nat /\ LARGE_EXIT_HOURS \in Nat /\ LARGE_EXIT_HOURS >= EXIT_HOURS
  /\ FLAP_WINDOW \in Nat /\ MIN_GAP \in Nat \ {0}
  /\ MaxAge \in Nat /\ MaxAge > FLAP_WINDOW /\ MaxAge > LARGE_EXIT_HOURS
  /\ MaxAge > ENTER * MIN_GAP
  /\ MaxOps \in Nat /\ OpsDuringRun \in BOOLEAN

NoAge == -1
Ages == NoAge .. MaxAge
States == {"none", "watch", "quarantined", "held", "released"}
Excluded == {"quarantined", "held"}

NoRow == [state |-> "none", fails |-> 0, passes |-> 0,
          firstPass |-> NoAge, exited |-> NoAge, probed |-> NoAge]
HostRows == [state : States, fails : 0..ENTER, passes : 0..LARGE_EXIT,
         firstPass : Ages, exited : Ages, probed : Ages]

VARIABLES
  host,      \* the host's row in quarantined_hosts
  running,  \* a run is probing the host
  snap,     \* the copy of the row it read
  outByLog,   \* whether the last quarantine_events row says excluded
  ops,      \* how often an operator stepped in
  \* history
  bad,      \* failing verdicts in a row, and the age of the first
  good,     \* passing verdicts in a row, and the age of the first
  left      \* age of the last move out of the excluded states

qVars == <<host, running, snap, outByLog, ops, bad, good, left>>

QTypeOK ==
  /\ host \in HostRows /\ snap \in HostRows
  /\ running \in BOOLEAN /\ outByLog \in BOOLEAN
  /\ ops \in 0..MaxOps
  /\ bad \in [n : 0..ENTER, age : Ages]
  /\ good \in [n : 0..LARGE_EXIT, age : Ages]
  /\ left \in Ages

NoStreak == [n |-> 0, age |-> NoAge]

QInit ==
  /\ host = NoRow /\ snap = NoRow
  /\ running = FALSE /\ outByLog = FALSE
  /\ ops = 0
  /\ bad = NoStreak /\ good = NoStreak
  /\ left = NoAge

Grown(n, top) == IF n < top THEN n + 1 ELSE top
Older(age) == IF age = NoAge THEN NoAge ELSE Grown(age, MaxAge)
OlderRow(r) == [r EXCEPT !.firstPass = Older(@), !.exited = Older(@), !.probed = Older(@)]

TimePasses ==
  /\ host' = OlderRow(host) /\ snap' = OlderRow(snap)
  /\ bad' = [bad EXCEPT !.age = Older(@)]
  /\ good' = [good EXCEPT !.age = Older(@)]
  /\ left' = Older(left)
  /\ UNCHANGED <<running, outByLog, ops>>

----------------------------------------------------------------------------
(* evaluateQuarantine *)

(* The exit records the flap rule no longer needs are pruned first. *)
Pruned == IF host.state = "released" /\ host.exited >= FLAP_WINDOW THEN NoRow ELSE host

(* Bug: the gap between two evaluations is not kept. *)
AnyTime(r) == TRUE

(* A row probed less than MIN_GAP ago is left out of the run. *)
Due(r) == r.probed = NoAge \/ r.probed >= MIN_GAP

(* The run reads the table. A host without a row is read as a candidate once
   the sweep has driven its rows down, which can be at any time. *)
StartRun ==
  /\ ~running /\ Due(Pruned)
  /\ host' = Pruned
  /\ snap' = Pruned
  /\ running' = TRUE
  /\ UNCHANGED <<outByLog, ops, bad, good, left>>


(* Bug: a host that answers on watch is forgotten, exit record and all. *)
Forgotten == IF snap.state \in {"watch", "released"} THEN NoRow ELSE host

(* The host answers: a host with an exit record keeps it. *)
Answering ==
  IF snap.exited # NoAge
  THEN [snap EXCEPT !.state = "released", !.fails = 0, !.passes = 0, !.probed = 0]
  ELSE IF snap.state = "watch" THEN NoRow ELSE host

(* The host fails: one more failing run on watch, or out it goes. *)
HostFails ==
  IF snap.fails + 1 >= ENTER
  THEN [snap EXCEPT
          !.state = IF snap.exited # NoAge /\ snap.exited <= FLAP_WINDOW THEN "held" ELSE "quarantined",
          !.fails = ENTER, !.passes = 0, !.firstPass = NoAge, !.probed = 0]
  ELSE [snap EXCEPT !.state = "watch", !.fails = @ + 1, !.passes = 0, !.firstPass = NoAge, !.probed = 0]

Streak(pays) == IF pays THEN Grown(snap.passes, LARGE_EXIT) ELSE 0

(* Bug: every passing run starts the clock again. *)
LatestPass(pays) == IF pays THEN 0 ELSE NoAge

FirstPass(pays) == IF ~pays THEN NoAge ELSE IF snap.firstPass = NoAge THEN 0 ELSE snap.firstPass

(* Bug: either enough runs or enough time is enough. *)
EitherIsEnough(pays, large) ==
  \/ Streak(pays) >= (IF large THEN LARGE_EXIT ELSE EXIT)
  \/ FirstPass(pays) >= (IF large THEN LARGE_EXIT_HOURS ELSE EXIT_HOURS)

(* Enough passing runs and enough time since the first of them. *)
MayLeave(pays, large) ==
  /\ Streak(pays) >= (IF large THEN LARGE_EXIT ELSE EXIT)
  /\ FirstPass(pays) >= (IF large THEN LARGE_EXIT_HOURS ELSE EXIT_HOURS)

Passing(pays) == [snap EXCEPT !.passes = Streak(pays), !.firstPass = FirstPass(pays), !.probed = 0]

OfQuarantined(pays, large) ==
  IF MayLeave(pays, large)
  THEN [snap EXCEPT !.state = "released", !.fails = 0, !.passes = 0, !.firstPass = NoAge,
                    !.exited = 0, !.probed = 0]
  ELSE [Passing(pays) EXCEPT !.fails = IF pays THEN @ ELSE Grown(@, ENTER)]

OfHeld(pays, large) == Passing(pays)

(* What the run writes. A probe set answers with a 402 (pays), with a 2xx
   alone, or not at all; `large` is whether the host has many active rows now. *)
Written(answers, pays, large) ==
  CASE snap.state = "held" -> OfHeld(pays, large)
    [] snap.state = "quarantined" -> OfQuarantined(pays, large)
    [] OTHER -> IF answers THEN Answering ELSE HostFails

(* One quarantine_events row per move the run makes into or out of the
   excluded states, as it sees them: from the copy it read. *)
Moves(to) == (snap.state \in Excluded) # (to \in Excluded)

Extended(streak, more, top) ==
  IF ~more THEN NoStreak
  ELSE [n |-> Grown(streak.n, top), age |-> IF streak.n = 0 THEN 0 ELSE streak.age]

LeftAt(before, after) == IF before \in Excluded /\ after \notin Excluded THEN 0 ELSE left

Verdict(answers, pays, large) ==
  /\ running
  /\ host' = Written(answers, pays, large)
  /\ outByLog' = IF Moves(host'.state) THEN host'.state \in Excluded ELSE outByLog
  /\ running' = FALSE
  /\ snap' = NoRow
  /\ bad' = Extended(bad, ~answers, ENTER)
  /\ good' = Extended(good, pays, LARGE_EXIT)
  /\ left' = LeftAt(host.state, host'.state)
  /\ UNCHANGED ops

(* The process dies while it probes: nothing of the run is kept. *)
Crash ==
  /\ running
  /\ running' = FALSE
  /\ snap' = NoRow
  /\ UNCHANGED <<host, outByLog, ops, bad, good, left>>

----------------------------------------------------------------------------
(* scripts/ops *)

MayStepIn == ops < MaxOps /\ (OpsDuringRun \/ ~running)

(* seed-quarantine.mjs --yes, with or without --exited-at. *)
Seed(exitedAt) ==
  /\ MayStepIn
  /\ host' = [host EXCEPT !.state = "quarantined", !.passes = 0, !.firstPass = NoAge,
                        !.fails = IF host.state = "none" THEN ENTER ELSE @,
                        !.exited = IF exitedAt = NoAge THEN @ ELSE exitedAt]
  /\ outByLog' = TRUE
  /\ ops' = ops + 1
  /\ UNCHANGED <<running, snap, bad, good, left>>

(* release-held.mjs --yes, which refuses a host that is not held. *)
ReleaseHeld ==
  /\ MayStepIn /\ host.state = "held"
  /\ host' = [host EXCEPT !.state = "released", !.exited = 0, !.fails = 0, !.passes = 0, !.firstPass = NoAge]
  /\ outByLog' = FALSE
  /\ ops' = ops + 1
  /\ left' = LeftAt(host.state, "released")
  /\ UNCHANGED <<running, snap, bad, good>>

----------------------------------------------------------------------------

(* A 402 counts as an answer. *)
SomeVerdict ==
  \E large \in BOOLEAN :
    Verdict(TRUE, TRUE, large) \/ Verdict(TRUE, FALSE, large) \/ Verdict(FALSE, FALSE, large)

QNext ==
  \/ TimePasses
  \/ StartRun \/ SomeVerdict \/ Crash
  \/ \E exitedAt \in {NoAge, 1, FLAP_WINDOW} : Seed(exitedAt)
  \/ ReleaseHeld

QSpec == QInit /\ [][QNext]_qVars

(* Time passes; a health run starts every interval and its probes end. *)
QFairSpec == QSpec /\ WF_qVars(TimePasses) /\ WF_qVars(StartRun) /\ SF_qVars(SomeVerdict)

----------------------------------------------------------------------------
(* What holds *)

ByRun == running /\ ~running'

(* A run takes a host out of the counts only after ENTER failing verdicts in
   a row, spread over ENTER - 1 gaps: restarts do not count as evidence. *)
EntryHasEvidence ==
  [][ByRun /\ host.state \notin Excluded /\ host'.state \in Excluded =>
       bad'.n = ENTER /\ bad'.age >= (ENTER - 1) * MIN_GAP]_qVars

(* A run puts a host back only after EXIT passing verdicts in a row, the first
   of them EXIT_HOURS ago, and never a held one. *)
ExitHasEvidence ==
  [][ByRun /\ host.state \in Excluded /\ host'.state \notin Excluded =>
       /\ host.state = "quarantined"
       /\ good'.n >= EXIT /\ good'.age >= EXIT_HOURS]_qVars

(* A host that leaves and re-enters within the flap window is held, whatever
   it did on watch in between and whatever was pruned. *)
FlapIsHeld ==
  [][ByRun /\ host.state \notin Excluded /\ host'.state \in Excluded /\ left # NoAge /\ left <= FLAP_WINDOW
       => host'.state = "held"]_qVars

(* quarantine_events and quarantined_hosts agree on whether the host is out. *)
EventsTellState == outByLog <=> host.state \in Excluded

(* A quarantined host that answers 402 from some run on is put back. *)
PayingHostReturns ==
  <>[](good.n > 0) => [](host.state = "quarantined" => <>(host.state # "quarantined"))

----------------------------------------------------------------------------
(* What the scripts say and a run in flight undoes *)

(* release-held.mjs: the host becomes 'released'. *)
ReleaseSticks ==
  [][ByRun /\ host.state = "released" /\ host'.state = "held" => bad'.n = ENTER]_qVars

(* seed-quarantine.mjs: the seeded host leaves quarantine the normal way. *)
SeedLeavesNormally ==
  [][ByRun /\ host.state = "quarantined" /\ host'.state \notin Excluded => good'.n >= EXIT]_qVars
===========================================================================
