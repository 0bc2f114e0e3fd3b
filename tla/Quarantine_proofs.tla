------------------------- MODULE Quarantine_proofs -------------------------
(***************************************************************************)
(* What moves a host into the quarantine and out of it, for all thresholds *)
(* and any number of runs, crashes and operator's steps between the runs.  *)
(* The invariant relates the counters in the host's row to the verdicts of *)
(* the runs, and the exit record to the last time the host left.           *)
(***************************************************************************)
EXTENDS Quarantine, TLAPS

(* A run writes over the row it read. *)
RunSeesRow ==
  running => snap = host /\ (host.state = "watch" => host.probed >= MIN_GAP)

(* The failures of a host that is not excluded are failing verdicts in a row,
   a gap between any two of them. *)
Capped(age, top) == IF age <= top THEN age ELSE top

FailsAreBad ==
  /\ bad.n > 0 => bad.age >= 0
  /\ host.state \in {"none", "released"} => host.fails = 0
  /\ host.state = "watch" =>
       /\ host.fails > 0 /\ host.fails < ENTER /\ host.fails <= bad.n
       /\ host.probed >= 0
       /\ bad.age >= (host.fails - 1) * MIN_GAP + Capped(host.probed, MIN_GAP)

(* The passes are passing verdicts in a row; only an excluded host has any. *)
PassesAreGood ==
  /\ host.passes <= good.n
  /\ host.firstPass # NoAge => good.n > 0 /\ good.age >= host.firstPass
  /\ good.n > 0 => good.age >= 0
  /\ host.state \notin Excluded => host.passes = 0 /\ host.firstPass = NoAge

(* A host that left keeps its exit record for as long as a flap would count; at
   the last moment it may go, and then the host is not in again before the
   window is over. *)
ExitIsKept ==
  host.state \notin Excluded /\ left # NoAge =>
    \/ host.exited # NoAge /\ host.exited <= left
    \/ left > FLAP_WINDOW
    \/ left = FLAP_WINDOW /\ (host.fails = 0 \/ (host.state = "watch" /\ host.fails = 1 /\ host.probed = 0))

QInv == QTypeOK /\ RunSeesRow /\ EventsTellState /\ FailsAreBad /\ PassesAreGood /\ ExitIsKept

BetweenRuns == OpsDuringRun = FALSE

----------------------------------------------------------------------------
(* Ages *)

LEMMA MaxAgeNat == MaxAge \in Nat /\ NoAge \in Int /\ NoAge < 0
BY QuarantineAssumption DEF NoAge

LEMMA OlderAge ==
  ASSUME NEW a \in Ages
  PROVE  /\ Older(a) \in Ages /\ (Older(a) = NoAge <=> a = NoAge)
         /\ a # NoAge => Older(a) >= 0 /\ Older(a) >= a
         /\ \A b \in Ages : b <= a => Older(b) <= Older(a)
         /\ a # NoAge /\ a < MaxAge => Older(a) = a + 1
BY QuarantineAssumption DEF Older, Grown, Ages, NoAge

LEMMA Thresholds ==
  /\ ENTER \in Nat /\ ENTER > 1 /\ EXIT \in Nat /\ EXIT > 0 /\ LARGE_EXIT \in Nat /\ LARGE_EXIT >= EXIT
  /\ EXIT_HOURS \in Nat /\ LARGE_EXIT_HOURS \in Nat /\ LARGE_EXIT_HOURS >= EXIT_HOURS
  /\ FLAP_WINDOW \in Nat /\ MIN_GAP \in Nat /\ MIN_GAP > 0 /\ MaxAge \in Nat /\ MaxAge > FLAP_WINDOW
  /\ MaxOps \in Nat
BY QuarantineAssumption

LEMMA Zeroes ==
  /\ NoAge \in Ages /\ 0 \in Ages /\ 0 \in 0..ENTER /\ ENTER \in 0..ENTER /\ 0 \in 0..LARGE_EXIT
  /\ 0 \in 0..MaxOps
BY Thresholds DEF Ages, NoAge

LEMMA GrownIn ==
  ASSUME NEW top \in Nat, NEW n \in 0..top
  PROVE  /\ Grown(n, top) \in 0..top /\ Grown(n, top) >= n
         /\ n < top => Grown(n, top) = n + 1
         /\ n = top => Grown(n, top) = top
         /\ \A m \in 0..top : m <= n => Grown(m, top) <= Grown(n, top)
BY DEF Grown

(* The gaps fit into what can be told apart. *)
LEMMA GapsFit ==
  ASSUME NEW n \in 0..ENTER
  PROVE  n * MIN_GAP \in Nat /\ n * MIN_GAP < MaxAge /\ (n + 1) * MIN_GAP = n * MIN_GAP + MIN_GAP
<1>1. n \in Nat /\ ENTER \in Nat /\ MIN_GAP \in Nat /\ n <= ENTER /\ ENTER * MIN_GAP < MaxAge
  BY QuarantineAssumption
<1>2. n * MIN_GAP <= ENTER * MIN_GAP
  BY <1>1
<1>3. n * MIN_GAP \in Nat /\ ENTER * MIN_GAP \in Nat /\ MaxAge \in Nat
  BY <1>1, QuarantineAssumption
<1>. QED BY <1>1, <1>2, <1>3

LEMMA NoRowIsRow == NoRow \in HostRows
BY QuarantineAssumption DEF NoRow, HostRows, States, Ages, NoAge

----------------------------------------------------------------------------
(* The steps *)

LEMMA QInitInv == QInit => QInv
<1> SUFFICES ASSUME QInit PROVE QInv
  OBVIOUS
<1>1. QTypeOK
  BY NoRowIsRow, Zeroes DEF QInit, QTypeOK, NoStreak
<1>2. RunSeesRow /\ EventsTellState /\ FailsAreBad /\ PassesAreGood /\ ExitIsKept
  BY DEF QInit, NoRow, NoStreak, RunSeesRow, EventsTellState, FailsAreBad, PassesAreGood, ExitIsKept, Excluded
<1>. QED BY <1>1, <1>2 DEF QInv

LEMMA OlderRowKeeps ==
  ASSUME NEW r \in HostRows
  PROVE  /\ OlderRow(r) \in HostRows
         /\ OlderRow(r).state = r.state /\ OlderRow(r).fails = r.fails /\ OlderRow(r).passes = r.passes
         /\ OlderRow(r).firstPass = Older(r.firstPass) /\ OlderRow(r).exited = Older(r.exited)
         /\ OlderRow(r).probed = Older(r.probed)
BY OlderAge DEF OlderRow, HostRows

LEMMA TimeInv ==
  ASSUME QInv, TimePasses
  PROVE  QInv'
<1>1. /\ host' = OlderRow(host) /\ snap' = OlderRow(snap) /\ host \in HostRows /\ snap \in HostRows
      /\ bad' = [bad EXCEPT !.age = Older(bad.age)] /\ good' = [good EXCEPT !.age = Older(good.age)]
      /\ left' = Older(left) /\ UNCHANGED <<running, outByLog, ops>>
      /\ bad.age \in Ages /\ good.age \in Ages /\ left \in Ages
  BY DEF TimePasses, QInv, QTypeOK
<1>2. /\ host' \in HostRows /\ host'.state = host.state /\ host'.fails = host.fails /\ host'.passes = host.passes
      /\ host'.firstPass = Older(host.firstPass) /\ host'.exited = Older(host.exited)
      /\ host'.probed = Older(host.probed)
      /\ host.state \in States /\ host.fails \in 0..ENTER /\ host.passes \in 0..LARGE_EXIT
      /\ host.firstPass \in Ages /\ host.exited \in Ages /\ host.probed \in Ages
  BY <1>1, OlderRowKeeps DEF HostRows
<1>3. /\ bad'.n = bad.n /\ bad'.age = Older(bad.age) /\ good'.n = good.n /\ good'.age = Older(good.age)
      /\ bad' \in [n : 0..ENTER, age : Ages] /\ good' \in [n : 0..LARGE_EXIT, age : Ages]
  BY <1>1, OlderAge DEF QInv, QTypeOK
<1>4. QTypeOK'
  BY <1>1, <1>2, <1>3, OlderRowKeeps, OlderAge DEF QInv, QTypeOK
<1>5. RunSeesRow'
  <2>1. SUFFICES ASSUME running
                 PROVE  host' = snap' /\ (host'.state = "watch" => host'.probed >= MIN_GAP)
    BY <1>1 DEF RunSeesRow
  <2>2. snap = host /\ (host.state = "watch" => host.probed >= MIN_GAP)
    BY <2>1 DEF QInv, RunSeesRow
  <2>3. host.state = "watch" => Older(host.probed) >= host.probed
    BY <2>2, <1>2, OlderAge, QuarantineAssumption DEF NoAge
  <2>4. host.state = "watch" => Older(host.probed) >= MIN_GAP
    BY <2>2, <2>3, <1>2, OlderAge, QuarantineAssumption DEF Ages, NoAge
  <2>. QED BY <2>2, <2>4, <1>1, <1>2
<1>6. EventsTellState'
  BY <1>1, <1>2 DEF QInv, EventsTellState
<1>7. FailsAreBad'
  <2>1. bad'.n > 0 => bad'.age >= 0
    BY <1>1, <1>3, OlderAge DEF QInv, FailsAreBad, NoAge
  <2>2. ASSUME host.state = "watch"
        PROVE  /\ host'.probed >= 0
               /\ bad'.age >= (host.fails - 1) * MIN_GAP + Capped(host'.probed, MIN_GAP)
    <3>1. /\ host.fails > 0 /\ host.fails < ENTER /\ host.probed >= 0
          /\ bad.age >= (host.fails - 1) * MIN_GAP + Capped(host.probed, MIN_GAP)
      BY <2>2 DEF QInv, FailsAreBad
    <3>2. PICK f \in 0..ENTER : f = host.fails - 1 /\ f < ENTER
      BY <3>1, <1>2, QuarantineAssumption
    <3>3. f * MIN_GAP \in Nat /\ f * MIN_GAP + MIN_GAP < MaxAge
      <4>1. f + 1 \in 0..ENTER
        BY <3>2, QuarantineAssumption
      <4>. QED BY <4>1, GapsFit
    <3>4. PICK m \in Nat : m = f * MIN_GAP
      BY <3>3
    <3>5. MIN_GAP \in Nat /\ MaxAge \in Nat /\ host.probed \in Nat /\ host.probed <= MaxAge /\ bad.age \in Nat
          /\ bad.age <= MaxAge
      BY <3>1, <3>2, <3>3, <1>1, <1>2, QuarantineAssumption DEF Ages, NoAge, Capped
    <3>6. bad.age >= m + Capped(host.probed, MIN_GAP) /\ m + MIN_GAP < MaxAge
      BY <3>1, <3>2, <3>3, <3>4
    <3>7. /\ Older(host.probed) = IF host.probed < MaxAge THEN host.probed + 1 ELSE MaxAge
          /\ Older(bad.age) = IF bad.age < MaxAge THEN bad.age + 1 ELSE MaxAge
      BY <3>5 DEF Older, Grown, NoAge
    <3>8. Older(bad.age) >= m + Capped(Older(host.probed), MIN_GAP)
      BY <3>5, <3>6, <3>7 DEF Capped
    <3>. QED BY <3>2, <3>4, <3>5, <3>7, <3>8, <1>2, <1>3
  <2>. QED BY <2>1, <2>2, <1>2, <1>3 DEF QInv, FailsAreBad
<1>8. PassesAreGood'
  <2>1. host.firstPass # NoAge => good.n > 0 /\ good.age >= host.firstPass
    BY DEF QInv, PassesAreGood
  <2>2. Older(host.firstPass) # NoAge => good.n > 0 /\ Older(good.age) >= Older(host.firstPass)
    BY <2>1, <1>1, <1>2, OlderAge
  <2>3. good.n > 0 => Older(good.age) >= 0
    BY <1>1, OlderAge DEF QInv, PassesAreGood, NoAge
  <2>4. host.state \notin Excluded => Older(host.firstPass) = NoAge
    BY <1>2, OlderAge DEF QInv, PassesAreGood
  <2>. QED BY <2>2, <2>3, <2>4, <1>2, <1>3 DEF QInv, PassesAreGood
<1>9. ExitIsKept'
  <2>1. SUFFICES ASSUME host.state \notin Excluded, left # NoAge
                 PROVE  \/ Older(host.exited) # NoAge /\ Older(host.exited) <= Older(left)
                        \/ Older(left) > FLAP_WINDOW
    BY <1>1, <1>2, OlderAge DEF ExitIsKept
  <2>2. CASE host.exited # NoAge /\ host.exited <= left
    BY <2>2, <1>1, <1>2, OlderAge
  <2>3. CASE left >= FLAP_WINDOW
    BY <2>1, <2>3, <1>1, QuarantineAssumption DEF Older, Grown, Ages, NoAge
  <2>4. left > FLAP_WINDOW \/ left = FLAP_WINDOW => left >= FLAP_WINDOW
    BY <1>1, QuarantineAssumption DEF Ages, NoAge
  <2>. QED BY <2>1, <2>2, <2>3, <2>4 DEF QInv, ExitIsKept
<1>. QED BY <1>4, <1>5, <1>6, <1>7, <1>8, <1>9 DEF QInv

LEMMA StartInv ==
  ASSUME QInv, StartRun
  PROVE  QInv'
<1>1. /\ ~running /\ Due(Pruned) /\ host' = Pruned /\ snap' = Pruned /\ running' = TRUE
      /\ UNCHANGED <<outByLog, ops, bad, good, left>>
  BY DEF StartRun
<1>2. CASE ~(host.state = "released" /\ host.exited >= FLAP_WINDOW)
  <2>1. host' = host /\ snap' = host /\ Due(host)
    BY <1>1, <1>2 DEF Pruned
  <2>2. QTypeOK' /\ EventsTellState' /\ FailsAreBad' /\ PassesAreGood' /\ ExitIsKept'
    BY <1>1, <2>1 DEF QInv, QTypeOK, EventsTellState, FailsAreBad, PassesAreGood, ExitIsKept
  <2>3. host.state = "watch" => host.probed >= 0
    BY DEF QInv, FailsAreBad
  <2>4. RunSeesRow'
    BY <1>1, <2>1, <2>3 DEF RunSeesRow, Due, NoAge
  <2>. QED BY <2>2, <2>4 DEF QInv
<1>3. CASE host.state = "released" /\ host.exited >= FLAP_WINDOW
  <2>1. host' = NoRow /\ snap' = NoRow
    BY <1>1, <1>3 DEF Pruned
  <2>2. /\ NoRow.state = "none" /\ NoRow.fails = 0 /\ NoRow.passes = 0 /\ NoRow.firstPass = NoAge
        /\ NoRow.exited = NoAge
    BY DEF NoRow
  <2>3. QTypeOK'
    BY <1>1, <2>1, NoRowIsRow DEF QInv, QTypeOK
  <2>4. RunSeesRow' /\ EventsTellState'
    BY <1>1, <1>3, <2>1, <2>2 DEF QInv, RunSeesRow, EventsTellState, Excluded
  <2>5. FailsAreBad' /\ PassesAreGood'
    BY <1>1, <1>3, <2>1, <2>2, Thresholds DEF QInv, QTypeOK, FailsAreBad, PassesAreGood
  <2>6. ExitIsKept'
    <3>1. SUFFICES ASSUME left # NoAge
                   PROVE  left > FLAP_WINDOW \/ left = FLAP_WINDOW
      BY <1>1, <2>1, <2>2 DEF ExitIsKept
    <3>2. left \in Int /\ host.exited \in Int
      BY Thresholds DEF QInv, QTypeOK, HostRows, Ages, NoAge
    <3>. QED BY <1>3, <3>1, <3>2, Thresholds DEF QInv, ExitIsKept, Excluded
  <2>. QED BY <2>3, <2>4, <2>5, <2>6 DEF QInv
<1>. QED BY <1>2, <1>3

LEMMA CrashInv ==
  ASSUME QInv, Crash
  PROVE  QInv'
<1>1. running' = FALSE /\ snap' = NoRow /\ UNCHANGED <<host, outByLog, ops, bad, good, left>>
  BY DEF Crash
<1>. QED BY <1>1, NoRowIsRow DEF QInv, QTypeOK, RunSeesRow, EventsTellState, FailsAreBad, PassesAreGood, ExitIsKept

LEMMA SeedInv ==
  ASSUME QInv, BetweenRuns, NEW e \in {NoAge, 1, FLAP_WINDOW}, Seed(e)
  PROVE  QInv'
<1>1. /\ ops < MaxOps /\ ~running /\ running' = running /\ ops' = ops + 1 /\ outByLog' = TRUE
      /\ UNCHANGED <<snap, bad, good, left>>
      /\ host' = [host EXCEPT !.state = "quarantined", !.passes = 0, !.firstPass = NoAge,
                             !.fails = IF host.state = "none" THEN ENTER ELSE host.fails,
                             !.exited = IF e = NoAge THEN host.exited ELSE e]
  BY DEF Seed, MayStepIn, BetweenRuns
<1>2. host \in HostRows /\ e \in Ages
  BY Thresholds DEF QInv, QTypeOK, Ages, NoAge
<1>3. /\ host' \in HostRows /\ host'.state = "quarantined" /\ host'.passes = 0 /\ host'.firstPass = NoAge
  BY <1>1, <1>2, Zeroes DEF HostRows, States
<1>4. QTypeOK'
  BY <1>1, <1>3, Thresholds DEF QInv, QTypeOK
<1>5. RunSeesRow' /\ EventsTellState' /\ FailsAreBad' /\ ExitIsKept'
  BY <1>1, <1>3 DEF QInv, RunSeesRow, EventsTellState, FailsAreBad, ExitIsKept, Excluded
<1>6. PassesAreGood'
  BY <1>1, <1>3, Thresholds DEF QInv, QTypeOK, PassesAreGood
<1>. QED BY <1>4, <1>5, <1>6 DEF QInv

LEMMA ReleaseInv ==
  ASSUME QInv, BetweenRuns, ReleaseHeld
  PROVE  QInv'
<1>1. /\ ops < MaxOps /\ ~running /\ running' = running /\ ops' = ops + 1 /\ outByLog' = FALSE
      /\ UNCHANGED <<snap, bad, good>> /\ host.state = "held" /\ left' = LeftAt(host.state, "released")
      /\ host' = [host EXCEPT !.state = "released", !.exited = 0, !.fails = 0, !.passes = 0, !.firstPass = NoAge]
  BY DEF ReleaseHeld, MayStepIn, BetweenRuns
<1>2. host \in HostRows
  BY DEF QInv, QTypeOK
<1>3. /\ host' \in HostRows /\ host'.state = "released" /\ host'.passes = 0 /\ host'.firstPass = NoAge
      /\ host'.fails = 0 /\ host'.exited = 0
  BY <1>1, <1>2, Zeroes DEF HostRows, States
<1>4. left' = 0
  BY <1>1 DEF LeftAt, Excluded
<1>5. QTypeOK'
  <2>1. ops' \in 0..MaxOps
    BY <1>1, Thresholds DEF QInv, QTypeOK
  <2>. QED BY <2>1, <1>1, <1>3, <1>4, Zeroes DEF QInv, QTypeOK
<1>6. RunSeesRow' /\ EventsTellState' /\ FailsAreBad'
  BY <1>1, <1>3 DEF QInv, RunSeesRow, EventsTellState, FailsAreBad, Excluded
<1>7. PassesAreGood'
  BY <1>1, <1>3, Thresholds DEF QInv, QTypeOK, PassesAreGood
<1>8. ExitIsKept'
  BY <1>3, <1>4 DEF ExitIsKept, NoAge
<1>. QED BY <1>5, <1>6, <1>7, <1>8 DEF QInv

(* What a run may write, by the state it read. *)
LEMMA WrittenShape ==
  ASSUME host \in HostRows, snap = host,
         NEW answers \in BOOLEAN, NEW pays \in BOOLEAN, NEW large \in BOOLEAN, pays => answers
  PROVE  LET w == Written(answers, pays, large)
         IN /\ w \in HostRows
            /\ \/ /\ host.state \in Excluded /\ w.state = host.state
                  /\ w.passes = Streak(pays) /\ w.firstPass = FirstPass(pays)
               \/ /\ host.state = "quarantined" /\ MayLeave(pays, large) /\ w.state = "released"
                  /\ w.fails = 0 /\ w.passes = 0 /\ w.firstPass = NoAge /\ w.exited = 0
               \/ /\ host.state \notin Excluded /\ answers /\ w.state \in {"none", "released"}
                  /\ w.passes = 0 \/ w.passes = host.passes
                  /\ w.firstPass = NoAge \/ w.firstPass = host.firstPass
                  /\ w.exited = host.exited
                  /\ w.fails = 0 \/ (w.fails = host.fails /\ w.state = host.state)
               \/ /\ host.state \notin Excluded /\ ~answers /\ w.passes = 0 /\ w.firstPass = NoAge
                  /\ w.exited = host.exited
                  /\ host.fails + 1 >= ENTER
                  /\ w.state = IF host.exited # NoAge /\ host.exited <= FLAP_WINDOW THEN "held" ELSE "quarantined"
               \/ /\ host.state \notin Excluded /\ ~answers /\ w.passes = 0 /\ w.firstPass = NoAge
                  /\ w.exited = host.exited
                  /\ host.fails + 1 < ENTER /\ w.state = "watch" /\ w.fails = host.fails + 1 /\ w.probed = 0
<1> DEFINE w == Written(answers, pays, large)
<1>1. /\ host.state \in States /\ host.fails \in 0..ENTER /\ host.passes \in 0..LARGE_EXIT
      /\ host.firstPass \in Ages /\ host.exited \in Ages /\ host.probed \in Ages
  BY DEF HostRows
<1>2. Streak(pays) \in 0..LARGE_EXIT /\ FirstPass(pays) \in Ages /\ Grown(host.fails, ENTER) \in 0..ENTER
  BY <1>1, Zeroes, GrownIn, Thresholds DEF Streak, FirstPass
<1>3. CASE host.state = "held"
  <2>1. w = [host EXCEPT !.passes = Streak(pays), !.firstPass = FirstPass(pays), !.probed = 0]
    BY <1>3 DEF Written, OfHeld, Passing
  <2>. QED BY <2>1, <1>2, <1>3, Zeroes DEF HostRows, Excluded
<1>4. CASE host.state = "quarantined" /\ MayLeave(pays, large)
  <2>1. w = [host EXCEPT !.state = "released", !.fails = 0, !.passes = 0, !.firstPass = NoAge,
                         !.exited = 0, !.probed = 0]
    BY <1>4 DEF Written, OfQuarantined
  <2>. QED BY <2>1, <1>4, Zeroes DEF HostRows, States
<1>5. CASE host.state = "quarantined" /\ ~MayLeave(pays, large)
  <2>1. PICK f \in 0..ENTER : f = IF pays THEN host.fails ELSE Grown(host.fails, ENTER)
    BY <1>1, <1>2
  <2>2. w = [Passing(pays) EXCEPT !.fails = IF pays THEN Passing(pays).fails ELSE Grown(Passing(pays).fails, ENTER)]
    BY <1>5 DEF Written, OfQuarantined
  <2>3. Passing(pays) = [host EXCEPT !.passes = Streak(pays), !.firstPass = FirstPass(pays), !.probed = 0]
    BY DEF Passing
  <2>4. Passing(pays).fails = host.fails
    BY <2>3 DEF HostRows
  <2>5. w = [host EXCEPT !.passes = Streak(pays), !.firstPass = FirstPass(pays), !.probed = 0, !.fails = f]
    BY <2>1, <2>2, <2>3, <2>4
  <2>. QED BY <2>5, <1>2, <1>5, Zeroes DEF HostRows, Excluded
<1>6. CASE host.state \notin Excluded /\ answers
  <2>1. w = Answering /\ host.state \in {"none", "watch", "released"}
    BY <1>6, <1>1 DEF Written, Excluded, States
  <2>2. CASE host.exited # NoAge
    <3>1. w = [host EXCEPT !.state = "released", !.fails = 0, !.passes = 0, !.probed = 0]
      BY <2>1, <2>2 DEF Answering
    <3>. QED BY <3>1, <1>6, Zeroes DEF HostRows, States
  <2>3. CASE host.exited = NoAge /\ host.state = "watch"
    <3>1. w = NoRow
      BY <2>1, <2>3 DEF Answering
    <3>. QED BY <3>1, <2>3, <1>6, NoRowIsRow DEF NoRow
  <2>4. CASE host.exited = NoAge /\ host.state # "watch"
    <3>1. w = host
      BY <2>1, <2>4 DEF Answering
    <3>. QED BY <3>1, <2>1, <2>4, <1>6
  <2>. QED BY <2>2, <2>3, <2>4
<1>7. CASE host.state \notin Excluded /\ ~answers
  <2>1. w = HostFails
    BY <1>7, <1>1 DEF Written, Excluded, States
  <2>2. CASE host.fails + 1 >= ENTER
    <3>1. PICK t \in {"held", "quarantined"} :
            t = IF host.exited # NoAge /\ host.exited <= FLAP_WINDOW THEN "held" ELSE "quarantined"
      OBVIOUS
    <3>2. w = [host EXCEPT !.state = t, !.fails = ENTER, !.passes = 0, !.firstPass = NoAge, !.probed = 0]
      BY <2>1, <2>2, <3>1 DEF HostFails
    <3>3. w \in HostRows /\ w.state = t /\ w.passes = 0 /\ w.firstPass = NoAge /\ w.exited = host.exited
      BY <3>2, Zeroes DEF HostRows, States
    <3>. QED BY <3>1, <3>3, <2>2, <1>7
  <2>3. CASE ~(host.fails + 1 >= ENTER)
    <3>1. PICK f \in 0..ENTER : f = host.fails + 1
      BY <2>3, <1>1, Thresholds
    <3>2. w = [host EXCEPT !.state = "watch", !.fails = f, !.passes = 0, !.firstPass = NoAge, !.probed = 0]
      BY <2>1, <2>3, <3>1 DEF HostFails
    <3>3. /\ w \in HostRows /\ w.state = "watch" /\ w.passes = 0 /\ w.firstPass = NoAge
          /\ w.exited = host.exited /\ w.fails = f /\ w.probed = 0
      BY <3>2, Zeroes DEF HostRows, States
    <3>. QED BY <3>1, <3>3, <2>3, <1>1, <1>7, Thresholds
  <2>. QED BY <2>2, <2>3
<1>8. host.state \in Excluded => host.state \in {"held", "quarantined"}
  BY DEF Excluded
<1>. QED BY <1>3, <1>4, <1>5, <1>6, <1>7, <1>8

(* A streak that one more verdict extends. *)
LEMMA StreakGrows ==
  ASSUME NEW top \in Nat, top > 0, NEW streak \in [n : 0..top, age : Ages], streak.n > 0 => streak.age >= 0,
         NEW x, x = [n |-> Grown(streak.n, top), age |-> IF streak.n = 0 THEN 0 ELSE streak.age]
  PROVE  /\ x \in [n : 0..top, age : Ages] /\ x.age >= 0
         /\ x.n = Grown(streak.n, top) /\ x.n > 0
         /\ x.age = IF streak.n = 0 THEN 0 ELSE streak.age
<1>1. streak.n \in 0..top /\ streak.age \in Ages
  OBVIOUS
<1>2. Grown(streak.n, top) \in 0..top /\ Grown(streak.n, top) > 0
  BY <1>1 DEF Grown
<1>3. PICK a \in Ages : a = (IF streak.n = 0 THEN 0 ELSE streak.age) /\ a >= 0
  BY <1>1, Zeroes
<1>. QED BY <1>2, <1>3

LEMMA StreakEnds ==
  ASSUME NEW top \in Nat
  PROVE  NoStreak \in [n : 0..top, age : Ages] /\ NoStreak.n = 0
BY Zeroes DEF NoStreak

(* One more failing verdict. *)
LEMMA BadGrows ==
  ASSUME QInv, running, host.state \notin Excluded,
         bad' = [n |-> Grown(bad.n, ENTER), age |-> IF bad.n = 0 THEN 0 ELSE bad.age]
  PROVE  host.fails < ENTER /\ bad'.n >= host.fails + 1 /\ bad'.age >= host.fails * MIN_GAP
<1>1. /\ host.state \in {"none", "released", "watch"} /\ host.fails \in 0..ENTER /\ host.probed \in Ages
      /\ bad.n \in 0..ENTER /\ bad.age \in Ages
  BY DEF QInv, QTypeOK, HostRows, States, Excluded
<1>2. /\ bad'.n = Grown(bad.n, ENTER) /\ bad'.n > 0 /\ bad'.n \in 0..ENTER /\ bad'.age >= 0
      /\ bad'.age = IF bad.n = 0 THEN 0 ELSE bad.age
  <2>1. bad \in [n : 0..ENTER, age : Ages] /\ (bad.n > 0 => bad.age >= 0)
    BY DEF QInv, QTypeOK, FailsAreBad
  <2>2. PICK x : x = bad'
    OBVIOUS
  <2>3. /\ x \in [n : 0..ENTER, age : Ages] /\ x.age >= 0 /\ x.n = Grown(bad.n, ENTER) /\ x.n > 0
        /\ x.age = IF bad.n = 0 THEN 0 ELSE bad.age
    BY <2>1, <2>2, Thresholds, StreakGrows
  <2>. QED BY <2>2, <2>3
<1>3. CASE host.state # "watch"
  <2>1. host.fails = 0
    BY <1>1, <1>3 DEF QInv, FailsAreBad
  <2>2. 0 * MIN_GAP = 0
    BY Thresholds
  <2>3. bad'.n >= 0 + 1
    BY <1>2, Thresholds
  <2>. QED BY <2>1, <2>2, <2>3, <1>2, Thresholds
<1>4. CASE host.state = "watch"
  <2>1. /\ host.fails > 0 /\ host.fails < ENTER /\ host.fails <= bad.n /\ host.probed >= MIN_GAP
        /\ bad.age >= (host.fails - 1) * MIN_GAP + Capped(host.probed, MIN_GAP)
    BY <1>4 DEF QInv, FailsAreBad, RunSeesRow
  <2>2. PICK f \in 0..ENTER : f = host.fails - 1
    BY <2>1, <1>1, Thresholds
  <2>3. f * MIN_GAP \in Nat /\ (f + 1) * MIN_GAP = f * MIN_GAP + MIN_GAP
    BY GapsFit
  <2>4. Capped(host.probed, MIN_GAP) = MIN_GAP
    BY <2>1, <1>1, Thresholds DEF Capped, Ages, NoAge
  <2>5. f + 1 = host.fails
    BY <2>2, <1>1, Thresholds
  <2>6. bad.age >= f * MIN_GAP + MIN_GAP
    BY <2>1, <2>2, <2>4
  <2>7. bad.age >= host.fails * MIN_GAP
    BY <2>3, <2>5, <2>6
  <2>8. bad'.n >= host.fails + 1
    <3>1. Grown(bad.n, ENTER) = IF bad.n < ENTER THEN bad.n + 1 ELSE ENTER
      BY DEF Grown
    <3>. QED BY <3>1, <2>1, <1>1, <1>2, Thresholds
  <2>9. bad.n # 0
    BY <2>1, <1>1, Thresholds
  <2>. QED BY <2>1, <2>7, <2>8, <2>9, <1>2
<1>. QED BY <1>3, <1>4

(* One more verdict, passing or not. *)
LEMMA GoodGrows ==
  ASSUME QInv, snap = host, NEW pays \in BOOLEAN,
         good' = IF pays THEN [n |-> Grown(good.n, LARGE_EXIT), age |-> IF good.n = 0 THEN 0 ELSE good.age]
                 ELSE NoStreak
  PROVE  /\ good' \in [n : 0..LARGE_EXIT, age : Ages] /\ (good'.n > 0 => good'.age >= 0)
         /\ Streak(pays) <= good'.n
         /\ FirstPass(pays) # NoAge => good'.n > 0 /\ good'.age >= FirstPass(pays)
<1>1. /\ host.passes \in 0..LARGE_EXIT /\ host.firstPass \in Ages /\ good.n \in 0..LARGE_EXIT /\ good.age \in Ages
      /\ good \in [n : 0..LARGE_EXIT, age : Ages]
      /\ host.passes <= good.n /\ (host.firstPass # NoAge => good.n > 0 /\ good.age >= host.firstPass)
      /\ good.n > 0 => good.age >= 0
  BY DEF QInv, QTypeOK, HostRows, PassesAreGood
<1>2. LARGE_EXIT \in Nat /\ LARGE_EXIT > 0
  BY Thresholds
<1>3. /\ good' \in [n : 0..LARGE_EXIT, age : Ages] /\ (good'.n > 0 => good'.age >= 0)
      /\ pays => /\ good'.n = Grown(good.n, LARGE_EXIT) /\ good'.n > 0
                 /\ good'.age = IF good.n = 0 THEN 0 ELSE good.age
      /\ ~pays => good'.n = 0
  <2>1. PICK x : x = good'
    OBVIOUS
  <2>2. CASE pays
    <3>1. /\ x \in [n : 0..LARGE_EXIT, age : Ages] /\ x.age >= 0 /\ x.n = Grown(good.n, LARGE_EXIT) /\ x.n > 0
          /\ x.age = IF good.n = 0 THEN 0 ELSE good.age
      BY <1>1, <1>2, <2>1, <2>2, StreakGrows
    <3>. QED BY <3>1, <2>1, <2>2
  <2>3. CASE ~pays
    BY <1>2, <2>3, StreakEnds
  <2>. QED BY <2>2, <2>3
<1>4. CASE pays
  <2>1. Streak(pays) <= good'.n
    <3>1. Streak(pays) = Grown(host.passes, LARGE_EXIT)
      BY <1>4 DEF Streak
    <3>2. Grown(host.passes, LARGE_EXIT) <= Grown(good.n, LARGE_EXIT)
      BY <1>1, <1>2 DEF Grown
    <3>. QED BY <3>1, <3>2, <1>3, <1>4
  <2>2. FirstPass(pays) = IF host.firstPass = NoAge THEN 0 ELSE host.firstPass
    BY <1>4 DEF FirstPass
  <2>3. good'.age >= FirstPass(pays)
    <3>1. CASE host.firstPass = NoAge
      BY <3>1, <2>2, <1>3, <1>4
    <3>2. CASE host.firstPass # NoAge
      <4>1. good.n > 0 /\ good.n # 0 /\ good.age >= host.firstPass
        BY <3>2, <1>1
      <4>. QED BY <4>1, <3>2, <2>2, <1>3, <1>4
    <3>. QED BY <3>1, <3>2
  <2>. QED BY <2>1, <2>3, <1>3, <1>4
<1>5. CASE ~pays
  BY <1>3, <1>5 DEF Streak, FirstPass
<1>. QED BY <1>4, <1>5

(* What the verdict of a run leaves. *)
LEMMA VerdictInv ==
  ASSUME QInv, NEW answers \in BOOLEAN, NEW pays \in BOOLEAN, NEW large \in BOOLEAN, pays => answers,
         Verdict(answers, pays, large)
  PROVE  QInv'
<1> DEFINE w == Written(answers, pays, large)
<1>1. /\ running /\ snap = host /\ host' = w /\ running' = FALSE /\ snap' = NoRow /\ ops' = ops
      /\ outByLog' = IF Moves(w.state) THEN w.state \in Excluded ELSE outByLog
      /\ bad' = IF answers THEN NoStreak
                ELSE [n |-> Grown(bad.n, ENTER), age |-> IF bad.n = 0 THEN 0 ELSE bad.age]
      /\ good' = IF pays THEN [n |-> Grown(good.n, LARGE_EXIT), age |-> IF good.n = 0 THEN 0 ELSE good.age]
                 ELSE NoStreak
      /\ left' = LeftAt(host.state, w.state)
  BY DEF Verdict, QInv, RunSeesRow, Extended
<1>2. host \in HostRows /\ host.state \in States /\ host.fails \in 0..ENTER /\ host.exited \in Ages /\ left \in Ages
  BY DEF QInv, QTypeOK, HostRows
<1>3. w \in HostRows
  BY <1>1, <1>2, WrittenShape
<1>4. bad' \in [n : 0..ENTER, age : Ages] /\ (bad'.n > 0 => bad'.age >= 0)
  <2>1. bad \in [n : 0..ENTER, age : Ages] /\ (bad.n > 0 => bad.age >= 0)
    BY DEF QInv, QTypeOK, FailsAreBad
  <2>2. PICK x : x = bad'
    OBVIOUS
  <2>3. CASE answers
    BY <2>3, <1>1, Thresholds, StreakEnds
  <2>4. CASE ~answers
    <3>1. x \in [n : 0..ENTER, age : Ages] /\ x.age >= 0
      BY <2>1, <2>2, <2>4, <1>1, Thresholds, StreakGrows
    <3>. QED BY <3>1, <2>2
  <2>. QED BY <2>3, <2>4
<1>5. /\ good' \in [n : 0..LARGE_EXIT, age : Ages] /\ (good'.n > 0 => good'.age >= 0)
      /\ Streak(pays) <= good'.n
      /\ FirstPass(pays) # NoAge => good'.n > 0 /\ good'.age >= FirstPass(pays)
  BY <1>1, GoodGrows
<1>6. QTypeOK'
  <2>1. left' \in Ages
    BY <1>1, <1>2, Zeroes DEF LeftAt
  <2>2. outByLog' \in BOOLEAN
    <3>1. CASE Moves(w.state)
      BY <1>1, <3>1
    <3>2. CASE ~Moves(w.state)
      BY <1>1, <3>2 DEF QInv, QTypeOK
    <3>. QED BY <3>1, <3>2
  <2>. QED BY <2>1, <2>2, <1>1, <1>3, <1>4, <1>5, NoRowIsRow DEF QInv, QTypeOK
<1>7. RunSeesRow'
  BY <1>1 DEF RunSeesRow
<1>8. EventsTellState'
  BY <1>1 DEF QInv, EventsTellState, Moves
<1> DEFINE After == FailsAreBad' /\ PassesAreGood' /\ ExitIsKept'
<1>9. good'.n \in Int /\ 0 <= good'.n /\ NoAge \in Int
  BY <1>5, Thresholds DEF NoAge
<1>10. ASSUME host.state \in Excluded, w.state = host.state,
              w.passes = Streak(pays), w.firstPass = FirstPass(pays)
       PROVE  After
  BY <1>1, <1>4, <1>5, <1>10 DEF FailsAreBad, PassesAreGood, ExitIsKept, Excluded
<1>11. ASSUME host.state = "quarantined", w.state = "released",
              w.fails = 0, w.passes = 0, w.firstPass = NoAge, w.exited = 0
       PROVE  After
  <2>1. left' = 0
    BY <1>1, <1>11 DEF LeftAt, Excluded
  <2>. QED BY <2>1, <1>1, <1>4, <1>5, <1>9, <1>11 DEF FailsAreBad, PassesAreGood, ExitIsKept, Excluded, NoAge
<1>12. ASSUME host.state \notin Excluded
       PROVE  left' = left /\ host.passes = 0 /\ host.firstPass = NoAge
              /\ (host.state \in {"none", "released"} => host.fails = 0)
  BY <1>1, <1>12 DEF LeftAt, QInv, PassesAreGood, FailsAreBad
<1>13. ASSUME host.state \notin Excluded, answers, w.state \in {"none", "released"},
              w.passes = 0 \/ w.passes = host.passes, w.firstPass = NoAge \/ w.firstPass = host.firstPass,
              w.exited = host.exited, w.fails = 0 \/ (w.fails = host.fails /\ w.state = host.state)
       PROVE  After
  <2>1. w.fails = 0 /\ w.passes = 0 /\ w.firstPass = NoAge
    BY <1>12, <1>13
  <2>2. FailsAreBad' /\ PassesAreGood'
    BY <2>1, <1>1, <1>4, <1>5, <1>9, <1>13 DEF FailsAreBad, PassesAreGood
  <2>3. ExitIsKept'
    BY <2>1, <1>1, <1>12, <1>13 DEF QInv, ExitIsKept
  <2>. QED BY <2>2, <2>3
<1>14. ASSUME host.state \notin Excluded, ~answers, w.passes = 0, w.firstPass = NoAge, w.state \in Excluded
       PROVE  After
  BY <1>1, <1>4, <1>5, <1>9, <1>14 DEF FailsAreBad, PassesAreGood, ExitIsKept, Excluded
<1>15. ASSUME host.state \notin Excluded, ~answers, w.passes = 0, w.firstPass = NoAge, w.exited = host.exited,
              host.fails + 1 < ENTER, w.state = "watch", w.fails = host.fails + 1, w.probed = 0
       PROVE  After
  <2>1. bad'.n >= host.fails + 1 /\ bad'.age >= host.fails * MIN_GAP
    BY <1>1, <1>15, BadGrows
  <2>2. FailsAreBad'
    <3>1. w.fails - 1 = host.fails /\ Capped(0, MIN_GAP) = 0 /\ host.fails * MIN_GAP \in Nat
      BY <1>2, <1>15, GapsFit, Thresholds DEF Capped
    <3>2. bad'.age >= (w.fails - 1) * MIN_GAP + Capped(w.probed, MIN_GAP)
      BY <2>1, <3>1, <1>15
    <3>3. w.fails > 0 /\ w.fails < ENTER /\ w.fails <= bad'.n
      BY <2>1, <1>2, <1>4, <1>15, Thresholds
    <3>. QED BY <3>2, <3>3, <1>1, <1>4, <1>15 DEF FailsAreBad
  <2>3. PassesAreGood'
    BY <1>1, <1>5, <1>9, <1>15 DEF PassesAreGood
  <2>4. ExitIsKept'
    <3>1. host.state = "watch" => host.probed # 0
      BY <1>1, Thresholds DEF QInv, RunSeesRow
    <3>2. left' = left
      BY <1>12, <1>15
    <3>3. host.fails = 0 => w.fails = 1
      BY <1>15
    <3>. QED BY <3>1, <3>2, <3>3, <1>1, <1>15 DEF QInv, ExitIsKept
  <2>. QED BY <2>2, <2>3, <2>4
<1>16. After
  BY <1>1, <1>2, <1>10, <1>11, <1>13, <1>14, <1>15, WrittenShape DEF Excluded
<1>. QED BY <1>6, <1>7, <1>8, <1>16 DEF QInv

LEMMA SomeVerdictIs ==
  ASSUME SomeVerdict
  PROVE  \E answers \in BOOLEAN, pays \in BOOLEAN, large \in BOOLEAN :
           (pays => answers) /\ Verdict(answers, pays, large)
BY DEF SomeVerdict

LEMMA QNextInv ==
  ASSUME BetweenRuns, QInv, [QNext]_qVars
  PROVE  QInv'
<1>1. CASE UNCHANGED qVars
  BY <1>1 DEF qVars, QInv, QTypeOK, RunSeesRow, EventsTellState, FailsAreBad, PassesAreGood, ExitIsKept
<1>2. CASE TimePasses
  BY <1>2, TimeInv
<1>3. CASE StartRun
  BY <1>3, StartInv
<1>4. CASE SomeVerdict
  BY <1>4, SomeVerdictIs, VerdictInv
<1>5. CASE Crash
  BY <1>5, CrashInv
<1>6. CASE \E e \in {NoAge, 1, FLAP_WINDOW} : Seed(e)
  BY <1>6, SeedInv
<1>7. CASE ReleaseHeld
  BY <1>7, ReleaseInv
<1>. QED BY <1>1, <1>2, <1>3, <1>4, <1>5, <1>6, <1>7 DEF QNext

(* What a run moved it moved by a verdict on the row it had read. *)
LEMMA RunsMoveByVerdict ==
  ASSUME QInv, QNext, ByRun, host' # host
  PROVE  \E answers \in BOOLEAN, pays \in BOOLEAN, large \in BOOLEAN :
           /\ pays => answers
           /\ Verdict(answers, pays, large)
           /\ running /\ snap = host /\ host \in HostRows /\ host' = Written(answers, pays, large)
           /\ bad' = IF answers THEN NoStreak
                     ELSE [n |-> Grown(bad.n, ENTER), age |-> IF bad.n = 0 THEN 0 ELSE bad.age]
           /\ good' = IF pays THEN [n |-> Grown(good.n, LARGE_EXIT), age |-> IF good.n = 0 THEN 0 ELSE good.age]
                      ELSE NoStreak
<1>1. SomeVerdict
  BY DEF QNext, ByRun, TimePasses, StartRun, Crash, Seed, ReleaseHeld
<1>2. PICK answers \in BOOLEAN, pays \in BOOLEAN, large \in BOOLEAN :
        (pays => answers) /\ Verdict(answers, pays, large)
  BY <1>1, SomeVerdictIs
<1>3. /\ running /\ snap = host /\ host \in HostRows /\ host' = Written(answers, pays, large)
      /\ bad' = IF answers THEN NoStreak
                ELSE [n |-> Grown(bad.n, ENTER), age |-> IF bad.n = 0 THEN 0 ELSE bad.age]
      /\ good' = IF pays THEN [n |-> Grown(good.n, LARGE_EXIT), age |-> IF good.n = 0 THEN 0 ELSE good.age]
                 ELSE NoStreak
  BY <1>2 DEF Verdict, QInv, QTypeOK, RunSeesRow, Extended
<1>. QED BY <1>2, <1>3

----------------------------------------------------------------------------
(* The theorems *)

(* quarantine.js and scripts/ops: what the row of a host, the copy a run holds
   and the events say of each other, with the operator between the runs. *)
THEOREM QInductive == ASSUME BetweenRuns PROVE QSpec => []QInv
<1>1. QInv /\ [QNext]_qVars => QInv'
  BY QNextInv
<1>. QED BY <1>1, QInitInv, PTL DEF QSpec

(* quarantine.js: a run excludes a host on ENTER failing verdicts in a row, a
   gap between any two of them, however often the process is restarted. *)
THEOREM EntriesHaveEvidence == ASSUME BetweenRuns PROVE QSpec => EntryHasEvidence
<1>1. ASSUME QInv, [QNext]_qVars
      PROVE  [ByRun /\ host.state \notin Excluded /\ host'.state \in Excluded =>
                bad'.n = ENTER /\ bad'.age >= (ENTER - 1) * MIN_GAP]_qVars
  <2>1. SUFFICES ASSUME QNext, ByRun, host.state \notin Excluded, host'.state \in Excluded
                 PROVE  bad'.n = ENTER /\ bad'.age >= (ENTER - 1) * MIN_GAP
    BY <1>1
  <2>2. PICK answers \in BOOLEAN, pays \in BOOLEAN, large \in BOOLEAN :
          /\ pays => answers
          /\ running /\ snap = host /\ host \in HostRows /\ host' = Written(answers, pays, large)
          /\ bad' = IF answers THEN NoStreak
                    ELSE [n |-> Grown(bad.n, ENTER), age |-> IF bad.n = 0 THEN 0 ELSE bad.age]
    BY <1>1, <2>1, RunsMoveByVerdict
  <2>3. ~answers /\ host.fails + 1 >= ENTER
    BY <2>1, <2>2, WrittenShape, Thresholds DEF Excluded
  <2>4. host.fails < ENTER /\ bad'.n >= host.fails + 1 /\ bad'.age >= host.fails * MIN_GAP
    BY <1>1, <2>1, <2>2, <2>3, BadGrows
  <2>5. host.fails = ENTER - 1
    BY <2>2, <2>3, <2>4, Thresholds DEF HostRows
  <2>6. bad'.n = ENTER
    <3>1. bad'.n \in 0..ENTER
      <4>1. bad.n \in 0..ENTER
        BY <1>1 DEF QInv, QTypeOK
      <4>. QED BY <4>1, <2>2, <2>3, Thresholds, GrownIn
    <3>. QED BY <3>1, <2>4, <2>5, Thresholds
  <2>. QED BY <2>4, <2>5, <2>6
<1>. QED BY <1>1, QInductive, PTL DEF QSpec, EntryHasEvidence

(* quarantine.js: a run puts a host back on EXIT passing verdicts in a row, the
   first of them EXIT_HOURS ago, and a held host on none. *)
THEOREM ExitsHaveEvidence == ASSUME BetweenRuns PROVE QSpec => ExitHasEvidence
<1>1. ASSUME QInv, [QNext]_qVars
      PROVE  [ByRun /\ host.state \in Excluded /\ host'.state \notin Excluded =>
                /\ host.state = "quarantined"
                /\ good'.n >= EXIT /\ good'.age >= EXIT_HOURS]_qVars
  <2>1. SUFFICES ASSUME QNext, ByRun, host.state \in Excluded, host'.state \notin Excluded
                 PROVE  host.state = "quarantined" /\ good'.n >= EXIT /\ good'.age >= EXIT_HOURS
    BY <1>1
  <2>2. PICK answers \in BOOLEAN, pays \in BOOLEAN, large \in BOOLEAN :
          /\ pays => answers
          /\ running /\ snap = host /\ host \in HostRows /\ host' = Written(answers, pays, large)
          /\ good' = IF pays THEN [n |-> Grown(good.n, LARGE_EXIT), age |-> IF good.n = 0 THEN 0 ELSE good.age]
                     ELSE NoStreak
    BY <1>1, <2>1, RunsMoveByVerdict
  <2>3. host.state = "quarantined" /\ MayLeave(pays, large)
    BY <2>1, <2>2, WrittenShape
  <2>4. /\ good' \in [n : 0..LARGE_EXIT, age : Ages]
        /\ Streak(pays) <= good'.n
        /\ FirstPass(pays) # NoAge => good'.n > 0 /\ good'.age >= FirstPass(pays)
    BY <1>1, <2>2, GoodGrows
  <2>5. Streak(pays) \in 0..LARGE_EXIT /\ FirstPass(pays) \in Ages
    BY <2>2, Zeroes, GrownIn, Thresholds DEF Streak, FirstPass, HostRows
  <2>6. Streak(pays) >= EXIT /\ FirstPass(pays) >= EXIT_HOURS
    BY <2>3, <2>5, Thresholds DEF MayLeave, Ages, NoAge
  <2>7. FirstPass(pays) # NoAge
    BY <2>6, Thresholds DEF NoAge
  <2>8. good'.n \in 0..LARGE_EXIT /\ good'.age \in Ages
    BY <2>4
  <2>. QED BY <2>3, <2>4, <2>5, <2>6, <2>7, <2>8, Thresholds DEF Ages, NoAge
<1>. QED BY <1>1, QInductive, PTL DEF QSpec, ExitHasEvidence

(* quarantine.js: a host that is excluded again within the flap window is held,
   whatever happened on watch and whatever the pruning took. *)
THEOREM FlapsAreHeld == ASSUME BetweenRuns PROVE QSpec => FlapIsHeld
<1>1. ASSUME QInv, [QNext]_qVars
      PROVE  [ByRun /\ host.state \notin Excluded /\ host'.state \in Excluded /\ left # NoAge /\ left <= FLAP_WINDOW
                => host'.state = "held"]_qVars
  <2>1. SUFFICES ASSUME QNext, ByRun, host.state \notin Excluded, host'.state \in Excluded,
                        left # NoAge, left <= FLAP_WINDOW
                 PROVE  host'.state = "held"
    BY <1>1
  <2>2. PICK answers \in BOOLEAN, pays \in BOOLEAN, large \in BOOLEAN :
          /\ pays => answers
          /\ running /\ snap = host /\ host \in HostRows /\ host' = Written(answers, pays, large)
    BY <1>1, <2>1, RunsMoveByVerdict
  <2>3. /\ host.fails + 1 >= ENTER
        /\ host'.state = IF host.exited # NoAge /\ host.exited <= FLAP_WINDOW THEN "held" ELSE "quarantined"
    BY <2>1, <2>2, WrittenShape DEF Excluded
  <2>4. host.fails \in 0..ENTER /\ host.exited \in Ages /\ left \in Ages
    BY <1>1, <2>2 DEF QInv, QTypeOK, HostRows
  <2>5. host.fails # 0
    BY <2>3, <2>4, Thresholds
  <2>6. ~(host.state = "watch" /\ host.probed = 0)
    BY <1>1, <2>2, Thresholds DEF QInv, RunSeesRow
  <2>7. ~(left > FLAP_WINDOW)
    BY <2>1, <2>4, Thresholds DEF Ages, NoAge
  <2>8. host.exited # NoAge /\ host.exited <= left
    BY <1>1, <2>1, <2>5, <2>6, <2>7 DEF QInv, ExitIsKept
  <2>. QED BY <2>1, <2>3, <2>4, <2>8, Thresholds DEF Ages, NoAge
<1>. QED BY <1>1, QInductive, PTL DEF QSpec, FlapIsHeld

(* quarantine.js and scripts/ops: quarantine_events tells of every host whether
   it is excluded, whichever of the three wrote last. *)
THEOREM EventsTell == ASSUME BetweenRuns PROVE QSpec => []EventsTellState
<1>1. QInv => EventsTellState
  BY DEF QInv
<1>. QED BY <1>1, QInductive, PTL

===========================================================================
