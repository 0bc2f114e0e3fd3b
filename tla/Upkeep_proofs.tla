--------------------------- MODULE Upkeep_proofs ---------------------------
(* What keeps the index of a running server true, for any rows, hosts, requests
   and limits: the sweep of the health checker, the line in front of a host,
   the rollup of the query log and the migrations of a boot.  Four components
   that share nothing, one invariant each; the last section of every part is
   its theorem. *)
EXTENDS HealthSweep, ProbeQueue, QueryLog, Migrations, SumLemmas, SequenceTheorems

(***************************************************************************)
(* The sweep                                                               *)
(***************************************************************************)

Reading == [row : Rows, fails : 0..DOWN_AFTER, probeable : BOOLEAN]
Answer == [kind : Kinds, shown : SUBSET Rows]
Verdict == [health : {"up", "down", "unknown"}, fails : 0..DOWN_AFTER]

Service == [state : {"active", "unlisted", "gone"}, probeable : BOOLEAN,
            health : {"up", "down", "unknown"}, fails : 0..DOWN_AFTER]
Check == [at : {"none", "probing", "sibling"}, fails : 0..DOWN_AFTER, answer : Answer, todo : Seq(Reading)]

SweepTyped ==
  /\ row \in [Rows -> Service]
  /\ sweep \in [at : {"idle", "preparing", "checking"}, queue : Seq(Reading), begun : Nat, over : BOOLEAN]
  /\ check \in [Rows -> Check]
  /\ streak \in [Rows -> 0..DOWN_AFTER]
  /\ checked \subseteq Rows /\ chosen \subseteq Rows /\ logged \subseteq Rows

(* The siblings a check has left to do are other rows of its url. *)
OthersOf(r, todo) == \A i \in DOMAIN todo : todo[i].row \in SameUrl(r) /\ todo[i].row # r

SiblingsAreOthers ==
  \A r \in Rows : check[r].at = "sibling" => check[r].todo # <<>> /\ OthersOf(r, check[r].todo)

(* Between sweeps nothing is queued and nothing is under way. *)
SweepRests == sweep.at # "checking" => sweep.queue = <<>> /\ \A r \in Rows : check[r].at = "none"

(* A row is queued once, and not while it is checked. *)
QueuedOnce ==
  /\ \A i, j \in DOMAIN sweep.queue : sweep.queue[i].row = sweep.queue[j].row => i = j
  /\ \A i \in DOMAIN sweep.queue : check[sweep.queue[i].row].at = "none"

(* The copies of a row without siblings, in the queue and in its check, hold
   the count that is stored: it is written by its own verdict alone. *)
CopiesAreCurrent ==
  /\ \A i \in DOMAIN sweep.queue :
       Lone(sweep.queue[i].row) => sweep.queue[i].fails = row[sweep.queue[i].row].fails
  /\ \A r \in Rows : Lone(r) /\ check[r].at = "probing" => check[r].fails = row[r].fails

(* A row of the sweep is in the queue until it is marked as checked, ... *)
ChosenAreQueued ==
  sweep.at = "checking" =>
    \A r \in chosen : r \in checked \/ \E i \in DOMAIN sweep.queue : sweep.queue[i].row = r

(* ... and a marked row has its verdict or somebody is about to write it. *)
Attended(r) ==
  \/ r \in logged \/ row[r].state = "gone" \/ check[r].at = "probing"
  \/ \E q \in Rows : check[q].at = "sibling" /\ Head(check[q].todo).row = r

MarkedAreAttended ==
  sweep.at = "checking" /\ ~fault => \A r \in checked : Attended(r)

SweepInv ==
  /\ SweepTyped /\ SiblingsAreOthers /\ SweepRests /\ QueuedOnce
  /\ ChosenAreQueued /\ MarkedAreAttended

CountInv == CopiesAreCurrent /\ StreakMatchesLog
LEMMA UpBounded == ASSUME NEW n \in 0..DOWN_AFTER PROVE Up(n) \in 0..DOWN_AFTER
<1>. USE SweepAssumption
<1>1. n \in Nat /\ n + 1 \in Nat /\ DOWN_AFTER \in Nat /\ DOWN_AFTER \in 0..DOWN_AFTER
  OBVIOUS
<1>2. \E x \in {n + 1, DOWN_AFTER} : \A y \in {n + 1, DOWN_AFTER} : x <= y
  <2>1. CASE n + 1 <= DOWN_AFTER
    BY <1>1, <2>1
  <2>2. CASE DOWN_AFTER <= n + 1
    BY <1>1, <2>2
  <2>. QED BY <1>1, <2>1, <2>2
<1>3. PICK m : m = Up(n)
  OBVIOUS
<1>4. m \in {n + 1, DOWN_AFTER} /\ \A y \in {n + 1, DOWN_AFTER} : m <= y
  BY <1>2, <1>3 DEF Up, Min
<1>. QED BY <1>1, <1>3, <1>4

(* What the verdict says of the count. *)
CountAfter(answer, n) ==
  IF Failing(answer) THEN Up(n) ELSE IF answer.kind = "paywall" THEN 0 ELSE n

LEMMA VerdictTyped ==
  ASSUME NEW answer \in Answer, NEW n \in 0..DOWN_AFTER
  PROVE  /\ classifyHealthStatus(answer, n) \in Verdict
         /\ classifyHealthStatus(answer, n).fails = CountAfter(answer, n)
<1>1. Up(n) \in 0..DOWN_AFTER /\ 0 \in 0..DOWN_AFTER
  BY UpBounded, SweepAssumption
<1>2. answer.kind \in Kinds
  BY DEF Answer
<1>3. classifyHealthStatus(answer, n).fails = CountAfter(answer, n)
  BY <1>2 DEF classifyHealthStatus, CountAfter, Failing, Kinds
<1>4. classifyHealthStatus(answer, n).health \in {"up", "down", "unknown"}
  BY <1>2 DEF classifyHealthStatus, Failing, Kinds
<1>5. CountAfter(answer, n) \in 0..DOWN_AFTER
  BY <1>1 DEF CountAfter
<1>6. \E h, f : classifyHealthStatus(answer, n) = [health |-> h, fails |-> f]
  BY DEF classifyHealthStatus
<1>. QED BY <1>3, <1>4, <1>5, <1>6 DEF Verdict

LEMMA SiblingVerdictTyped ==
  ASSUME NEW answer \in Answer, NEW n \in 0..DOWN_AFTER, NEW r
  PROVE  SiblingVerdict(r, answer, n) \in Verdict
  BY VerdictTyped DEF SiblingVerdict, Verdict

LEMMA GreatestBelow ==
  ASSUME NEW n \in Nat, NEW S \in SUBSET (0..n), S # {}
  PROVE  Max(S) \in S
<1>0. \A x \in S : x \in Nat /\ x <= n
  <2>1. \A t \in 0..n : t \in Nat /\ t <= n
    OBVIOUS
  <2>. QED BY <2>1
<1>. DEFINE T == {n - x : x \in S}
<1>1. T \in SUBSET Nat /\ T # {}
  <2>1. \A t \in T : t \in Nat
    BY <1>0
  <2>. QED BY <2>1
<1>2. PICK m \in T : \A y \in T : ~(<<y, m>> \in OpToRel(<, Nat))
  BY <1>1, NatLessThanWellFounded, WFMin
<1>3. PICK x \in S : m = n - x
  OBVIOUS
<1>4. \A y \in S : x >= y
  <2>1. SUFFICES ASSUME NEW y \in S, y > x PROVE FALSE
    BY <1>0
  <2>2. n - y \in T /\ n - y \in Nat /\ m \in Nat /\ n - y < m
    BY <1>0, <1>3, <2>1
  <2>3. <<n - y, m>> \in OpToRel(<, Nat)
    BY <2>2 DEF OpToRel
  <2>. QED BY <1>2, <2>2, <2>3
<1>. QED BY <1>4 DEF Max
(* The loop over the siblings stops inside the list, ... *)
LEMMA HeadInside ==
  ASSUME NEW answer, NEW todo \in Seq(Reading)
  PROVE  AtHead(todo, answer) \in 0..Len(todo)
<1>. DEFINE S == {n \in 0..Len(todo) : \A i \in 1..n : AtOnce(todo[i], answer)}
<1>1. Len(todo) \in Nat /\ S \in SUBSET (0..Len(todo))
  OBVIOUS
<1>2. 0 \in S
  OBVIOUS
<1>3. Max(S) \in S
  <2>. HIDE DEF S
  <2>. QED BY <1>1, <1>2, GreatestBelow
<1>4. AtHead(todo, answer) = Max(S)
  BY DEF AtHead
<1>. QED BY <1>3, <1>4

Rest(todo, answer) == SubSeq(todo, AtHead(todo, answer) + 1, Len(todo))

(* ... what is left are rows of the list, ... *)
LEMMA RestOfOthers ==
  ASSUME NEW answer, NEW todo \in Seq(Reading), NEW r \in Rows, OthersOf(r, todo)
  PROVE  Rest(todo, answer) \in Seq(Reading) /\ OthersOf(r, Rest(todo, answer))
<1>1. PICK n \in 0..Len(todo) : n = AtHead(todo, answer)
  BY HeadInside
<1>2. PICK l \in Nat : l = Len(todo)
  OBVIOUS
<1>3. \A i \in (n + 1)..l : todo[i] \in Reading
  BY <1>2
<1>4. PICK s : s = SubSeq(todo, n + 1, l)
  OBVIOUS
<1>5. /\ s \in Seq(Reading) /\ Len(s) = (IF n + 1 <= l THEN l - (n + 1) + 1 ELSE 0)
      /\ \A i \in 1..(l - (n + 1) + 1) : s[i] = todo[n + 1 + i - 1]
  <2>1. n + 1 \in Int /\ l \in Int
    BY <1>2
  <2>. QED BY <1>3, <1>4, <2>1, SubSeqProperties
<1>6. s = Rest(todo, answer)
  BY <1>1, <1>2, <1>4 DEF Rest
<1>7. OthersOf(r, s)
  <2>1. SUFFICES ASSUME NEW i \in DOMAIN s PROVE s[i].row \in SameUrl(r) /\ s[i].row # r
    BY DEF OthersOf
  <2>2. i \in Nat /\ i >= 1 /\ i <= Len(s) /\ Len(s) \in Nat
    BY <1>5
  <2>3. i \in 1..(l - (n + 1) + 1) /\ n + 1 + i - 1 \in 1..l
    BY <1>2, <1>5, <2>2
  <2>4. s[i] = todo[n + 1 + i - 1] /\ n + 1 + i - 1 \in DOMAIN todo
    BY <1>2, <1>5, <2>3
  <2>. QED BY <2>4 DEF OthersOf
<1>. QED BY <1>5, <1>6, <1>7

(* ... and the verdicts at its head are of rows of the list. *)
LEMMA HeadOfOthers ==
  ASSUME NEW answer \in Answer, NEW todo \in Seq(Reading), NEW r \in Rows, OthersOf(r, todo)
  PROVE  \E H \in SUBSET (SameUrl(r) \ {r}) : HeadVerdicts(todo, answer) \in [H -> Verdict]
<1>1. PICK n \in 0..Len(todo) : n = AtHead(todo, answer)
  BY HeadInside
<1>2. PICK s : s = SubSeq(todo, 1, n)
  OBVIOUS
<1>3. s \in Seq(Reading) /\ Len(s) = n /\ \A i \in 1..n : s[i] = todo[i]
  <2>1. n \in Nat /\ n <= Len(todo) /\ Len(todo) \in Nat
    OBVIOUS
  <2>2. \A i \in 1..n : todo[i] \in Reading
    BY <2>1
  <2>3. 1 \in Int /\ n \in Int
    BY <2>1
  <2>4. /\ s \in Seq(Reading) /\ Len(s) = (IF 1 <= n THEN n - 1 + 1 ELSE 0)
        /\ \A i \in 1..(n - 1 + 1) : s[i] = todo[1 + i - 1]
    BY <1>2, <2>2, <2>3, SubSeqProperties
  <2>5. \A i \in 1..n : i \in 1..(n - 1 + 1) /\ 1 + i - 1 = i
    BY <2>1
  <2>. QED BY <2>1, <2>4, <2>5
<1>4. \A p \in ToSet(s) : p \in Reading /\ p.row \in SameUrl(r) /\ p.row # r
  <2>1. SUFFICES ASSUME NEW i \in DOMAIN s
                 PROVE  s[i] \in Reading /\ s[i].row \in SameUrl(r) /\ s[i].row # r
    BY DEF ToSet
  <2>2. i \in 1..n /\ s[i] \in Reading /\ i \in DOMAIN todo
    BY <1>3
  <2>. QED BY <1>3, <2>2 DEF OthersOf
<1>5. PICK head : head = {p \in ToSet(s) : p.probeable}
  OBVIOUS
<1>6. PICK H : H = {p.row : p \in head}
  OBVIOUS
<1>7. H \in SUBSET (SameUrl(r) \ {r})
  <2>1. \A h \in H : h \in SameUrl(r) \ {r}
    BY <1>4, <1>5, <1>6
  <2>. QED BY <2>1
<1>8. HeadVerdicts(todo, answer) = [x \in H |-> SiblingVerdict(x, answer, (CHOOSE one \in head : one.row = x).fails)]
  BY <1>1, <1>2, <1>5, <1>6 DEF HeadVerdicts
<1>9. ASSUME NEW x \in H PROVE SiblingVerdict(x, answer, (CHOOSE one \in head : one.row = x).fails) \in Verdict
  <2>1. \E p \in head : p.row = x
    BY <1>6
  <2>2. PICK p : p = (CHOOSE one \in head : one.row = x)
    OBVIOUS
  <2>3. p \in head
    BY <2>1, <2>2
  <2>4. p.fails \in 0..DOWN_AFTER
    BY <1>4, <1>5, <2>3 DEF Reading
  <2>. QED BY <2>2, <2>4, SiblingVerdictTyped
<1>10. HeadVerdicts(todo, answer) \in [H -> Verdict]
  BY <1>8, <1>9
<1>. QED BY <1>7, <1>10
(* What a step of a check writes: the rows it has verdicts of, but for those
   that are gone, and what is left of the check. *)
Written(D) == {x \in D : row[x].state # "gone"}

Writes(r, answer, verdict, D, rest) ==
  /\ row' \in [Rows -> Service]
  /\ \A x \in Rows : row'[x].state = row[x].state /\ (x \notin Written(D) => row'[x] = row[x])
  /\ r \in Written(D) => row'[r].fails = verdict.fails
  /\ logged' = logged \cup Written(D)
  /\ streak' \in [Rows -> 0..DOWN_AFTER]
  /\ \A x \in Rows :
       streak'[x] = IF x \notin Written(D) \/ ~Lone(x) THEN streak[x] ELSE CountAfter(answer, streak[x])
  /\ checked' = checked \cup D \cup (IF rest = <<>> THEN {} ELSE {Head(rest).row})
  /\ check' = [check EXCEPT ![r] = IF rest = <<>> THEN NoCheck
                                   ELSE [@ EXCEPT !.at = "sibling", !.answer = answer, !.todo = rest]]
  /\ UNCHANGED <<out, sweep, troubles, chosen, fault>>

LEMMA ProceedWrites ==
  ASSUME SweepTyped, NEW r \in Rows, NEW answer \in Answer, NEW q \in SameUrl(r), NEW verdict \in Verdict,
         NEW todo \in Seq(Reading), OthersOf(r, todo),
         Proceed(r, answer, q, verdict, todo)
  PROVE  \E D \in SUBSET SameUrl(r), rest \in Seq(Reading) :
           /\ q \in D /\ (r \in D => r = q) /\ OthersOf(r, rest)
           /\ Writes(r, answer, verdict, D, rest)
<1>1. PICK H \in SUBSET (SameUrl(r) \ {r}) : HeadVerdicts(todo, answer) \in [H -> Verdict]
  BY HeadOfOthers
<1>2. PICK head : head = HeadVerdicts(todo, answer)
  OBVIOUS
<1>3. head \in [H -> Verdict] /\ DOMAIN head = H
  BY <1>1, <1>2
<1>4. PICK D : D = H \cup {q}
  OBVIOUS
<1>5. PICK v : v = [x \in D |-> IF x \in H THEN head[x] ELSE verdict]
  OBVIOUS
<1>6. v \in [D -> Verdict] /\ DOMAIN v = D /\ (r \in D => r = q /\ v[r] = verdict)
  BY <1>1, <1>3, <1>4, <1>5
<1>7. D \in SUBSET SameUrl(r) /\ q \in D /\ D \in SUBSET Rows
  BY <1>1, <1>4 DEF SameUrl
<1>8. PICK rest \in Seq(Reading) : rest = Rest(todo, answer) /\ OthersOf(r, rest)
  BY RestOfOthers
<1>9. /\ Persist(v, answer)
      /\ checked' = checked \cup DOMAIN v \cup (IF rest = <<>> THEN {} ELSE {Head(rest).row})
      /\ check' = [check EXCEPT ![r] = IF rest = <<>> THEN NoCheck
                                       ELSE [@ EXCEPT !.at = "sibling", !.answer = answer, !.todo = rest]]
      /\ UNCHANGED <<out, sweep, troubles, chosen, fault>>
  BY <1>2, <1>3, <1>4, <1>5, <1>8 DEF Proceed, Rest
<1>10. {x \in DOMAIN v : row[x].state # "gone"} = Written(D)
  BY <1>6 DEF Written
<1>11. /\ row' = [x \in Rows |-> IF x \in Written(D)
                                THEN [row[x] EXCEPT !.health = v[x].health, !.fails = v[x].fails] ELSE row[x]]
       /\ logged' = logged \cup Written(D)
       /\ streak' = [x \in Rows |-> IF x \notin Written(D) \/ ~Lone(x) THEN streak[x]
                                    ELSE IF Failing(answer) THEN Up(streak[x])
                                    ELSE IF answer.kind = "paywall" THEN 0 ELSE streak[x]]
  BY <1>9, <1>10 DEF Persist
<1>12. Written(D) \subseteq D
  BY DEF Written
<1>13. ASSUME NEW x \in Rows
       PROVE  /\ row'[x] \in Service /\ row'[x].state = row[x].state
              /\ (x \notin Written(D) => row'[x] = row[x])
              /\ (x \in Written(D) => row'[x].fails = v[x].fails)
  <2>1. row[x] \in Service
    BY DEF SweepTyped
  <2>2. CASE x \in Written(D)
    <3>1. v[x] \in Verdict
      BY <1>6, <1>12, <2>2
    <3>2. row'[x] = [row[x] EXCEPT !.health = v[x].health, !.fails = v[x].fails]
      BY <1>11, <2>2
    <3>. QED BY <2>1, <2>2, <3>1, <3>2 DEF Service, Verdict
  <2>3. CASE x \notin Written(D)
    BY <1>11, <2>1, <2>3
  <2>. QED BY <2>2, <2>3
<1>14. row' \in [Rows -> Service]
  BY <1>11, <1>13
<1>15. r \in Written(D) => row'[r].fails = verdict.fails
  BY <1>6, <1>12, <1>13
<1>16. ASSUME NEW x \in Rows
       PROVE  /\ streak'[x] = IF x \notin Written(D) \/ ~Lone(x) THEN streak[x] ELSE CountAfter(answer, streak[x])
              /\ streak'[x] \in 0..DOWN_AFTER
  <2>1. streak[x] \in 0..DOWN_AFTER /\ Up(streak[x]) \in 0..DOWN_AFTER /\ 0 \in 0..DOWN_AFTER
    BY UpBounded, SweepAssumption DEF SweepTyped
  <2>2. streak'[x] = IF x \notin Written(D) \/ ~Lone(x) THEN streak[x] ELSE CountAfter(answer, streak[x])
    BY <1>11 DEF CountAfter
  <2>. QED BY <2>1, <2>2 DEF CountAfter
<1>17. streak' \in [Rows -> 0..DOWN_AFTER]
  BY <1>11, <1>16
<1>18. Writes(r, answer, verdict, D, rest)
  BY <1>6, <1>9, <1>11, <1>13, <1>14, <1>15, <1>16, <1>17 DEF Writes
<1>. QED BY <1>6, <1>7, <1>8, <1>18

(* The types of a check that went on, and the checks after it. *)
GoneOn(r, rest) ==
  /\ rest = <<>> => check'[r].at = "none"
  /\ rest # <<>> => /\ check'[r].at = "sibling" /\ check'[r].todo = rest
                    /\ Head(rest).row \in SameUrl(r) /\ Head(rest).row # r
  /\ \A x \in Rows : x # r => check'[x] = check[x]

LEMMA WritesTyped ==
  ASSUME SweepTyped, NEW r \in Rows, NEW answer \in Answer, NEW verdict,
         NEW D \in SUBSET SameUrl(r), NEW rest \in Seq(Reading), OthersOf(r, rest),
         Writes(r, answer, verdict, D, rest)
  PROVE  SweepTyped' /\ GoneOn(r, rest)
<1>1. NoCheck \in Check /\ NoCheck.at = "none"
  <2>1. NoAnswer \in Answer
    BY DEF NoAnswer, Answer, Kinds
  <2>2. 0 \in 0..DOWN_AFTER /\ <<>> \in Seq(Reading)
    BY SweepAssumption
  <2>. QED BY <2>1, <2>2 DEF NoCheck, Check
<1>2. PICK c : c = [check[r] EXCEPT !.at = "sibling", !.answer = answer, !.todo = rest]
  OBVIOUS
<1>3. c \in Check /\ c.at = "sibling" /\ c.todo = rest
  <2>1. check[r] \in Check
    BY DEF SweepTyped
  <2>. QED BY <1>2, <2>1 DEF Check
<1>4. check' = [check EXCEPT ![r] = IF rest = <<>> THEN NoCheck ELSE c]
  BY <1>2 DEF Writes, SweepTyped
<1>5. /\ check' \in [Rows -> Check]
      /\ check'[r] = IF rest = <<>> THEN NoCheck ELSE c
      /\ \A x \in Rows : x # r => check'[x] = check[x]
  BY <1>1, <1>3, <1>4 DEF SweepTyped
<1>6. rest # <<>> => Head(rest).row \in SameUrl(r) /\ Head(rest).row # r
  <2>1. SUFFICES ASSUME rest # <<>> PROVE Head(rest).row \in SameUrl(r) /\ Head(rest).row # r
    OBVIOUS
  <2>2. 1 \in DOMAIN rest /\ Head(rest) = rest[1]
    BY <2>1
  <2>. QED BY <2>2 DEF OthersOf
<1>7. D \subseteq Rows /\ Written(D) \subseteq Rows
  BY DEF SameUrl, Written
<1>8. checked' \subseteq Rows /\ logged' \subseteq Rows /\ UNCHANGED <<sweep, chosen>>
  BY <1>6, <1>7 DEF Writes, SweepTyped, SameUrl
<1>9. SweepTyped'
  BY <1>5, <1>8 DEF Writes, SweepTyped
<1>. QED BY <1>1, <1>3, <1>5, <1>6, <1>9 DEF GoneOn
(* Every row of a set has its place in an order of it. *)
LEMMA OrderIsOnto ==
  ASSUME NEW S \in SUBSET Rows, NEW o \in SetToSeqs(S)
  PROVE  /\ o \in Seq(S) /\ \A i, j \in DOMAIN o : o[i] = o[j] => i = j
         /\ \A x \in S : \E i \in DOMAIN o : o[i] = x
<1>1. IsFiniteSet(S)
  BY SweepAssumption, FS_Subset
<1>2. PICK n \in Nat : n = Cardinality(S)
  BY <1>1, FS_CardinalityType
<1>3. o \in [1..n -> S] /\ \A i, j \in 1..n : i # j => o[i] # o[j]
  BY <1>2 DEF SetToSeqs
<1>4. o \in Injection(1..n, S)
  BY <1>3 DEF Injection, IsInjective
<1>5. Cardinality(1..n) = n
  BY FS_CountingElements, FS_Interval
<1>6. o \in Surjection(1..n, S)
  BY <1>1, <1>2, <1>4, <1>5, FS_Injection
<1>7. \A x \in S : \E i \in 1..n : o[i] = x
  BY <1>6 DEF Surjection
<1>. QED BY <1>3, <1>7

LEMMA SameUrlSelf == ASSUME NEW r \in Rows PROVE r \in SameUrl(r) /\ SameUrl(r) \subseteq Rows
  BY DEF SameUrl

LEMMA LoneAlone ==
  ASSUME NEW r \in Rows, NEW x \in SameUrl(r), Lone(x)
  PROVE  x = r
<1>1. x \in Rows /\ Url[x] = Url[r]
  BY DEF SameUrl
<1>2. r \in SameUrl(x)
  BY <1>1 DEF SameUrl
<1>. QED BY <1>2 DEF Lone

LEMMA QueueTyped ==
  ASSUME SweepTyped
  PROVE  /\ sweep.queue \in Seq(Reading)
         /\ \A i \in DOMAIN sweep.queue : sweep.queue[i] \in Reading /\ sweep.queue[i].row \in Rows
<1>1. sweep.queue \in Seq(Reading)
  BY DEF SweepTyped
<1>2. PICK q \in Seq(Reading) : q = sweep.queue
  BY <1>1
<1>3. \A i \in DOMAIN q : q[i] \in Reading
  OBVIOUS
<1>. QED BY <1>1, <1>2, <1>3 DEF Reading

(* A check that goes on keeps the invariant, and the counts. *)
LEMMA CheckGoesOn ==
  ASSUME SweepInv, NEW r \in Rows, check[r].at # "none", NEW answer \in Answer, NEW verdict,
         NEW D \in SUBSET SameUrl(r), NEW rest \in Seq(Reading), OthersOf(r, rest),
         check[r].at = "probing" => r \in D,
         check[r].at = "sibling" => Head(check[r].todo).row \in D,
         Writes(r, answer, verdict, D, rest)
  PROVE  SweepInv'
<1>0. SweepTyped /\ SweepTyped'
  BY WritesTyped DEF SweepInv
<1>1. /\ rest = <<>> => check'[r].at = "none"
      /\ rest # <<>> => /\ check'[r].at = "sibling" /\ check'[r].todo = rest
                        /\ Head(rest).row \in SameUrl(r) /\ Head(rest).row # r
      /\ \A x \in Rows : x # r => check'[x] = check[x]
  <2>1. GoneOn(r, rest)
    BY <1>0, WritesTyped
  <2>. QED BY <2>1 DEF GoneOn
<1>2. UNCHANGED <<sweep, chosen, fault>> /\ sweep.at = "checking"
  BY DEF Writes, SweepInv, SweepRests
<1>3. SiblingsAreOthers'
  <2>1. SUFFICES ASSUME NEW x \in Rows, check'[x].at = "sibling" 
                 PROVE  check'[x].todo # <<>> /\ OthersOf(x, check'[x].todo)
    BY DEF SiblingsAreOthers, OthersOf, SameUrl
  <2>2. CASE x = r
    BY <1>1, <2>1, <2>2
  <2>3. CASE x # r
    BY <1>1, <2>1, <2>3 DEF SweepInv, SiblingsAreOthers
  <2>. QED BY <2>2, <2>3
<1>4. SweepRests'
  BY <1>2 DEF SweepRests
<1>5. QueuedOnce'
  <2>1. \A i \in DOMAIN sweep.queue : sweep.queue[i].row \in Rows
    BY <1>0, QueueTyped
  <2>2. \A i \in DOMAIN sweep.queue : sweep.queue[i].row # r
    BY DEF SweepInv, QueuedOnce
  <2>. QED BY <1>1, <1>2, <2>1, <2>2 DEF SweepInv, QueuedOnce
<1>6. ChosenAreQueued'
  BY <1>2 DEF Writes, SweepInv, ChosenAreQueued
<1>7. MarkedAreAttended'
  <2>1. SUFFICES ASSUME ~fault, NEW x \in checked' PROVE Attended(x)'
    BY <1>2 DEF MarkedAreAttended
  <2>2. \A y \in D : y \in logged' \/ row'[y].state = "gone"
    BY DEF Writes, Written, SameUrl
  <2>3. x \in Rows
    BY <1>0 DEF SweepTyped
  <2>4. CASE x \in D
    BY <2>2, <2>4 DEF Attended
  <2>5. CASE rest # <<>> /\ x = Head(rest).row
    BY <1>1, <2>5 DEF Attended
  <2>6. CASE x \in checked /\ x \notin D
    <3>1. Attended(x)
      BY <1>2, <2>1, <2>6 DEF SweepInv, MarkedAreAttended
    <3>2. CASE x \in logged \/ row[x].state = "gone"
      BY <2>3, <3>2 DEF Writes, Attended
    <3>3. CASE check[x].at = "probing"
      <4>1. x # r
        BY <2>6, <3>3
      <4>. QED BY <1>1, <2>3, <3>3, <4>1 DEF Attended
    <3>4. CASE \E q \in Rows : check[q].at = "sibling" /\ Head(check[q].todo).row = x
      <4>1. PICK q \in Rows : check[q].at = "sibling" /\ Head(check[q].todo).row = x
        BY <3>4
      <4>2. q # r
        BY <2>6, <4>1
      <4>. QED BY <1>1, <4>1, <4>2 DEF Attended
    <3>. QED BY <3>1, <3>2, <3>3, <3>4 DEF Attended
  <2>. QED BY <2>1, <2>4, <2>5, <2>6 DEF Writes
<1>. QED BY <1>0, <1>3, <1>4, <1>5, <1>6, <1>7 DEF SweepInv

LEMMA CheckKeepsCount ==
  ASSUME SweepInv, CountInv, NEW r \in Rows, check[r].at # "none", NEW answer \in Answer, NEW verdict,
         NEW D \in SUBSET SameUrl(r), NEW rest \in Seq(Reading), OthersOf(r, rest),
         r \in D => check[r].at = "probing" /\ verdict.fails = CountAfter(answer, check[r].fails),
         Writes(r, answer, verdict, D, rest)
  PROVE  CountInv'
<1>0. SweepTyped
  BY DEF SweepInv
<1>1. /\ check'[r].at # "probing"
      /\ \A x \in Rows : x # r => check'[x] = check[x]
  <2>1. GoneOn(r, rest)
    BY <1>0, WritesTyped
  <2>. QED BY <2>1 DEF GoneOn
<1>2. ASSUME NEW x \in Rows, Lone(x), x # r PROVE row'[x] = row[x] /\ streak'[x] = streak[x]
  <2>1. x \notin D
    BY <1>2, LoneAlone
  <2>. QED BY <2>1 DEF Writes, Written
<1>3. StreakMatchesLog'
  <2>1. SUFFICES ASSUME NEW x \in Rows, Lone(x) PROVE row'[x].fails = streak'[x]
    BY DEF StreakMatchesLog, Lone, SameUrl
  <2>2. row[x].fails = streak[x]
    BY <2>1 DEF CountInv, StreakMatchesLog
  <2>3. CASE x # r
    BY <1>2, <2>1, <2>2, <2>3
  <2>4. CASE x = r /\ r \notin Written(D)
    BY <2>2, <2>4 DEF Writes
  <2>5. CASE x = r /\ r \in Written(D)
    <3>1. check[r].at = "probing" /\ verdict.fails = CountAfter(answer, check[r].fails)
      BY <2>5 DEF Written
    <3>2. check[r].fails = row[r].fails
      BY <2>1, <2>5, <3>1 DEF CountInv, CopiesAreCurrent
    <3>3. streak'[r] = CountAfter(answer, streak[r])
      BY <2>1, <2>5 DEF Writes
    <3>4. row'[r].fails = verdict.fails
      BY <2>5 DEF Writes
    <3>. QED BY <2>2, <2>5, <3>1, <3>2, <3>3, <3>4
  <2>. QED BY <2>3, <2>4, <2>5
<1>4. CopiesAreCurrent'
  <2>1. UNCHANGED sweep
    BY DEF Writes
  <2>2. ASSUME NEW i \in DOMAIN sweep.queue, Lone(sweep.queue[i].row)
        PROVE  sweep.queue[i].fails = row'[sweep.queue[i].row].fails
    <3>1. sweep.queue[i].row \in Rows
      BY <1>0, QueueTyped
    <3>2. sweep.queue[i].row # r
      BY DEF SweepInv, QueuedOnce
    <3>. QED BY <1>2, <2>2, <3>1, <3>2 DEF CountInv, CopiesAreCurrent
  <2>3. ASSUME NEW x \in Rows, Lone(x), check'[x].at = "probing" PROVE check'[x].fails = row'[x].fails
    <3>1. x # r
      BY <1>1, <2>3
    <3>. QED BY <1>1, <1>2, <2>3, <3>1 DEF CountInv, CopiesAreCurrent
  <2>. QED BY <2>1, <2>2, <2>3 DEF CopiesAreCurrent, Lone, SameUrl
<1>. QED BY <1>3, <1>4 DEF CountInv
LEMMA RecordedInv ==
  ASSUME SweepInv, NEW r \in Rows, Recorded(r)
  PROVE  SweepInv' /\ (CountInv => CountInv')
<1>0. SweepTyped /\ check[r].at = "probing" /\ check[r] \in Check
  BY DEF SweepInv, SweepTyped, Recorded
<1>1. PICK answer \in Answers(r), order \in SetToSeqs(Siblings(r)) :
        Proceed(r, answer, r, classifyHealthStatus(answer, check[r].fails), [i \in DOMAIN order |-> Read(order[i])])
  BY DEF Recorded
<1>2. answer \in Answer
  <2>1. CASE answer \in {[NoAnswer EXCEPT !.kind = k] : k \in Kinds \ {"paywall"}}
    BY <2>1 DEF NoAnswer, Answer
  <2>2. CASE answer \in {[kind |-> "paywall", shown |-> s] : s \in SUBSET (SameUrl(r) \ {r})}
    BY <2>2 DEF Answer, Kinds, SameUrl
  <2>. QED BY <2>1, <2>2 DEF Answers
<1>3. PICK verdict : verdict = classifyHealthStatus(answer, check[r].fails)
  OBVIOUS
<1>4. verdict \in Verdict /\ verdict.fails = CountAfter(answer, check[r].fails)
  BY <1>0, <1>2, <1>3, VerdictTyped DEF Check
<1>5. PICK todo : todo = [i \in DOMAIN order |-> Read(order[i])]
  OBVIOUS
<1>6. Siblings(r) \in SUBSET Rows /\ \A x \in Siblings(r) : x \in SameUrl(r) /\ x # r
  BY DEF Siblings, SameUrl
<1>7. order \in Seq(Siblings(r))
  BY <1>6, OrderIsOnto
<1>8. \A x \in Rows : Read(x) \in Reading /\ Read(x).row = x
  BY <1>0 DEF Read, Reading, SweepTyped, Service
<1>9. todo \in Seq(Reading) /\ OthersOf(r, todo)
  <2>1. \A i \in DOMAIN order : order[i] \in Siblings(r)
    BY <1>7
  <2>2. DOMAIN order = 1..Len(order) /\ Len(order) \in Nat
    BY <1>7
  <2>3. \A i \in 1..Len(order) : todo[i] \in Reading /\ todo[i].row \in SameUrl(r) /\ todo[i].row # r
    BY <1>5, <1>6, <1>8, <2>1, <2>2
  <2>4. todo \in [1..Len(order) -> Reading]
    BY <1>5, <2>2, <2>3
  <2>. QED BY <2>2, <2>3, <2>4 DEF OthersOf
<1>10. PICK D \in SUBSET SameUrl(r), rest \in Seq(Reading) :
         /\ r \in D /\ OthersOf(r, rest)
         /\ Writes(r, answer, verdict, D, rest)
  <2>1. r \in SameUrl(r)
    BY SameUrlSelf
  <2>2. Proceed(r, answer, r, verdict, todo)
    BY <1>1, <1>3, <1>5
  <2>. QED BY <1>0, <1>2, <1>4, <1>9, <2>1, <2>2, ProceedWrites
<1>11. SweepInv'
  BY <1>0, <1>2, <1>10, CheckGoesOn
<1>12. CountInv => CountInv'
  BY <1>0, <1>2, <1>4, <1>10, CheckKeepsCount
<1>. QED BY <1>11, <1>12

LEMMA SiblingRecordedInv ==
  ASSUME SweepInv, NEW r \in Rows, SiblingRecorded(r)
  PROVE  SweepInv' /\ (CountInv => CountInv')
<1>0. SweepTyped /\ check[r].at = "sibling" /\ check[r] \in Check
  BY DEF SweepInv, SweepTyped, SiblingRecorded
<1>1. PICK list \in Seq(Reading) : list = check[r].todo
  BY <1>0 DEF Check
<1>2. PICK answer \in Answer : answer = check[r].answer
  BY <1>0 DEF Check
<1>3. list # <<>> /\ OthersOf(r, list)
  BY <1>0, <1>1 DEF SweepInv, SiblingsAreOthers
<1>4. PICK s \in Reading : s = Head(list)
  BY <1>3, HeadTailProperties
<1>5. PICK todo \in Seq(Reading) : todo = Tail(list)
  BY <1>3, HeadTailProperties
<1>6. s.row \in SameUrl(r) /\ s.row # r
  <2>1. 1 \in DOMAIN list /\ s = list[1]
    BY <1>3, <1>4
  <2>. QED BY <1>3, <2>1 DEF OthersOf
<1>7. OthersOf(r, todo)
  <2>1. SUFFICES ASSUME NEW i \in DOMAIN todo PROVE todo[i].row \in SameUrl(r) /\ todo[i].row # r
    BY DEF OthersOf
  <2>2. i + 1 \in DOMAIN list /\ todo[i] = list[i + 1]
    BY <1>3, <1>5, <2>1
  <2>. QED BY <1>3, <2>2 DEF OthersOf
<1>8. PICK verdict : verdict = SiblingVerdict(s.row, answer, s.fails)
  OBVIOUS
<1>9. verdict \in Verdict
  <2>1. s.fails \in 0..DOWN_AFTER
    BY DEF Reading
  <2>. QED BY <1>8, <2>1, SiblingVerdictTyped
<1>10. Proceed(r, answer, s.row, verdict, todo)
  BY <1>1, <1>2, <1>4, <1>5, <1>8 DEF SiblingRecorded
<1>11. PICK D \in SUBSET SameUrl(r), rest \in Seq(Reading) :
         /\ s.row \in D /\ (r \in D => r = s.row) /\ OthersOf(r, rest)
         /\ Writes(r, answer, verdict, D, rest)
  BY <1>0, <1>6, <1>7, <1>9, <1>10, ProceedWrites
<1>12. Head(check[r].todo).row \in D
  BY <1>1, <1>4, <1>11
<1>13. r \notin D
  BY <1>6, <1>11
<1>14. SweepInv'
  BY <1>0, <1>11, <1>12, CheckGoesOn
<1>15. CountInv => CountInv'
  BY <1>0, <1>11, <1>13, CheckKeepsCount
<1>. QED BY <1>14, <1>15

LEMMA StoreFailsInv ==
  ASSUME SweepInv, NEW r \in Rows, StoreFails(r)
  PROVE  SweepInv' /\ (CountInv => CountInv')
<1>0. SweepTyped /\ check[r].at # "none" /\ fault' /\ check' = [check EXCEPT ![r] = NoCheck]
      /\ UNCHANGED <<row, out, recency, sweep, checked, streak, logged, chosen>>
  BY DEF SweepInv, StoreFails
<1>1. NoCheck \in Check /\ NoCheck.at = "none"
  <2>1. NoAnswer \in Answer
    BY DEF NoAnswer, Answer, Kinds
  <2>2. 0 \in 0..DOWN_AFTER /\ <<>> \in Seq(Reading)
    BY SweepAssumption
  <2>. QED BY <2>1, <2>2 DEF NoCheck, Check
<1>2. /\ check' \in [Rows -> Check] /\ check'[r].at = "none"
      /\ \A x \in Rows : x # r => check'[x] = check[x]
  BY <1>0, <1>1 DEF SweepTyped
<1>3. SweepTyped'
  BY <1>0, <1>2 DEF SweepTyped
<1>4. SiblingsAreOthers'
  BY <1>2 DEF SweepInv, SiblingsAreOthers, OthersOf, SameUrl
<1>5. SweepRests'
  BY <1>0, <1>2 DEF SweepInv, SweepRests
<1>6. QueuedOnce'
  BY <1>0, <1>2, QueueTyped DEF SweepInv, QueuedOnce
<1>7. ChosenAreQueued' /\ MarkedAreAttended'
  BY <1>0 DEF SweepInv, ChosenAreQueued, MarkedAreAttended
<1>8. CountInv => CountInv'
  BY <1>0, <1>2 DEF CountInv, CopiesAreCurrent, StreakMatchesLog, Lone, SameUrl
<1>. QED BY <1>3, <1>4, <1>5, <1>6, <1>7, <1>8 DEF SweepInv
(* What the others do to a row leaves the sweep alone; only the administrator
   resets a count, and between sweeps. *)
LEMMA ChangedInv ==
  ASSUME SweepInv, NEW r \in Rows, row[r].state # "gone", NEW new \in Service, Changed(r, new),
         streak' \in [Rows -> 0..DOWN_AFTER]
  PROVE  /\ SweepInv'
         /\ new.fails = row[r].fails /\ streak' = streak /\ CountInv => CountInv'
         /\ sweep.at = "idle" /\ new.fails = 0 /\ streak' = [streak EXCEPT ![r] = 0] /\ CountInv => CountInv'
<1>0. SweepTyped /\ row' = [row EXCEPT ![r] = new]
      /\ UNCHANGED <<out, recency, sweep, checked, check, logged, chosen, fault>>
  BY DEF SweepInv, Changed
<1>1. /\ row' \in [Rows -> Service] /\ row'[r] = new
      /\ \A x \in Rows : x # r => row'[x] = row[x]
  BY <1>0 DEF SweepTyped
<1>2. SweepTyped'
  BY <1>0, <1>1 DEF SweepTyped
<1>3. SiblingsAreOthers' /\ SweepRests' /\ QueuedOnce' /\ ChosenAreQueued'
  BY <1>0 DEF SweepInv, SiblingsAreOthers, OthersOf, SameUrl, SweepRests, QueuedOnce, ChosenAreQueued
<1>4. MarkedAreAttended'
  <2>1. SUFFICES ASSUME sweep.at = "checking", ~fault, NEW x \in checked PROVE Attended(x)'
    BY <1>0 DEF MarkedAreAttended
  <2>2. Attended(x) /\ x \in Rows
    BY <1>0, <2>1 DEF SweepInv, MarkedAreAttended, SweepTyped
  <2>3. row[x].state = "gone" => row'[x].state = "gone"
    BY <1>1, <2>2
  <2>. QED BY <1>0, <2>2, <2>3 DEF Attended
<1>5. ASSUME new.fails = row[r].fails, streak' = streak, CountInv PROVE CountInv'
  <2>1. \A x \in Rows : row'[x].fails = row[x].fails
    BY <1>1, <1>5
  <2>2. \A i \in DOMAIN sweep.queue : sweep.queue[i].row \in Rows
    BY <1>0, QueueTyped
  <2>. QED BY <1>0, <1>5, <2>1, <2>2 DEF CountInv, CopiesAreCurrent, StreakMatchesLog, Lone, SameUrl
<1>6. ASSUME sweep.at = "idle", new.fails = 0, streak' = [streak EXCEPT ![r] = 0], CountInv PROVE CountInv'
  <2>1. sweep.queue = <<>> /\ \A x \in Rows : check[x].at = "none"
    BY <1>6 DEF SweepInv, SweepRests
  <2>2. CopiesAreCurrent'
    BY <1>0, <2>1 DEF CopiesAreCurrent
  <2>3. StreakMatchesLog'
    <3>1. \A x \in Rows : streak'[x] = IF x = r THEN 0 ELSE streak[x]
      BY <1>0, <1>6 DEF SweepTyped
    <3>. QED BY <1>1, <1>6, <3>1 DEF CountInv, StreakMatchesLog, Lone, SameUrl
  <2>. QED BY <2>2, <2>3 DEF CountInv
<1>. QED BY <1>2, <1>3, <1>4, <1>5, <1>6 DEF SweepInv

LEMMA OthersInv ==
  ASSUME SweepInv, NEW r \in Rows,
         \/ Delist(r) \/ Relist(r) \/ RowRemoved(r) \/ Reregister(r) \/ SetUnprobeable(r) \/ SetProbeable(r)
  PROVE  SweepInv' /\ (~AdminDuringSweep /\ CountInv => CountInv')
<1>0. row[r] \in Service /\ streak \in [Rows -> 0..DOWN_AFTER] /\ 0 \in 0..DOWN_AFTER
  BY SweepAssumption DEF SweepInv, SweepTyped
<1>1. CASE SetUnprobeable(r)
  <2>1. PICK new : new = [row[r] EXCEPT !.probeable = FALSE, !.health = "unknown", !.fails = 0]
    OBVIOUS
  <2>2. new \in Service /\ new.fails = 0
    BY <1>0, <2>1 DEF Service
  <2>3. row[r].state # "gone" /\ Changed(r, new) /\ streak' = [streak EXCEPT ![r] = 0]
        /\ (AdminDuringSweep \/ sweep.at = "idle")
    BY <1>1, <2>1 DEF SetUnprobeable
  <2>4. streak' \in [Rows -> 0..DOWN_AFTER]
    BY <1>0, <2>3
  <2>5. SweepInv'
    BY <2>2, <2>3, <2>4, ChangedInv
  <2>6. ~AdminDuringSweep /\ CountInv => CountInv'
    BY <2>2, <2>3, <2>4, ChangedInv
  <2>. QED BY <2>5, <2>6
<1>2. CASE ~SetUnprobeable(r)
  <2>1. \E new \in Service : new.fails = row[r].fails /\ row[r].state # "gone" /\ Changed(r, new) /\ streak' = streak
    <3>1. CASE Delist(r)
      <4>1. PICK new : new = [row[r] EXCEPT !.state = "unlisted"]
        OBVIOUS
      <4>2. new \in Service /\ new.fails = row[r].fails
        BY <1>0, <4>1 DEF Service
      <4>. QED BY <3>1, <4>1, <4>2 DEF Delist
    <3>2. CASE Relist(r)
      <4>1. PICK new : new = [row[r] EXCEPT !.state = "active"]
        OBVIOUS
      <4>2. new \in Service /\ new.fails = row[r].fails
        BY <1>0, <4>1 DEF Service
      <4>. QED BY <3>2, <4>1, <4>2 DEF Relist
    <3>3. CASE RowRemoved(r)
      <4>1. PICK new : new = [row[r] EXCEPT !.state = "gone"]
        OBVIOUS
      <4>2. new \in Service /\ new.fails = row[r].fails
        BY <1>0, <4>1 DEF Service
      <4>. QED BY <3>3, <4>1, <4>2 DEF RowRemoved
    <3>4. CASE Reregister(r)
      <4>1. PICK new : new = [row[r] EXCEPT !.health = "up"]
        OBVIOUS
      <4>2. new \in Service /\ new.fails = row[r].fails
        BY <1>0, <4>1 DEF Service
      <4>. QED BY <3>4, <4>1, <4>2 DEF Reregister
    <3>5. CASE SetProbeable(r)
      <4>1. PICK new : new = [row[r] EXCEPT !.probeable = TRUE]
        OBVIOUS
      <4>2. new \in Service /\ new.fails = row[r].fails
        BY <1>0, <4>1 DEF Service
      <4>. QED BY <3>5, <4>1, <4>2 DEF SetProbeable
    <3>. QED BY <1>2, <3>1, <3>2, <3>3, <3>4, <3>5
  <2>2. PICK new \in Service :
          new.fails = row[r].fails /\ row[r].state # "gone" /\ Changed(r, new) /\ streak' = streak
    BY <2>1
  <2>3. SweepInv'
    BY <1>0, <2>2, ChangedInv
  <2>4. CountInv => CountInv'
    BY <1>0, <2>2, ChangedInv
  <2>. QED BY <2>3, <2>4
<1>. QED BY <1>1, <1>2
LEMMA BetweenSweeps ==
  ASSUME SweepInv, Tick \/ DiskGuard \/ BudgetOver \/ SweepEnd
  PROVE  SweepInv' /\ (CountInv => CountInv')
<1>0. SweepTyped /\ UNCHANGED <<row, checked, check, streak>>
  BY DEF SweepInv, Tick, DiskGuard, BudgetOver, SweepEnd, history
<1>1. CASE BudgetOver
  <2>1. /\ sweep'.at = sweep.at /\ sweep'.queue = sweep.queue /\ UNCHANGED <<logged, chosen, fault>>
        /\ sweep' \in [at : {"idle", "preparing", "checking"}, queue : Seq(Reading), begun : Nat, over : BOOLEAN]
    BY <1>0, <1>1 DEF BudgetOver, SweepTyped, history
  <2>2. SweepTyped'
    BY <1>0, <2>1 DEF SweepTyped
  <2>3. /\ SiblingsAreOthers' /\ SweepRests' /\ QueuedOnce' /\ ChosenAreQueued' /\ MarkedAreAttended'
    BY <1>0, <2>1 DEF SweepInv, SiblingsAreOthers, OthersOf, SameUrl, SweepRests, QueuedOnce, ChosenAreQueued,
                      MarkedAreAttended, Attended
  <2>4. CountInv => CountInv'
    BY <1>0, <2>1 DEF CountInv, CopiesAreCurrent, StreakMatchesLog, Lone, SameUrl
  <2>. QED BY <2>2, <2>3, <2>4 DEF SweepInv
<1>2. CASE Tick \/ DiskGuard \/ SweepEnd
  <2>1. sweep' = NoSweep \/ sweep' = [NoSweep EXCEPT !.at = "preparing"]
    BY <1>2 DEF Tick, DiskGuard, SweepEnd
  <2>2. /\ sweep' \in [at : {"idle", "preparing", "checking"}, queue : Seq(Reading), begun : Nat, over : BOOLEAN]
        /\ sweep'.queue = <<>> /\ sweep'.at # "checking"
    <3>0. <<>> \in Seq(Reading)
      OBVIOUS
    <3>1. PICK q \in Seq(Reading) : q = <<>>
      BY <3>0, Zenon
    <3>2. PICK place \in {"idle", "preparing"} :
            sweep' = [at |-> place, queue |-> q, begun |-> 0, over |-> FALSE]
      BY <2>1, <3>1 DEF NoSweep
    <3>. QED BY <3>1, <3>2
  <2>3. \A r \in Rows : check[r].at = "none"
    BY <1>2 DEF Tick, DiskGuard, SweepEnd, InFlight, SweepInv, SweepRests
  <2>4. chosen' \subseteq Rows /\ logged' \subseteq Rows
    BY <1>0, <1>2 DEF Tick, DiskGuard, SweepEnd, SweepTyped, history
  <2>5. SweepTyped'
    BY <1>0, <2>2, <2>4 DEF SweepTyped
  <2>6. SiblingsAreOthers'
    BY <1>0 DEF SweepInv, SiblingsAreOthers, OthersOf, SameUrl
  <2>7. SweepRests' /\ QueuedOnce' /\ ChosenAreQueued' /\ MarkedAreAttended'
    BY <1>0, <2>2, <2>3 DEF SweepRests, QueuedOnce, ChosenAreQueued, MarkedAreAttended
  <2>8. CountInv => CountInv'
    BY <1>0, <2>2, <2>3 DEF CountInv, CopiesAreCurrent, StreakMatchesLog, Lone, SameUrl
  <2>. QED BY <2>5, <2>6, <2>7, <2>8 DEF SweepInv
<1>. QED BY <1>1, <1>2

LEMMA SweepStartInv ==
  ASSUME SweepInv, SweepStart
  PROVE  SweepInv' /\ (CountInv => CountInv')
<1>0. SweepTyped /\ UNCHANGED <<row, recency, check, streak, logged, fault>> /\ checked' = {}
      /\ \A r \in Rows : check[r].at = "none"
  BY DEF SweepInv, SweepStart, Selected, SweepRests
<1>1. PICK S \in SUBSET Rows : S = Candidates(out')
  BY DEF Candidates
<1>2. chosen' = S /\ Queued(S)
  BY <1>1 DEF SweepStart, Selected
<1>3. PICK o \in SetToSeqs(S) :
        sweep' = [sweep EXCEPT !.at = "checking", !.queue = [i \in DOMAIN o |-> Read(o[i])]]
  BY <1>2 DEF Queued, orderForSweep
<1>4. o \in Seq(S) /\ (\A i, j \in DOMAIN o : o[i] = o[j] => i = j) /\ \A x \in S : \E i \in DOMAIN o : o[i] = x
  BY OrderIsOnto
<1>5. \A x \in Rows : Read(x) \in Reading /\ Read(x).row = x /\ Read(x).fails = row[x].fails
  BY <1>0 DEF Read, Reading, SweepTyped, Service
<1>6. PICK q : q = [i \in DOMAIN o |-> Read(o[i])]
  OBVIOUS
<1>7. /\ q \in Seq(Reading) /\ DOMAIN q = DOMAIN o
      /\ \A i \in DOMAIN q : q[i].row = o[i] /\ q[i].row \in Rows /\ q[i].fails = row[q[i].row].fails
  <2>1. DOMAIN o = 1..Len(o) /\ Len(o) \in Nat /\ \A i \in DOMAIN o : o[i] \in Rows
    BY <1>4
  <2>2. \A i \in 1..Len(o) : q[i] \in Reading /\ q[i].row = o[i] /\ q[i].row \in Rows /\ q[i].fails = row[q[i].row].fails
    BY <1>5, <1>6, <2>1
  <2>3. q \in [1..Len(o) -> Reading]
    BY <1>6, <2>1, <2>2
  <2>. QED BY <2>1, <2>2, <2>3
<1>8. /\ sweep'.queue = q /\ sweep'.at = "checking"
      /\ sweep' \in [at : {"idle", "preparing", "checking"}, queue : Seq(Reading), begun : Nat, over : BOOLEAN]
  BY <1>0, <1>3, <1>6, <1>7 DEF SweepTyped
<1>9. SweepTyped'
  BY <1>0, <1>2, <1>8 DEF SweepTyped
<1>10. SiblingsAreOthers' /\ SweepRests' /\ MarkedAreAttended'
  BY <1>0, <1>8 DEF SiblingsAreOthers, SweepRests, MarkedAreAttended
<1>11. QueuedOnce'
  BY <1>0, <1>4, <1>7, <1>8 DEF QueuedOnce
<1>12. ChosenAreQueued'
  BY <1>2, <1>4, <1>7, <1>8 DEF ChosenAreQueued
<1>13. CountInv => CountInv'
  BY <1>0, <1>7, <1>8 DEF CountInv, CopiesAreCurrent, StreakMatchesLog, Lone, SameUrl
<1>. QED BY <1>9, <1>10, <1>11, <1>12, <1>13 DEF SweepInv

LEMMA TakeInv ==
  ASSUME SweepInv, Take
  PROVE  SweepInv' /\ (CountInv => CountInv')
<1>0. SweepTyped /\ UNCHANGED <<row, out, recency, troubles, streak, logged, chosen, fault>>
  BY DEF SweepInv, Take, history
<1>1. PICK q \in Seq(Reading) : q = sweep.queue
  BY <1>0, QueueTyped
<1>2. q # <<>> /\ sweep.at = "checking"
  BY <1>1 DEF Take
<1>3. PICK s \in Reading : s = Head(q) /\ s = q[1] /\ 1 \in DOMAIN q
  BY <1>2, HeadTailProperties
<1>4. PICK t \in Seq(Reading) : t = Tail(q) /\ Len(t) = Len(q) - 1 /\ \A i \in 1..Len(t) : t[i] = q[i + 1]
  BY ZenonT(40), <1>2, HeadTailProperties
<1>5. /\ sweep' = [sweep EXCEPT !.queue = t, !.begun = sweep.begun + 1]
      /\ checked' = checked \cup {s.row}
      /\ check' = IF s.row \in checked THEN check
                  ELSE [check EXCEPT ![s.row] = [NoCheck EXCEPT !.at = "probing", !.fails = s.fails]]
  BY <1>0, <1>1, <1>3, <1>4 DEF Take, SweepTyped
<1>6. /\ sweep'.queue = t /\ sweep'.at = "checking"
      /\ sweep' \in [at : {"idle", "preparing", "checking"}, queue : Seq(Reading), begun : Nat, over : BOOLEAN]
  <2>1. PICK b \in Nat : b = sweep.begun + 1
    BY <1>0 DEF SweepTyped
  <2>2. sweep' = [sweep EXCEPT !.queue = t, !.begun = b]
    BY <1>5, <2>1
  <2>. QED BY <1>0, <1>2, <2>2 DEF SweepTyped
<1>7. \A i \in DOMAIN t : i + 1 \in DOMAIN q /\ t[i] = q[i + 1] /\ t[i].row # s.row
  <2>1. SUFFICES ASSUME NEW i \in DOMAIN t PROVE i + 1 \in DOMAIN q /\ t[i] = q[i + 1] /\ t[i].row # s.row
    OBVIOUS
  <2>2. i \in 1..Len(t) /\ i + 1 \in DOMAIN q /\ i + 1 # 1
    BY <1>4
  <2>. QED BY <1>1, <1>3, <1>4, <2>2 DEF SweepInv, QueuedOnce
<1>8. s.row \in Rows /\ s.fails \in 0..DOWN_AFTER /\ check[s.row].at = "none"
  BY <1>1, <1>3 DEF Reading, SweepInv, QueuedOnce
<1>9. PICK c : c = [NoCheck EXCEPT !.at = "probing", !.fails = s.fails]
  OBVIOUS
<1>10. c \in Check /\ c.at = "probing" /\ c.fails = s.fails
  <2>1. NoAnswer \in Answer
    BY DEF NoAnswer, Answer, Kinds
  <2>2. <<>> \in Seq(Reading)
    OBVIOUS
  <2>. QED BY <1>8, <1>9, <2>1, <2>2 DEF NoCheck, Check
<1>11. /\ check' \in [Rows -> Check]
       /\ \A x \in Rows : x # s.row => check'[x] = check[x]
       /\ IF s.row \in checked THEN check' = check ELSE check'[s.row] = c
  BY <1>0, <1>5, <1>8, <1>9, <1>10 DEF SweepTyped
<1>12. SweepTyped'
  BY <1>0, <1>5, <1>6, <1>8, <1>11 DEF SweepTyped
<1>13. SiblingsAreOthers'
  <2>1. SUFFICES ASSUME NEW x \in Rows, check'[x].at = "sibling"
                 PROVE  check'[x].todo # <<>> /\ OthersOf(x, check'[x].todo)
    BY DEF SiblingsAreOthers, OthersOf, SameUrl
  <2>2. x # s.row /\ check'[x] = check[x]
    BY <1>8, <1>10, <1>11, <2>1
  <2>. QED BY <2>1, <2>2 DEF SweepInv, SiblingsAreOthers
<1>14. SweepRests'
  BY <1>6 DEF SweepRests
<1>15. \A i \in DOMAIN t : t[i].row \in Rows
  <2>1. \A i \in DOMAIN t : t[i] \in Reading
    OBVIOUS
  <2>. QED BY <2>1 DEF Reading
<1>16. QueuedOnce'
  <2>1. \A i, j \in DOMAIN t : t[i].row = t[j].row => i = j
    <3>1. SUFFICES ASSUME NEW i \in DOMAIN t, NEW j \in DOMAIN t, t[i].row = t[j].row PROVE i = j
      OBVIOUS
    <3>2. i + 1 = j + 1
      BY <1>1, <1>7, <3>1 DEF SweepInv, QueuedOnce
    <3>3. i \in Nat /\ j \in Nat
      BY <1>4
    <3>. QED BY <3>2, <3>3
  <2>2. \A i \in DOMAIN t : check[t[i].row].at = "none"
    BY <1>1, <1>7 DEF SweepInv, QueuedOnce
  <2>. QED BY <1>6, <1>7, <1>11, <1>15, <2>1, <2>2 DEF QueuedOnce
<1>17. ChosenAreQueued'
  <2>1. SUFFICES ASSUME NEW x \in chosen, x \notin checked'
                 PROVE  \E i \in DOMAIN t : t[i].row = x
    BY <1>0, <1>6 DEF ChosenAreQueued
  <2>2. PICK k \in DOMAIN q : q[k].row = x
    BY <1>1, <1>2, <1>5, <2>1 DEF SweepInv, ChosenAreQueued
  <2>3. k # 1
    BY <1>3, <1>5, <2>1, <2>2
  <2>4. k - 1 \in DOMAIN t /\ (k - 1) + 1 = k
    BY <1>4, <2>3
  <2>. QED BY <1>7, <2>2, <2>4
<1>18. MarkedAreAttended'
  <2>1. SUFFICES ASSUME ~fault, NEW x \in checked' PROVE Attended(x)'
    BY <1>0 DEF MarkedAreAttended
  <2>2. CASE x \notin checked
    <3>1. x = s.row /\ check'[x].at = "probing"
      BY <1>5, <1>10, <1>11, <2>1, <2>2
    <3>. QED BY <3>1 DEF Attended
  <2>3. CASE x \in checked
    <3>1. Attended(x) /\ x \in Rows
      BY <1>0, <1>2, <2>1, <2>3 DEF SweepInv, MarkedAreAttended, SweepTyped
    <3>2. \A y \in Rows : check[y].at # "none" => check'[y] = check[y]
      BY <1>8, <1>11
    <3>3. CASE x \in logged \/ row[x].state = "gone"
      BY <1>0, <3>3 DEF Attended
    <3>4. CASE check[x].at = "probing"
      BY <3>1, <3>2, <3>4 DEF Attended
    <3>5. CASE \E p \in Rows : check[p].at = "sibling" /\ Head(check[p].todo).row = x
      <4>1. PICK p \in Rows : check[p].at = "sibling" /\ Head(check[p].todo).row = x
        BY <3>5
      <4>. QED BY <3>2, <4>1 DEF Attended
    <3>. QED BY <3>1, <3>3, <3>4, <3>5 DEF Attended
  <2>. QED BY <2>2, <2>3
<1>19. ASSUME CountInv PROVE CountInv'
  <2>1. StreakMatchesLog'
    BY <1>0, <1>19 DEF CountInv, StreakMatchesLog, Lone, SameUrl
  <2>2. ASSUME NEW i \in DOMAIN t, Lone(t[i].row) PROVE t[i].fails = row[t[i].row].fails
    BY <1>1, <1>7, <1>19, <2>2 DEF CountInv, CopiesAreCurrent
  <2>3. ASSUME NEW x \in Rows, Lone(x), check'[x].at = "probing" PROVE check'[x].fails = row[x].fails
    <3>1. CASE check'[x] = check[x]
      BY <1>19, <2>3, <3>1 DEF CountInv, CopiesAreCurrent
    <3>2. CASE check'[x] # check[x]
      <4>1. x = s.row /\ check'[x].fails = s.fails
        BY <1>10, <1>11, <3>2
      <4>2. s.fails = row[s.row].fails
        BY <1>1, <1>3, <1>19, <2>3, <4>1 DEF CountInv, CopiesAreCurrent
      <4>. QED BY <4>1, <4>2
    <3>. QED BY <3>1, <3>2
  <2>4. CopiesAreCurrent'
    BY <1>0, <1>6, <2>2, <2>3 DEF CopiesAreCurrent, Lone, SameUrl
  <2>. QED BY <2>1, <2>4 DEF CountInv
<1>. QED BY <1>12, <1>13, <1>14, <1>16, <1>17, <1>18, <1>19 DEF SweepInv

----------------------------------------------------------------------------
LEMMA SweepNextInv ==
  ASSUME SweepInv, [Next]_vars
  PROVE  SweepInv' /\ (~AdminDuringSweep /\ CountInv => CountInv')
<1>1. CASE UNCHANGED vars
  <2>1. SweepTyped'
    BY <1>1 DEF vars, SweepInv, SweepTyped
  <2>2. SiblingsAreOthers' /\ SweepRests' /\ QueuedOnce'
    BY <1>1 DEF vars, SweepInv, SiblingsAreOthers, OthersOf, SameUrl, SweepRests, QueuedOnce
  <2>3. ChosenAreQueued' /\ MarkedAreAttended'
    BY <1>1 DEF vars, SweepInv, ChosenAreQueued, MarkedAreAttended, Attended
  <2>4. CountInv => CountInv'
    BY <1>1 DEF vars, CountInv, CopiesAreCurrent, StreakMatchesLog, Lone
  <2>. QED BY <2>1, <2>2, <2>3, <2>4 DEF SweepInv
<1>2. CASE Tick \/ DiskGuard \/ BudgetOver \/ SweepEnd
  BY <1>2, BetweenSweeps
<1>3. CASE SweepStart
  BY <1>3, SweepStartInv
<1>4. CASE Take
  BY <1>4, TakeInv
<1>5. ASSUME NEW r \in Rows, Recorded(r) \/ SiblingRecorded(r) \/ StoreFails(r)
      PROVE  SweepInv' /\ (CountInv => CountInv')
  BY <1>5, RecordedInv, SiblingRecordedInv, StoreFailsInv
<1>6. ASSUME NEW r \in Rows,
             \/ Delist(r) \/ Relist(r) \/ RowRemoved(r) \/ Reregister(r) \/ SetUnprobeable(r) \/ SetProbeable(r)
      PROVE  SweepInv' /\ (~AdminDuringSweep /\ CountInv => CountInv')
  BY <1>6, OthersInv
<1>. QED BY <1>1, <1>2, <1>3, <1>4, <1>5, <1>6 DEF Next

LEMMA SweepInitInv == ASSUME Init PROVE SweepInv /\ CountInv
<1>0. 0 \in 0..DOWN_AFTER
  BY SweepAssumption
<1>1. row \in [Rows -> Service] /\ \A r \in Rows : row[r].fails = 0
  BY <1>0 DEF Init, Service
<1>2. NoCheck \in Check /\ NoCheck.at = "none"
  <2>1. NoAnswer \in Answer
    BY DEF NoAnswer, Answer, Kinds
  <2>2. <<>> \in Seq(Reading)
    OBVIOUS
  <2>. QED BY <1>0, <2>1, <2>2 DEF NoCheck, Check
<1>3. check \in [Rows -> Check] /\ \A r \in Rows : check[r].at = "none"
  BY <1>2 DEF Init
<1>4. /\ sweep \in [at : {"idle", "preparing", "checking"}, queue : Seq(Reading), begun : Nat, over : BOOLEAN]
      /\ sweep.queue = <<>> /\ sweep.at = "idle"
  BY DEF Init, NoSweep
<1>5. streak \in [Rows -> 0..DOWN_AFTER] /\ (\A r \in Rows : streak[r] = 0) /\ checked = {} /\ chosen = {} /\ logged = {}
  BY <1>0 DEF Init
<1>6. SweepInv
  BY <1>1, <1>3, <1>4, <1>5 DEF SweepInv, SweepTyped, SiblingsAreOthers, SweepRests, QueuedOnce, ChosenAreQueued,
                                MarkedAreAttended
<1>7. CountInv
  BY <1>1, <1>3, <1>4, <1>5 DEF CountInv, CopiesAreCurrent, StreakMatchesLog
<1>. QED BY <1>6, <1>7

(* The count a row without siblings is judged by is the number of failing
   checks logged in a row, whatever is taken off the list, removed or registered
   again meanwhile, as long as the administrator waits for the end of a sweep. *)
THEOREM StreaksMatchLog ==
  ASSUME ~AdminDuringSweep
  PROVE  Spec => []StreakMatchesLog
<1>1. Init => SweepInv /\ CountInv
  BY SweepInitInv
<1>2. (SweepInv /\ CountInv) /\ [Next]_vars => (SweepInv /\ CountInv)'
  BY SweepNextInv
<1>3. SweepInv /\ CountInv => StreakMatchesLog
  BY DEF CountInv
<1>. QED BY <1>1, <1>2, <1>3, PTL DEF Spec

(* A sweep that keeps its budget and whose writes succeed has checked every row
   it set out to check, whoever changes the list and the rows meanwhile. *)
THEOREM SweepsCover == Spec => SweepCovers
<1>1. Init => SweepInv
  BY SweepInitInv
<1>2. SweepInv /\ [Next]_vars => SweepInv'
  BY SweepNextInv
<1>. DEFINE Covering ==
       sweep.at = "checking" /\ sweep'.at = "idle" /\ ~sweep.over /\ ~fault
         => \A r \in chosen : r \in logged \/ row[r].state = "gone"
<1>3. SweepInv /\ [Next]_vars => [Covering]_vars
  <2>1. SUFFICES ASSUME SweepInv, Next, sweep.at = "checking", sweep'.at = "idle", ~sweep.over, ~fault, NEW r \in chosen
                 PROVE  r \in logged \/ row[r].state = "gone"
    OBVIOUS
  <2>2. SweepEnd
    <3>1. ~Tick /\ ~DiskGuard /\ ~SweepStart
      BY <2>1 DEF Tick, DiskGuard, SweepStart
    <3>2. CASE BudgetOver
      BY <2>1, <3>2 DEF BudgetOver, SweepInv, SweepTyped
    <3>3. CASE Take
      BY <2>1, <3>3 DEF Take, SweepInv, SweepTyped
    <3>4. ASSUME NEW q \in Rows, \/ Recorded(q) \/ SiblingRecorded(q) \/ StoreFails(q) \/ Delist(q) \/ Relist(q)
                                 \/ RowRemoved(q) \/ Reregister(q) \/ SetUnprobeable(q) \/ SetProbeable(q)
          PROVE  UNCHANGED sweep
      BY <3>4 DEF Recorded, SiblingRecorded, Proceed, StoreFails, Delist, Relist, RowRemoved, Reregister,
                  SetUnprobeable, SetProbeable, Changed
    <3>. QED BY <2>1, <3>1, <3>2, <3>3, <3>4 DEF Next
  <2>3. sweep.queue = <<>> /\ \A q \in Rows : check[q].at = "none"
    BY <2>1, <2>2 DEF SweepEnd, InFlight
  <2>4. r \in checked
    BY <2>1, <2>3 DEF SweepInv, ChosenAreQueued
  <2>5. Attended(r) /\ r \in Rows
    BY <2>1, <2>4 DEF SweepInv, MarkedAreAttended, SweepTyped
  <2>. QED BY <2>3, <2>5 DEF Attended
<1>4. QED BY <1>1, <1>2, <1>3, PTL DEF Spec, SweepCovers

(***************************************************************************)
(* The probe queue of a host                                               *)
(***************************************************************************)

(* The queue is a line: the requests in it are those that are not out, each
   awaits the gate of the one before it, and only the first has its turn. *)
LineInv ==
  /\ PQTypeOK
  /\ \A i, j \in DOMAIN arrived : arrived[i] = arrived[j] => i = j
  /\ \A r \in Requests : stage[r] # "out" <=> \E i \in DOMAIN arrived : arrived[i] = r
  /\ \A i \in DOMAIN arrived : ahead[arrived[i]] = IF i = 1 THEN NoGate ELSE arrived[i - 1]
  /\ \A i \in DOMAIN arrived : i > 1 => stage[arrived[i]] = "queued"
  /\ lastIn = IF arrived = <<>> THEN NoGate ELSE arrived[Len(arrived)]
LEMMA LineParts ==
  ASSUME LineInv
  PROVE  /\ stage \in [Requests -> Stages] /\ ahead \in [Requests -> Requests \cup {NoGate}]
         /\ lastIn \in Requests \cup {NoGate}
         /\ arrived \in Seq(Requests) /\ Len(arrived) \in Nat /\ DOMAIN arrived = 1..Len(arrived)
         /\ \A i \in DOMAIN arrived : arrived[i] \in Requests /\ arrived[i] # NoGate
  BY ProbeQueueAssumption DEF LineInv, PQTypeOK

(* Who has its turn is the first of the line. *)
LEMMA FirstHasTurn ==
  ASSUME LineInv, NEW r \in Probing
  PROVE  arrived # <<>> /\ arrived[1] = r
<1>1. r \in Requests /\ stage[r] \in {"probing", "discovering", "reprobing"}
  BY DEF Probing
<1>2. PICK i \in DOMAIN arrived : arrived[i] = r
  BY <1>1 DEF LineInv
<1>3. ~(i > 1)
  BY <1>1, <1>2 DEF LineInv
<1>4. i \in Nat /\ i >= 1 /\ Len(arrived) >= 1
  BY <1>2, LineParts
<1>5. i = 1
  BY <1>3, <1>4
<1>. QED BY <1>2, <1>4, <1>5

LEMMA ArrivesStep ==
  ASSUME LineInv, NEW r \in Requests, Arrives(r)
  PROVE  LineInv' /\ Lock!Join(r)
<1>. USE DEF Stages
<1>0. /\ stage[r] = "out" /\ stage' = [stage EXCEPT ![r] = "queued"]
      /\ ahead' = [ahead EXCEPT ![r] = lastIn] /\ lastIn' = r /\ arrived' = Append(arrived, r)
  BY DEF Arrives
<1>1. PICK n \in Nat : n = Len(arrived) /\ DOMAIN arrived = 1..n
  BY LineParts
<1>2. /\ arrived' \in Seq(Requests) /\ Len(arrived') = n + 1 /\ DOMAIN arrived' = 1..(n + 1)
      /\ arrived'[n + 1] = r /\ \A i \in 1..n : arrived'[i] = arrived[i] /\ arrived[i] \in Requests
  BY <1>0, <1>1, LineParts
<1>3. \A i \in 1..n : arrived[i] # r
  BY <1>0, <1>1 DEF LineInv
<1>4. /\ stage' \in [Requests -> Stages] /\ stage'[r] = "queued" /\ \A q \in Requests : q # r => stage'[q] = stage[q]
      /\ ahead' \in [Requests -> Requests \cup {NoGate}] /\ ahead'[r] = lastIn
      /\ \A q \in Requests : q # r => ahead'[q] = ahead[q]
  BY <1>0, LineParts
<1>5. PQTypeOK'
  BY <1>0, <1>2, <1>4 DEF PQTypeOK
<1>6. \A i, j \in 1..(n + 1) : arrived'[i] = arrived'[j] => i = j
  <2>1. SUFFICES ASSUME NEW i \in 1..(n + 1), NEW j \in 1..(n + 1), arrived'[i] = arrived'[j] PROVE i = j
    OBVIOUS
  <2>2. (i \in 1..n \/ i = n + 1) /\ (j \in 1..n \/ j = n + 1)
    OBVIOUS
  <2>3. CASE i \in 1..n /\ j \in 1..n
    BY <1>1, <1>2, <2>1, <2>3 DEF LineInv
  <2>4. CASE i = n + 1 \/ j = n + 1
    BY <1>2, <1>3, <2>1, <2>2, <2>4
  <2>. QED BY <2>2, <2>3, <2>4
<1>7. ASSUME NEW q \in Requests PROVE stage'[q] # "out" <=> \E i \in 1..(n + 1) : arrived'[i] = q
  <2>1. CASE q = r
    <3>1. n + 1 \in 1..(n + 1)
      OBVIOUS
    <3>. QED BY <1>2, <1>4, <2>1, <3>1
  <2>2. CASE q # r
    <3>1. stage'[q] # "out" <=> \E i \in 1..n : arrived[i] = q
      BY <1>1, <1>4, <2>2 DEF LineInv
    <3>2. (\E i \in 1..n : arrived[i] = q) <=> \E i \in 1..(n + 1) : arrived'[i] = q
      <4>1. \A i \in 1..(n + 1) : i \in 1..n \/ i = n + 1
        OBVIOUS
      <4>2. \A i \in 1..n : i \in 1..(n + 1)
        OBVIOUS
      <4>. QED BY <1>2, <2>2, <4>1, <4>2
    <3>. QED BY <3>1, <3>2
  <2>. QED BY <2>1, <2>2
<1>8. ASSUME NEW i \in 1..(n + 1) PROVE ahead'[arrived'[i]] = IF i = 1 THEN NoGate ELSE arrived'[i - 1]
  <2>1. CASE i \in 1..n
    <3>1. arrived'[i] = arrived[i] /\ arrived[i] # r
      BY <1>2, <1>3, <2>1
    <3>2. ahead[arrived[i]] = IF i = 1 THEN NoGate ELSE arrived[i - 1]
      BY <1>1, <2>1 DEF LineInv
    <3>3. i # 1 => i - 1 \in 1..n
      BY <2>1
    <3>. QED BY <1>2, <1>4, <2>1, <3>1, <3>2, <3>3
  <2>2. CASE i = n + 1
    <3>1. lastIn = IF n = 0 THEN NoGate ELSE arrived[n]
      <4>1. arrived = <<>> <=> n = 0
        BY <1>1, LineParts
      <4>. QED BY <1>1, <4>1 DEF LineInv
    <3>2. n # 0 => arrived'[n] = arrived[n] /\ i - 1 = n
      BY <1>2, <2>2
    <3>. QED BY <1>2, <1>4, <2>2, <3>1, <3>2
  <2>. QED BY <2>1, <2>2
<1>9. ASSUME NEW i \in 1..(n + 1), i > 1 PROVE stage'[arrived'[i]] = "queued"
  <2>1. CASE i \in 1..n
    BY <1>1, <1>2, <1>3, <1>4, <1>9, <2>1 DEF LineInv
  <2>2. CASE i = n + 1
    BY <1>2, <1>4, <2>2
  <2>. QED BY <2>1, <2>2
<1>10. lastIn' = IF arrived' = <<>> THEN NoGate ELSE arrived'[Len(arrived')]
  BY <1>0, <1>2
<1>11. LineInv'
  BY <1>2, <1>5, <1>6, <1>7, <1>8, <1>9, <1>10 DEF LineInv
<1>12. Probing' = Probing
  BY <1>0, <1>4 DEF Probing
<1>. QED BY <1>0, <1>1, <1>3, <1>11, <1>12 DEF Lock!Join

(* A request that goes on without leaving. *)
LEMMA StageStep ==
  ASSUME LineInv, NEW r \in Requests, NEW s \in Stages \ {"out"},
         stage[r] # "out", stage' = [stage EXCEPT ![r] = s], UNCHANGED <<ahead, lastIn, arrived>>,
         arrived # <<>> /\ arrived[1] = r
  PROVE  LineInv'
<1>1. /\ stage' \in [Requests -> Stages] /\ stage'[r] = s /\ \A q \in Requests : q # r => stage'[q] = stage[q]
  BY LineParts
<1>2. PQTypeOK'
  BY <1>1 DEF LineInv, PQTypeOK
<1>3. ASSUME NEW i \in DOMAIN arrived, i > 1 PROVE stage'[arrived[i]] = "queued"
  <2>1. 1 \in DOMAIN arrived /\ arrived[i] \in Requests
    BY LineParts
  <2>2. arrived[i] # r
    BY <1>3, <2>1 DEF LineInv
  <2>. QED BY <1>1, <1>3, <2>1, <2>2 DEF LineInv
<1>4. \A q \in Requests : stage'[q] # "out" <=> stage[q] # "out"
  BY <1>1
<1>. QED BY <1>2, <1>3, <1>4 DEF LineInv

LEMMA StartsStep ==
  ASSUME LineInv, NEW r \in Requests, Starts(r)
  PROVE  LineInv' /\ Lock!Serve
<1>0. stage[r] = "queued" /\ ahead[r] = NoGate /\ stage' = [stage EXCEPT ![r] = "probing"]
      /\ UNCHANGED <<ahead, lastIn, arrived>>
  BY DEF Starts
<1>1. PICK i \in DOMAIN arrived : arrived[i] = r
  BY <1>0 DEF LineInv
<1>2. i = 1
  <2>1. SUFFICES ASSUME i # 1 PROVE FALSE
    OBVIOUS
  <2>2. i - 1 \in DOMAIN arrived /\ arrived[i - 1] # NoGate
    BY <2>1, LineParts
  <2>3. ahead[r] = arrived[i - 1]
    BY <1>1, <2>1 DEF LineInv
  <2>. QED BY <1>0, <2>2, <2>3
<1>3. arrived # <<>> /\ arrived[1] = r
  BY <1>1, <1>2
<1>4. LineInv'
  BY <1>0, <1>3, StageStep DEF Stages
<1>5. Probing = {}
  <2>1. SUFFICES ASSUME NEW q \in Probing PROVE FALSE
    OBVIOUS
  <2>2. q = r
    BY <1>3, FirstHasTurn
  <2>. QED BY <1>0, <2>1, <2>2 DEF Probing
<1>6. r \in Probing'
  BY <1>0, LineParts DEF Probing
<1>. QED BY <1>0, <1>3, <1>4, <1>5, <1>6 DEF Lock!Serve

LEMMA ProbesStep ==
  ASSUME LineInv, NEW r \in Requests, Discovers(r) \/ Reprobes(r)
  PROVE  LineInv' /\ UNCHANGED <<arrived, Probing # {}>>
<1>0. PICK s \in {"discovering", "reprobing"} :
        stage[r] \in {"probing", "discovering"} /\ stage' = [stage EXCEPT ![r] = s]
        /\ UNCHANGED <<ahead, lastIn, arrived>>
  BY DEF Discovers, Reprobes
<1>1. r \in Probing
  BY <1>0 DEF Probing
<1>2. LineInv'
  BY <1>0, <1>1, FirstHasTurn, StageStep DEF Stages
<1>3. r \in Probing'
  BY <1>0, LineParts DEF Probing
<1>. QED BY <1>0, <1>1, <1>2, <1>3

LEMMA FinishesStep ==
  ASSUME LineInv, NEW r \in Requests, Finishes(r)
  PROVE  LineInv' /\ Lock!Leave
<1>. USE DEF Stages
<1>0. /\ stage[r] \in {"probing", "discovering", "reprobing"} /\ stage' = [stage EXCEPT ![r] = "out"]
      /\ ahead' = [q \in Requests |-> IF ahead[q] = r THEN NoGate ELSE ahead[q]]
      /\ lastIn' = IF lastIn = r THEN NoGate ELSE lastIn
  BY DEF Finishes, EntryAfter
<1>1. r \in Probing
  BY <1>0 DEF Probing
<1>2. arrived # <<>> /\ arrived[1] = r
  BY <1>1, FirstHasTurn
<1>3. PICK n \in Nat \ {0} : n = Len(arrived) /\ DOMAIN arrived = 1..n
  <2>1. arrived \in Seq(Requests)
    BY LineParts
  <2>2. Len(arrived) # 0
    BY <1>2, <2>1, EmptySeq
  <2>. QED BY <2>2, LineParts
<1>4. arrived' = RemoveAt(arrived, 1)
  BY <1>2, <1>3 DEF Finishes, LineInv
<1>5. /\ arrived' = Tail(arrived) /\ arrived' \in Seq(Requests) /\ Len(arrived') = n - 1 /\ DOMAIN arrived' = 1..(n - 1)
      /\ \A i \in 1..(n - 1) : arrived'[i] = arrived[i + 1] /\ i + 1 \in 1..n
  <2>1. arrived \in Seq(Requests)
    BY LineParts
  <2>2. SubSeq(arrived, 1, 1 - 1) = <<>>
    BY SubSeqEmpty
  <2>3. PICK t : t = SubSeq(arrived, 1 + 1, Len(arrived))
    OBVIOUS
  <2>4. t = Tail(arrived)
    BY <1>2, <2>1, <2>3, TailIsSubSeq
  <2>5. t \in Seq(Requests) /\ Len(t) = n - 1 /\ \A i \in 1..Len(t) : t[i] = arrived[i + 1]
    BY <1>2, <1>3, <2>1, <2>4, HeadTailProperties
  <2>6. arrived' = <<>> \o t
    BY <1>4, <2>2, <2>3 DEF RemoveAt
  <2>7. arrived' = t
    BY <2>5, <2>6
  <2>. QED BY <1>3, <2>4, <2>5, <2>7
<1>6. \A i \in 2..n : arrived[i] # r /\ arrived[i] \in Requests
  BY <1>2, <1>3, LineParts DEF LineInv
<1>7. /\ stage' \in [Requests -> Stages] /\ stage'[r] = "out" /\ \A q \in Requests : q # r => stage'[q] = stage[q]
      /\ ahead' \in [Requests -> Requests \cup {NoGate}] /\ lastIn' \in Requests \cup {NoGate}
  BY <1>0, LineParts
<1>8. PQTypeOK'
  BY <1>5, <1>7 DEF PQTypeOK
<1>9. \A i, j \in 1..(n - 1) : arrived'[i] = arrived'[j] => i = j
  <2>1. SUFFICES ASSUME NEW i \in 1..(n - 1), NEW j \in 1..(n - 1), arrived'[i] = arrived'[j] PROVE i = j
    OBVIOUS
  <2>2. i + 1 = j + 1
    BY <1>3, <1>5, <2>1 DEF LineInv
  <2>. QED BY <2>2
<1>10. ASSUME NEW q \in Requests PROVE stage'[q] # "out" <=> \E i \in 1..(n - 1) : arrived'[i] = q
  <2>1. CASE q = r
    <3>1. \A i \in 1..(n - 1) : arrived'[i] # r
      BY <1>5, <1>6
    <3>. QED BY <1>7, <2>1, <3>1
  <2>2. CASE q # r
    <3>1. stage'[q] # "out" <=> \E i \in 1..n : arrived[i] = q
      BY <1>3, <1>7, <2>2 DEF LineInv
    <3>2. ASSUME NEW i \in 1..n, arrived[i] = q PROVE \E j \in 1..(n - 1) : arrived'[j] = q
      <4>1. i # 1
        BY <1>2, <2>2, <3>2
      <4>2. i - 1 \in 1..(n - 1) /\ (i - 1) + 1 = i
        BY <4>1
      <4>. QED BY <1>5, <3>2, <4>2
    <3>3. ASSUME NEW i \in 1..(n - 1), arrived'[i] = q PROVE \E j \in 1..n : arrived[j] = q
      BY <1>5, <3>3
    <3>. QED BY <3>1, <3>2, <3>3
  <2>. QED BY <2>1, <2>2
<1>11. ASSUME NEW i \in 1..(n - 1) PROVE ahead'[arrived'[i]] = IF i = 1 THEN NoGate ELSE arrived'[i - 1]
  <2>1. arrived'[i] = arrived[i + 1] /\ i + 1 \in 1..n /\ arrived[i + 1] \in Requests
    BY <1>3, <1>5, LineParts
  <2>2. ahead[arrived[i + 1]] = arrived[i]
    <3>1. ahead[arrived[i + 1]] = IF i + 1 = 1 THEN NoGate ELSE arrived[i + 1 - 1]
      BY <1>3, <2>1 DEF LineInv
    <3>2. i + 1 # 1 /\ i + 1 - 1 = i
      OBVIOUS
    <3>. QED BY <3>1, <3>2
  <2>3. CASE i = 1
    BY <1>0, <1>2, <2>1, <2>2, <2>3
  <2>4. CASE i # 1
    <3>1. i \in 2..n /\ arrived[i] # r
      BY <1>6, <2>4
    <3>2. i - 1 \in 1..(n - 1) /\ (i - 1) + 1 = i
      BY <2>4
    <3>3. arrived'[i - 1] = arrived[i]
      BY <1>5, <3>2
    <3>. QED BY <1>0, <2>1, <2>2, <2>4, <3>1, <3>3
  <2>. QED BY <2>3, <2>4
<1>12. ASSUME NEW i \in 1..(n - 1) PROVE stage'[arrived'[i]] = "queued"
  <2>1. arrived'[i] = arrived[i + 1] /\ i + 1 \in 2..n
    BY <1>3, <1>5
  <2>2. stage[arrived[i + 1]] = "queued"
    BY <1>3, <2>1 DEF LineInv
  <2>. QED BY <1>6, <1>7, <2>1, <2>2
<1>13. lastIn' = IF arrived' = <<>> THEN NoGate ELSE arrived'[Len(arrived')]
  <2>1. lastIn = arrived[n]
    BY <1>2, <1>3 DEF LineInv
  <2>2. CASE n = 1
    <3>1. arrived' = <<>>
      BY <1>5, <2>2
    <3>. QED BY <1>0, <1>2, <2>1, <2>2, <3>1
  <2>3. CASE n # 1
    <3>1. n \in 2..n /\ n - 1 \in 1..(n - 1) /\ (n - 1) + 1 = n
      BY <2>3
    <3>2. arrived' # <<>> /\ arrived'[Len(arrived')] = arrived[n]
      BY <1>5, <3>1
    <3>. QED BY <1>0, <1>6, <2>1, <3>1, <3>2
  <2>. QED BY <2>2, <2>3
<1>14. LineInv'
  BY ZenonT(40), <1>5, <1>8, <1>9, <1>10, <1>11, <1>12, <1>13 DEF LineInv
<1>15. Probing' = {}
  <2>1. SUFFICES ASSUME NEW q \in Requests, stage'[q] \in {"probing", "discovering", "reprobing"} PROVE FALSE
    BY DEF Probing
  <2>2. q # r /\ q \in Probing
    BY <1>7, <2>1 DEF Probing
  <2>. QED BY <1>2, <2>2, FirstHasTurn
<1>. QED BY <1>1, <1>5, <1>14, <1>15 DEF Lock!Leave

(* The chain of gates is a lock on the host: every step of a request is a step
   of the line, or leaves it as it is, so that one probe runs at a time and the
   first to arrive is the first to be served. *)
THEOREM GatesAreALock == PQSpec => Lock!LockSafety
<1>1. PQInit => LineInv
  <2>1. SUFFICES ASSUME PQInit PROVE LineInv
    OBVIOUS
  <2>2. PQTypeOK
    BY <2>1 DEF PQInit, PQTypeOK, Stages
  <2>. QED BY <2>1, <2>2 DEF PQInit, LineInv
<1>2. PQInit => Lock!LockInit
  BY DEF PQInit, Probing, Lock!LockInit
<1>3. LineInv /\ [PQNext]_pqVars => LineInv' /\ [Lock!LockNext]_Lock!lockVars
  <2>1. SUFFICES ASSUME LineInv, [PQNext]_pqVars PROVE LineInv' /\ [Lock!LockNext]_Lock!lockVars
    OBVIOUS
  <2>2. CASE UNCHANGED pqVars
    BY <2>1, <2>2 DEF pqVars, LineInv, PQTypeOK, Probing, Lock!lockVars
  <2>3. ASSUME NEW r \in Requests, Arrives(r) PROVE LineInv' /\ [Lock!LockNext]_Lock!lockVars
    BY <2>1, <2>3, ArrivesStep DEF Lock!LockNext
  <2>4. ASSUME NEW r \in Requests, Starts(r) PROVE LineInv' /\ [Lock!LockNext]_Lock!lockVars
    BY <2>1, <2>4, StartsStep DEF Lock!LockNext
  <2>5. ASSUME NEW r \in Requests, Discovers(r) \/ Reprobes(r) PROVE LineInv' /\ [Lock!LockNext]_Lock!lockVars
    BY <2>1, <2>5, ProbesStep DEF Lock!lockVars
  <2>6. ASSUME NEW r \in Requests, Finishes(r) PROVE LineInv' /\ [Lock!LockNext]_Lock!lockVars
    BY <2>1, <2>6, FinishesStep DEF Lock!LockNext
  <2>. QED BY <2>1, <2>2, <2>3, <2>4, <2>5, <2>6 DEF PQNext
<1>. QED BY <1>1, <1>2, <1>3, PTL DEF PQSpec, Lock!LockSafety

----------------------------------------------------------------------------
(* The bounds of a sweep *)

(* The order has every row once, the rows in the queue are those to be checked,
   and no more checks are begun than there are rows. *)
SweepBounds ==
  /\ IsInjective(recency) /\ ToSet(recency) = Rows /\ out \subseteq ToSet(Host)
  /\ \A i \in DOMAIN sweep.queue : sweep.queue[i].row \in chosen
  /\ sweep.at # "checking" => sweep.begun = 0
  /\ sweep.begun + Len(sweep.queue) <= Cardinality(Rows)
  /\ fault \in BOOLEAN /\ troubles \in 0..MaxTroubles

LEMMA OrderIsWhole == ASSUME NEW o \in SetToSeqs(Rows) PROVE IsInjective(o) /\ ToSet(o) = Rows
<1>1. o \in Seq(Rows) /\ (\A i, j \in DOMAIN o : o[i] = o[j] => i = j) /\ \A x \in Rows : \E i \in DOMAIN o : o[i] = x
  BY OrderIsOnto
<1>2. \A i \in DOMAIN o : o[i] \in Rows
  BY <1>1
<1>. QED BY <1>1, <1>2 DEF IsInjective, ToSet

LEMMA SweepBoundsInit == ASSUME Init PROVE SweepBounds
<1>1. recency \in SetToSeqs(Rows) /\ out = {} /\ sweep = NoSweep /\ fault = FALSE /\ troubles = 0
  BY DEF Init
<1>2. Cardinality(Rows) \in Nat /\ MaxTroubles \in Nat
  BY SweepAssumption, FS_CardinalityType
<1>3. sweep.queue = <<>> /\ Len(sweep.queue) = 0 /\ sweep.begun = 0 /\ DOMAIN sweep.queue = {}
  BY <1>1 DEF NoSweep
<1>4. IsInjective(recency) /\ ToSet(recency) = Rows
  BY <1>1, OrderIsWhole
<1>5. sweep.begun + Len(sweep.queue) <= Cardinality(Rows) /\ troubles \in 0..MaxTroubles
  BY <1>1, <1>2, <1>3
<1>. QED BY <1>1, <1>3, <1>4, <1>5 DEF SweepBounds

(* A step that leaves the queue as it is, or empties it at the end. *)
LEMMA QueueStays ==
  ASSUME SweepInv, SweepBounds, SweepInv',
         recency' = recency \/ recency' \in SetToSeqs(Rows), out' = out, fault' \in BOOLEAN,
         troubles' \in {troubles, troubles + 1}, troubles' <= MaxTroubles,
         \/ sweep'.queue = sweep.queue /\ sweep'.begun = sweep.begun /\ sweep'.at = sweep.at /\ chosen' = chosen
         \/ sweep'.queue = <<>> /\ sweep'.begun = 0
  PROVE  SweepBounds'
<1>1. IsInjective(recency') /\ ToSet(recency') = Rows
  BY OrderIsWhole DEF SweepBounds
<1>2. troubles' \in 0..MaxTroubles
  BY SweepAssumption DEF SweepBounds
<1>3. CASE sweep'.queue = <<>> /\ sweep'.begun = 0
  <2>1. Cardinality(Rows) \in Nat
    BY SweepAssumption, FS_CardinalityType
  <2>2. DOMAIN sweep'.queue = {} /\ Len(sweep'.queue) = 0
    BY <1>3
  <2>. QED BY <1>1, <1>2, <1>3, <2>1, <2>2 DEF SweepBounds
<1>4. CASE sweep'.queue = sweep.queue /\ sweep'.begun = sweep.begun /\ sweep'.at = sweep.at /\ chosen' = chosen
  BY <1>1, <1>2, <1>4 DEF SweepBounds
<1>. QED BY <1>3, <1>4

LEMMA StartBounds == ASSUME SweepInv, SweepBounds, SweepStart PROVE SweepBounds'
<1>1. PICK S \in SUBSET Rows : S = Candidates(out')
  BY DEF Candidates
<1>2. chosen' = S /\ Queued(S) /\ UNCHANGED <<recency, fault>> /\ sweep.at = "preparing"
  BY <1>1 DEF SweepStart, Selected
<1>3. PICK o \in SetToSeqs(S) :
        sweep' = [sweep EXCEPT !.at = "checking", !.queue = [i \in DOMAIN o |-> Read(o[i])]]
  BY <1>2 DEF Queued, orderForSweep
<1>4. o \in [1..Cardinality(S) -> S]
  BY DEF SetToSeqs
<1>5. Cardinality(S) \in Nat /\ Cardinality(S) <= Cardinality(Rows) /\ Cardinality(Rows) \in Nat
  BY SweepAssumption, FS_CardinalityType, FS_Subset
<1>6. PICK q : q = [i \in DOMAIN o |-> Read(o[i])]
  OBVIOUS
<1>7. q \in [1..Cardinality(S) -> {Read(x) : x \in S}]
  BY <1>4, <1>6
<1>8. Len(q) = Cardinality(S) /\ DOMAIN q = 1..Cardinality(S)
  <2>1. q \in Seq({Read(x) : x \in S}) /\ DOMAIN q = 1..Cardinality(S)
    BY <1>5, <1>7
  <2>. QED BY <1>5, <2>1
<1>9. \A i \in DOMAIN q : q[i].row \in S
  BY <1>4, <1>6, <1>8 DEF Read
<1>10. sweep'.queue = q /\ sweep'.begun = sweep.begun /\ sweep'.at = "checking"
  BY <1>3, <1>6 DEF SweepInv, SweepTyped
<1>11. sweep'.begun + Len(sweep'.queue) <= Cardinality(Rows)
  BY <1>2, <1>5, <1>8, <1>10 DEF SweepBounds
<1>12. out' \subseteq ToSet(Host) /\ troubles' \in 0..MaxTroubles
  BY SweepAssumption DEF SweepStart, Trouble, SweepBounds
<1>. QED BY <1>2, <1>9, <1>10, <1>11, <1>12 DEF SweepBounds

LEMMA TakeBounds == ASSUME SweepInv, SweepBounds, Take PROVE SweepBounds'
<1>1. SweepTyped /\ UNCHANGED <<out, recency, troubles, chosen, fault>>
  BY DEF SweepInv, Take, history
<1>2. PICK q \in Seq(Reading) : q = sweep.queue
  BY <1>1, QueueTyped
<1>3. q # <<>> /\ sweep.at = "checking"
  BY <1>2 DEF Take
<1>4. PICK t \in Seq(Reading) : t = Tail(q) /\ Len(t) = Len(q) - 1 /\ \A i \in 1..Len(t) : t[i] = q[i + 1]
  BY ZenonT(40), <1>3, HeadTailProperties
<1>5. sweep'.queue = t /\ sweep'.begun = sweep.begun + 1 /\ sweep'.at = "checking"
  BY <1>1, <1>2, <1>3, <1>4 DEF Take, SweepTyped
<1>6. \A i \in DOMAIN t : i + 1 \in DOMAIN q /\ t[i] = q[i + 1]
  BY <1>4
<1>7. \A i \in DOMAIN t : t[i].row \in chosen
  BY <1>2, <1>6 DEF SweepBounds
<1>8. sweep'.begun + Len(sweep'.queue) <= Cardinality(Rows)
  <2>1. sweep.begun \in Nat /\ Len(q) \in Nat /\ Cardinality(Rows) \in Nat
    BY <1>1, SweepAssumption, FS_CardinalityType DEF SweepTyped
  <2>2. sweep.begun + Len(q) <= Cardinality(Rows)
    BY <1>2 DEF SweepBounds
  <2>. QED BY <1>4, <1>5, <2>1, <2>2
<1>. QED BY <1>1, <1>5, <1>7, <1>8 DEF SweepBounds

LEMMA SweepBoundsNext ==
  ASSUME SweepInv, SweepBounds, [Next]_vars
  PROVE  SweepBounds'
<1>0. SweepInv' /\ troubles \in 0..MaxTroubles /\ MaxTroubles \in Nat /\ fault \in BOOLEAN
  BY SweepNextInv, SweepAssumption DEF SweepBounds
<1>. DEFINE Kept == sweep'.queue = sweep.queue /\ sweep'.begun = sweep.begun /\ sweep'.at = sweep.at /\ chosen' = chosen
            Emptied == sweep'.queue = <<>> /\ sweep'.begun = 0
            Calm == recency' = recency \/ recency' \in SetToSeqs(Rows)
            Quiet == out' = out /\ fault' \in BOOLEAN /\ troubles' \in {troubles, troubles + 1} /\ troubles' <= MaxTroubles
<1>1. Calm /\ Quiet /\ (Kept \/ Emptied) => SweepBounds'
  BY <1>0, QueueStays
<1>2. CASE UNCHANGED vars
  BY <1>0, <1>1, <1>2 DEF vars
<1>3. CASE Tick \/ DiskGuard \/ BudgetOver
  <2>1. UNCHANGED <<out, recency, troubles, chosen, fault>>
    BY <1>3 DEF Tick, DiskGuard, BudgetOver, history
  <2>2. CASE Tick \/ DiskGuard
    <3>1. Emptied
      BY <2>2 DEF Tick, DiskGuard, NoSweep
    <3>. QED BY <1>0, <1>1, <2>1, <3>1
  <2>3. CASE BudgetOver
    <3>1. Kept
      BY <2>3, <2>1 DEF BudgetOver, SweepInv, SweepTyped
    <3>. QED BY <1>0, <1>1, <2>1, <3>1
  <2>. QED BY <1>3, <2>2, <2>3
<1>4. CASE SweepEnd
  <2>1. Emptied /\ UNCHANGED <<out, recency, troubles>> /\ fault' = FALSE
    BY <1>4 DEF SweepEnd, NoSweep
  <2>2. Calm
    BY <2>1
  <2>3. fault' \in BOOLEAN
    BY <2>1
  <2>4. troubles' = troubles /\ out' = out /\ troubles' <= MaxTroubles
    BY <1>0, <2>1
  <2>5. Quiet
    BY <2>3, <2>4
  <2>. QED BY <1>1, <2>1, <2>2, <2>5
<1>5. CASE SweepStart
  BY <1>5, StartBounds
<1>6. CASE Take
  BY <1>6, TakeBounds
<1>7. ASSUME NEW r \in Rows, Recorded(r) \/ SiblingRecorded(r) PROVE SweepBounds'
  <2>1. PICK answer, q, verdict, todo : Proceed(r, answer, q, verdict, todo)
    BY <1>7 DEF Recorded, SiblingRecorded
  <2>2. UNCHANGED <<out, sweep, troubles, chosen, fault>>
    BY <2>1 DEF Proceed
  <2>3. PICK verdicts : Persist(verdicts, answer)
    BY <2>1 DEF Proceed
  <2>4. PICK done : recency' \in Reordered(done)
    BY <2>3 DEF Persist
  <2>5. recency' \in SetToSeqs(Rows)
    BY <2>4 DEF Reordered
  <2>. QED BY <1>0, <1>1, <2>2, <2>5
<1>8. ASSUME NEW r \in Rows, StoreFails(r) PROVE SweepBounds'
  <2>1. UNCHANGED <<out, recency, sweep, chosen>> /\ fault' = TRUE /\ troubles < MaxTroubles /\ troubles' = troubles + 1
    BY <1>8 DEF StoreFails, Trouble
  <2>. QED BY <1>0, <1>1, <2>1
<1>9. ASSUME NEW r \in Rows,
             \/ Delist(r) \/ Relist(r) \/ RowRemoved(r) \/ Reregister(r) \/ SetUnprobeable(r) \/ SetProbeable(r)
      PROVE  SweepBounds'
  <2>1. UNCHANGED <<out, recency, sweep, chosen, fault>> /\ troubles < MaxTroubles /\ troubles' = troubles + 1
    BY <1>9 DEF Delist, Relist, RowRemoved, Reregister, SetUnprobeable, SetProbeable, Changed, Trouble
  <2>. QED BY <1>0, <1>1, <2>1
<1>. QED BY <1>2, <1>3, <1>4, <1>5, <1>6, <1>7, <1>8, <1>9 DEF Next

LEMMA SweepTypes == ASSUME SweepInv, SweepBounds PROVE TypeOK
<1>1. row \in [Rows -> Service] /\ streak \in [Rows -> 0..DOWN_AFTER] /\ checked \subseteq Rows /\ chosen \subseteq Rows /\ logged \subseteq Rows
  BY DEF SweepInv, SweepTyped
<1>2. sweep.at \in {"idle", "preparing", "checking"} /\ sweep.over \in BOOLEAN /\ sweep.begun \in Nat /\ sweep.queue \in Seq(Reading)
  BY DEF SweepInv, SweepTyped
<1>3. {s.row : s \in ToSet(sweep.queue)} \subseteq chosen
  BY DEF SweepBounds, ToSet
<1>4. sweep.begun \in 0..Cardinality(Rows)
  <2>1. Len(sweep.queue) \in Nat /\ Cardinality(Rows) \in Nat
    BY <1>2, SweepAssumption, FS_CardinalityType
  <2>. QED BY <1>2, <2>1 DEF SweepBounds
<1>5. \A r \in Rows :
        /\ check[r].at \in {"none", "probing", "sibling"}
        /\ check[r].fails \in 0..DOWN_AFTER
        /\ check[r].answer.kind \in Kinds /\ check[r].answer.shown \subseteq Rows
        /\ check[r].at = "sibling" => check[r].todo # <<>>
  BY DEF SweepInv, SweepTyped, SiblingsAreOthers, Check, Answer
<1>. QED BY <1>1, <1>2, <1>3, <1>4, <1>5 DEF TypeOK, SweepBounds, Service

----------------------------------------------------------------------------
(***************************************************************************)
(* The rollup of the query log: FoldGroups says that a fold of any chunk   *)
(* gives the summary of all rows folded so far, SummaryReports that this   *)
(* summary and the raw rows report what the whole log would.               *)
(***************************************************************************)
(* The extremes of a finite set of naturals. *)
LEMMA MinOfNaturals ==
  ASSUME NEW S \in SUBSET Nat, NEW x \in S, \A y \in S : x <= y
  PROVE  Min(S) = x
<1>1. \A y \in S : y \in Nat
  OBVIOUS
<1>2. Min(S) \in S /\ \A y \in S : Min(S) <= y
  BY DEF Min
<1>3. PICK m \in S : m = Min(S)
  BY <1>2
<1>4. m <= x /\ x <= m /\ m \in Nat /\ x \in Nat
  BY <1>1, <1>2, <1>3
<1> QED
  BY <1>3, <1>4

LEMMA MaxOfNaturals ==
  ASSUME NEW S \in SUBSET Nat, NEW x \in S, \A y \in S : x >= y
  PROVE  Max(S) = x
<1>1. \A y \in S : y \in Nat
  OBVIOUS
<1>2. Max(S) \in S /\ \A y \in S : Max(S) >= y
  BY DEF Max
<1>3. PICK m \in S : m = Max(S)
  BY <1>2
<1>4. m >= x /\ x >= m /\ m \in Nat /\ x \in Nat
  BY <1>1, <1>2, <1>3
<1> QED
  BY <1>3, <1>4

LEMMA GreatestExists ==
  ASSUME NEW S \in SUBSET Nat, IsFiniteSet(S), S # {}
  PROVE  \E x \in S : \A y \in S : x >= y
<1> DEFINE G == {T \in SUBSET S : T # {} => \E x \in T : \A y \in T : x >= y}
<1>1. ASSUME NEW T \in SUBSET S, \A U \in SUBSET T : U # T => U \in G
      PROVE  T \in G
  <2>1. SUFFICES ASSUME T # {}
                 PROVE  \E x \in T : \A y \in T : x >= y
    OBVIOUS
  <2>2. PICK p \in T : TRUE
    BY <2>1
  <2>3. \A y \in T : y \in Nat
    OBVIOUS
  <2>4. CASE T = {p}
    BY <2>3, <2>4
  <2>5. CASE T # {p}
    <3>1. T \ {p} \in G /\ T \ {p} # {}
      BY <1>1, <2>2, <2>5
    <3>2. PICK x \in T \ {p} : \A y \in T \ {p} : x >= y
      BY <3>1
    <3>3. CASE x >= p
      BY <3>2, <3>3
    <3>4. CASE ~(x >= p)
      <4>1. x \in Nat /\ p \in Nat /\ p > x
        BY <2>3, <3>4
      <4>2. \A y \in T : p >= y
        BY <2>3, <3>2, <4>1
      <4> QED
        BY <4>2
    <3> QED
      BY <3>3, <3>4
  <2> QED
    BY <2>4, <2>5
<1> HIDE DEF G
<1>2. S \in G
  BY <1>1, SubsetInduction
<1> QED
  BY <1>2 DEF G

(* The extremes of a union are those of the extremes of its parts. *)
LEMMA ExtremesJoin ==
  ASSUME NEW S \in SUBSET Nat, IsFiniteSet(S), S # {},
         NEW T \in SUBSET Nat, IsFiniteSet(T), T # {}
  PROVE  /\ Min(S \cup T) = Min({Min(S), Min(T)})
         /\ Max(S \cup T) = Max({Max(S), Max(T)})
<1>1. PICK s \in S : \A y \in S : s <= y
  BY LeastNatural
<1>2. PICK t \in T : \A y \in T : t <= y
  BY LeastNatural
<1>3. PICK u \in S : \A y \in S : u >= y
  BY GreatestExists
<1>4. PICK v \in T : \A y \in T : v >= y
  BY GreatestExists
<1>5. Min(S) = s /\ Min(T) = t /\ Max(S) = u /\ Max(T) = v
  BY <1>1, <1>2, <1>3, <1>4, MinOfNaturals, MaxOfNaturals
<1>6. s \in Nat /\ t \in Nat /\ u \in Nat /\ v \in Nat
  OBVIOUS
<1>7. \A y \in S \cup T : y \in Nat
  OBVIOUS
<1>8. PICK m \in {s, t} : m <= s /\ m <= t
  BY <1>6
<1>9. PICK n \in {u, v} : n >= u /\ n >= v
  BY <1>6
<1>10. Min({s, t}) = m /\ Max({u, v}) = n
  BY <1>6, <1>8, <1>9, MinOfNaturals, MaxOfNaturals
<1>11. \A y \in S \cup T : m <= y /\ n >= y
  BY <1>1, <1>2, <1>3, <1>4, <1>6, <1>7, <1>8, <1>9
<1>12. Min(S \cup T) = m /\ Max(S \cup T) = n
  <2>1. S \cup T \in SUBSET Nat /\ m \in S \cup T /\ n \in S \cup T
    OBVIOUS
  <2> QED
    BY <1>11, <2>1, MinOfNaturals, MaxOfNaturals
<1> QED
  BY <1>5, <1>10, <1>12

----------------------------------------------------------------------------
(* Groups of log rows *)

GroupOf(R, i) == {j \in R : Day(log[j].time) = Day(log[i].time) /\ log[j].term = log[i].term}
Zeros(S) == {j \in S : log[j].zero}
RowOf(R, i) ==
  [day |-> Day(log[i].time), term |-> log[i].term, count |-> Cardinality(GroupOf(R, i)),
   zeros |-> Cardinality(Zeros(GroupOf(R, i))),
   first |-> Min(Times(GroupOf(R, i))), last |-> Max(Times(GroupOf(R, i)))]

SameGroup(i, j) == Day(log[j].time) = Day(log[i].time) /\ log[j].term = log[i].term

(* A finite set of rows whose times are natural. *)
Timed(R) == IsFiniteSet(R) /\ \A i \in R : log[i].time \in Nat

LEMMA GroupedRows ==
  ASSUME NEW R
  PROVE  Grouped(R) = {RowOf(R, i) : i \in R}
  BY DEF Grouped, RowOf, GroupOf, Zeros

LEMMA JoinedFields ==
  ASSUME NEW a, NEW b,
         a = [day |-> a.day, term |-> a.term, count |-> a.count, zeros |-> a.zeros,
              first |-> a.first, last |-> a.last]
  PROVE  Joined(a, b) = [day |-> a.day, term |-> a.term, count |-> a.count + b.count,
                         zeros |-> a.zeros + b.zeros, first |-> Min({a.first, b.first}),
                         last |-> Max({a.last, b.last})]
<1> DEFINE one == [a EXCEPT !.count = @ + b.count]
           two == [one EXCEPT !.zeros = @ + b.zeros]
           three == [two EXCEPT !.first = Min({@, b.first})]
           four == [three EXCEPT !.last = Max({@, b.last})]
<1>1. one = [day |-> a.day, term |-> a.term, count |-> a.count + b.count, zeros |-> a.zeros,
             first |-> a.first, last |-> a.last]
  OBVIOUS
<1>2. two = [day |-> a.day, term |-> a.term, count |-> a.count + b.count,
             zeros |-> a.zeros + b.zeros, first |-> a.first, last |-> a.last]
  <2> HIDE DEF one
  <2> QED
    BY <1>1
<1>3. three = [day |-> a.day, term |-> a.term, count |-> a.count + b.count,
               zeros |-> a.zeros + b.zeros, first |-> Min({a.first, b.first}), last |-> a.last]
  <2> HIDE DEF two
  <2> QED
    BY <1>2
<1>4. four = [day |-> a.day, term |-> a.term, count |-> a.count + b.count,
              zeros |-> a.zeros + b.zeros, first |-> Min({a.first, b.first}),
              last |-> Max({a.last, b.last})]
  <2> HIDE DEF three
  <2> QED
    BY <1>3
<1>5. Joined(a, b) = four
  BY DEF Joined
<1> QED
  BY <1>4, <1>5

(* The image of a finite set is finite. *)
LEMMA TimesOfRows ==
  ASSUME NEW R, Timed(R)
  PROVE  Times(R) \in SUBSET Nat /\ IsFiniteSet(Times(R)) /\ (R # {} => Times(R) # {})
<1> DEFINE f == [i \in R |-> log[i].time]
<1>1. f \in Surjection(R, Times(R))
  BY DEF Surjection, Times
<1>2. IsFiniteSet(Times(R))
  BY <1>1, FS_Surjection DEF Timed
<1> QED
  BY <1>2 DEF Times, Timed

LEMMA GroupedIsFinite ==
  ASSUME NEW R, IsFiniteSet(R)
  PROVE  IsFiniteSet(Grouped(R))
<1> DEFINE f == [i \in R |-> RowOf(R, i)]
           T == {RowOf(R, i) : i \in R}
<1>1. f \in Surjection(R, T)
  BY DEF Surjection
<1>2. IsFiniteSet(T)
  BY <1>1, FS_Surjection
<1> QED
  BY <1>2, GroupedRows

(* The summary of a group that two disjoint sets of rows share is the join
   of their summaries. *)
LEMMA SharedGroupJoins ==
  ASSUME NEW A, Timed(A), NEW B, Timed(B), A \cap B = {},
         NEW i \in A, NEW j \in B, SameGroup(i, j)
  PROVE  RowOf(A \cup B, i) = Joined(RowOf(A, i), RowOf(B, j))
<1>1. PICK S : S = GroupOf(A, i)
  OBVIOUS
<1>2. PICK T : T = GroupOf(B, j)
  OBVIOUS
<1>3. S \subseteq A /\ T \subseteq B /\ i \in S /\ j \in T
  BY <1>1, <1>2 DEF GroupOf
<1>4. GroupOf(A \cup B, i) = S \cup T
  BY <1>1, <1>2 DEF GroupOf, SameGroup
<1>5. Timed(S) /\ Timed(T)
  BY <1>3, FS_Subset DEF Timed
<1>6. Cardinality(S \cup T) = Cardinality(S) + Cardinality(T)
  <2>1. S \cap T = {}
    BY <1>3
  <2>2. Cardinality(S \cap T) = 0
    BY <2>1, FS_EmptySet
  <2>3. Cardinality(S) \in Nat /\ Cardinality(T) \in Nat
    BY <1>5, FS_CardinalityType DEF Timed
  <2>4. Cardinality(S \cup T) = Cardinality(S) + Cardinality(T) - Cardinality(S \cap T)
    BY <1>5, FS_Union DEF Timed
  <2> QED
    BY <2>2, <2>3, <2>4
<1>7. Cardinality(Zeros(S \cup T)) = Cardinality(Zeros(S)) + Cardinality(Zeros(T))
  <2>1. PICK Y : Y = Zeros(S)
    OBVIOUS
  <2>2. PICK Z : Z = Zeros(T)
    OBVIOUS
  <2>3. Zeros(S \cup T) = Y \cup Z /\ Y \cap Z = {} /\ Y \in SUBSET S /\ Z \in SUBSET T
    BY <1>3, <2>1, <2>2 DEF Zeros
  <2>4. IsFiniteSet(Y) /\ IsFiniteSet(Z)
    BY <1>5, <2>3, FS_Subset DEF Timed
  <2>5. Cardinality(Y) \in Nat /\ Cardinality(Z) \in Nat
    BY <2>4, FS_CardinalityType
  <2>6. Cardinality(Y \cup Z) = Cardinality(Y) + Cardinality(Z) - Cardinality(Y \cap Z)
    BY <2>4, FS_Union
  <2>7. Cardinality(Y \cap Z) = 0
    BY <2>3, FS_EmptySet
  <2>8. Cardinality(Y \cup Z) = Cardinality(Y) + Cardinality(Z)
    BY <2>5, <2>6, <2>7
  <2>9. Zeros(S \cup T) = Y \cup Z
    BY <2>3
  <2> QED
    BY <2>1, <2>2, <2>8, <2>9
<1>8. /\ Min(Times(S \cup T)) = Min({Min(Times(S)), Min(Times(T))})
      /\ Max(Times(S \cup T)) = Max({Max(Times(S)), Max(Times(T))})
  <2>1. PICK P : P = Times(S)
    OBVIOUS
  <2>2. PICK Q : Q = Times(T)
    OBVIOUS
  <2>3. Times(S \cup T) = P \cup Q
    BY <2>1, <2>2 DEF Times
  <2>4. P \in SUBSET Nat /\ IsFiniteSet(P) /\ P # {}
    BY <1>3, <1>5, <2>1, TimesOfRows
  <2>5. Q \in SUBSET Nat /\ IsFiniteSet(Q) /\ Q # {}
    BY <1>3, <1>5, <2>2, TimesOfRows
  <2>6. Min(P \cup Q) = Min({Min(P), Min(Q)}) /\ Max(P \cup Q) = Max({Max(P), Max(Q)})
    BY <2>4, <2>5, ExtremesJoin
  <2> QED
    BY <2>1, <2>2, <2>3, <2>6
<1>9. PICK a : a = RowOf(A, i)
  OBVIOUS
<1>10. PICK b : b = RowOf(B, j)
  OBVIOUS
<1>11. PICK r : r = RowOf(A \cup B, i)
  OBVIOUS
<1>12. a = [day |-> a.day, term |-> a.term, count |-> a.count, zeros |-> a.zeros,
            first |-> a.first, last |-> a.last]
  BY <1>9 DEF RowOf
<1>13. r = [day |-> r.day, term |-> r.term, count |-> r.count, zeros |-> r.zeros,
            first |-> r.first, last |-> r.last]
  BY <1>11 DEF RowOf
<1>14. r.day = a.day /\ r.term = a.term
  BY <1>9, <1>11 DEF RowOf
<1>15. r.count = a.count + b.count /\ r.zeros = a.zeros + b.zeros
  BY <1>1, <1>2, <1>4, <1>6, <1>7, <1>9, <1>10, <1>11 DEF RowOf
<1>16. r.first = Min({a.first, b.first}) /\ r.last = Max({a.last, b.last})
  BY <1>1, <1>2, <1>4, <1>8, <1>9, <1>10, <1>11 DEF RowOf
<1>17. Joined(a, b) = [day |-> a.day, term |-> a.term, count |-> a.count + b.count,
                       zeros |-> a.zeros + b.zeros, first |-> Min({a.first, b.first}),
                       last |-> Max({a.last, b.last})]
  BY <1>12, JoinedFields
<1> QED
  BY <1>9, <1>10, <1>11, <1>13, <1>14, <1>15, <1>16, <1>17
(* A row alone in its group of the union is summarised as before. *)
LEMMA LoneGroupStays ==
  ASSUME NEW A, NEW B, NEW i, GroupOf(B, i) = {}
  PROVE  RowOf(A \cup B, i) = RowOf(A, i)
<1>1. GroupOf(A \cup B, i) = GroupOf(A, i)
  BY DEF GroupOf
<1> QED
  BY <1>1 DEF RowOf

LEMMA KeysOfRows ==
  ASSUME NEW A, NEW B, NEW i, NEW j
  PROVE  SameKey(RowOf(A, i), RowOf(B, j)) <=> SameGroup(i, j)
  BY DEF SameKey, SameGroup, RowOf

(* Folding rows into the summary of others gives the summary of both,
   whatever the rows folded together were. *)
LEMMA FoldGroups ==
  ASSUME NEW A, Timed(A), NEW B, Timed(B), A \cap B = {}
  PROVE  Fold(Grouped(A), B) = Grouped(A \cup B)
<1> DEFINE old == {RowOf(A, i) : i \in A}
           new == {RowOf(B, i) : i \in B}
           all == {RowOf(A \cup B, i) : i \in A \cup B}
           kept == {d \in old : \A e \in new : ~SameKey(d, e)}
           added == {e \in new : \A d \in old : ~SameKey(d, e)}
           pairs == {q \in old \X new : SameKey(q[1], q[2])}
           joined == {Joined(p[1], p[2]) : p \in pairs}
<1>1. Grouped(A) = old /\ Grouped(B) = new /\ Grouped(A \cup B) = all
  BY GroupedRows
<1>2. Fold(Grouped(A), B) = (kept \cup added) \cup joined
  BY <1>1 DEF Fold
<1>3. \A i \in A : GroupOf(B, i) = {} => RowOf(A \cup B, i) = RowOf(A, i)
  BY LoneGroupStays
<1>4. \A j \in B : GroupOf(A, j) = {} => RowOf(A \cup B, j) = RowOf(B, j)
  <2> SUFFICES ASSUME NEW j \in B, GroupOf(A, j) = {}
               PROVE  RowOf(A \cup B, j) = RowOf(B, j)
    OBVIOUS
  <2>1. RowOf(B \cup A, j) = RowOf(B, j)
    BY LoneGroupStays
  <2>2. B \cup A = A \cup B
    OBVIOUS
  <2> QED
    BY <2>1, <2>2
<1>5. \A i \in A, j \in B : SameGroup(i, j) =>
        /\ RowOf(A \cup B, i) = Joined(RowOf(A, i), RowOf(B, j))
        /\ RowOf(A \cup B, j) = RowOf(A \cup B, i)
  <2> SUFFICES ASSUME NEW i \in A, NEW j \in B, SameGroup(i, j)
               PROVE  /\ RowOf(A \cup B, i) = Joined(RowOf(A, i), RowOf(B, j))
                      /\ RowOf(A \cup B, j) = RowOf(A \cup B, i)
    OBVIOUS
  <2>1. GroupOf(A \cup B, j) = GroupOf(A \cup B, i)
    BY DEF GroupOf, SameGroup
  <2>2. RowOf(A \cup B, j) = RowOf(A \cup B, i)
    BY <2>1 DEF RowOf, SameGroup
  <2> QED
    BY <2>2, SharedGroupJoins
<1>6. \A i \in A, j \in B : SameKey(RowOf(A, i), RowOf(B, j)) <=> SameGroup(i, j)
  BY KeysOfRows
<1>7. \A i \in A : GroupOf(B, i) = {} \/ \E j \in B : SameGroup(i, j)
  BY DEF GroupOf, SameGroup
<1>8. \A j \in B : GroupOf(A, j) = {} \/ \E i \in A : SameGroup(i, j)
  BY DEF GroupOf, SameGroup
<1>9. \A i \in A, j \in B : SameGroup(i, j) => GroupOf(B, i) # {} /\ GroupOf(A, j) # {}
  BY DEF GroupOf, SameGroup
<1>10. ASSUME NEW i \in A
       PROVE  RowOf(A \cup B, i) \in (kept \cup added) \cup joined
  <2>1. CASE GroupOf(B, i) = {}
    <3>1. RowOf(A, i) \in kept
      BY <1>6, <1>9, <2>1
    <3> QED
      BY <1>3, <2>1, <3>1
  <2>2. ASSUME NEW j \in B, SameGroup(i, j)
        PROVE  RowOf(A \cup B, i) \in joined
    <3>1. PICK p : p = <<RowOf(A, i), RowOf(B, j)>>
      OBVIOUS
    <3>2. p \in pairs /\ Joined(p[1], p[2]) = RowOf(A \cup B, i)
      BY <1>5, <1>6, <2>2, <3>1
    <3> HIDE DEF pairs
    <3> QED
      BY <3>2
  <2> QED
    BY <1>7, <2>1, <2>2
<1>11. ASSUME NEW j \in B
       PROVE  RowOf(A \cup B, j) \in (kept \cup added) \cup joined
  <2>1. CASE GroupOf(A, j) = {}
    <3>1. RowOf(B, j) \in added
      BY <1>6, <1>9, <2>1
    <3> QED
      BY <1>4, <2>1, <3>1
  <2>2. ASSUME NEW i \in A, SameGroup(i, j)
        PROVE  RowOf(A \cup B, j) \in (kept \cup added) \cup joined
    BY <1>5, <1>10, <2>2
  <2> QED
    BY <1>8, <2>1, <2>2
<1>12. kept \subseteq all
  <2> SUFFICES ASSUME NEW i \in A, \A e \in new : ~SameKey(RowOf(A, i), e)
               PROVE  RowOf(A, i) \in all
    OBVIOUS
  <2>1. GroupOf(B, i) = {}
    BY <1>6, <1>7
  <2> QED
    BY <1>3, <2>1
<1>13. added \subseteq all
  <2> SUFFICES ASSUME NEW j \in B, \A d \in old : ~SameKey(d, RowOf(B, j))
               PROVE  RowOf(B, j) \in all
    OBVIOUS
  <2>1. GroupOf(A, j) = {}
    BY <1>6, <1>8
  <2> QED
    BY <1>4, <2>1
<1>14. joined \subseteq all
  <2> SUFFICES ASSUME NEW p \in pairs
               PROVE  Joined(p[1], p[2]) \in all
    OBVIOUS
  <2>1. p[1] \in old /\ p[2] \in new /\ SameKey(p[1], p[2])
    OBVIOUS
  <2>2. PICK i \in A : p[1] = RowOf(A, i)
    BY <2>1
  <2>3. PICK j \in B : p[2] = RowOf(B, j)
    BY <2>1
  <2> QED
    BY <1>5, <1>6, <2>1, <2>2, <2>3
<1> HIDE DEF kept, added, joined
<1>15. all \subseteq (kept \cup added) \cup joined
  BY <1>10, <1>11
<1> QED
  BY <1>1, <1>2, <1>12, <1>13, <1>14, <1>15
(* The counts of the summary add up to the number of rows. *)
LEMMA CountsOfGroups ==
  ASSUME NEW A, Timed(A)
  PROVE  SumFunctionOnSet([d \in Grouped(A) |-> d.count], Grouped(A)) = Cardinality(A)
<1> DEFINE Counted(R) == SumFunctionOnSet([d \in Grouped(R) |-> d.count], Grouped(R))
           G == {R \in SUBSET A : Counted(R) = Cardinality(R)}
<1>0. IsFiniteSet(A) /\ \A R \in SUBSET A : IsFiniteSet(R) /\ Cardinality(R) \in Nat
  BY FS_Subset, FS_CardinalityType DEF Timed
<1>1. ASSUME NEW R \in SUBSET A, \A U \in SUBSET R : U # R => U \in G
      PROVE  Counted(R) = Cardinality(R)
  <2>1. CASE R = {}
    <3>1. Grouped(R) = {}
      BY <2>1, GroupedRows
    <3>2. PICK f : f = [d \in Grouped(R) |-> d.count]
      OBVIOUS
    <3>3. SumFunctionOnSet(f, {}) = 0
      BY SumUnfolds
    <3>4. Cardinality(R) = 0
      BY <2>1, FS_EmptySet
    <3> QED
      BY <3>1, <3>2, <3>3, <3>4
  <2>2. CASE R # {}
    <3>1. PICK i \in R : TRUE
      BY <2>2
    <3>2. PICK S : S = GroupOf(R, i)
      OBVIOUS
    <3>3. S \in SUBSET R /\ i \in S
      BY <3>1, <3>2 DEF GroupOf
    <3>4. PICK U \in SUBSET R : U = R \ S
      OBVIOUS
    <3>5. U # R /\ U \in SUBSET A /\ S \in SUBSET A
      BY <3>3, <3>4
    <3>6. PICK r : r = RowOf(R, i)
      OBVIOUS
    <3>7. r.count = Cardinality(S) /\ r.count \in Nat
      BY <1>0, <3>2, <3>5, <3>6 DEF RowOf
    <3>8. \A j \in U : RowOf(R, j) = RowOf(U, j) /\ RowOf(U, j) # r
      <4> SUFFICES ASSUME NEW j \in U
                   PROVE  RowOf(R, j) = RowOf(U, j) /\ RowOf(U, j) # r
        OBVIOUS
      <4>1. GroupOf(R, j) = GroupOf(U, j)
        BY <3>2, <3>4 DEF GroupOf
      <4>2. ~SameGroup(i, j)
        BY <3>2, <3>4 DEF GroupOf, SameGroup
      <4>3. RowOf(U, j).day = Day(log[j].time) /\ RowOf(U, j).term = log[j].term
        BY DEF RowOf
      <4>4. r.day = Day(log[i].time) /\ r.term = log[i].term
        BY <3>6 DEF RowOf
      <4>5. RowOf(U, j) # r
        BY <4>2, <4>3, <4>4 DEF SameGroup
      <4> QED
        BY <4>1, <4>5 DEF RowOf
    <3>9. \A j \in S : RowOf(R, j) = r
      <4> SUFFICES ASSUME NEW j \in S
                   PROVE  RowOf(R, j) = RowOf(R, i)
        BY <3>6
      <4>1. SameGroup(i, j) /\ GroupOf(R, j) = GroupOf(R, i)
        BY <3>2 DEF GroupOf, SameGroup
      <4> QED
        BY <4>1 DEF RowOf, SameGroup
    <3>10. PICK D : D = Grouped(R)
      OBVIOUS
    <3>11. PICK E : E = Grouped(U)
      OBVIOUS
    <3>12. D = {RowOf(R, j) : j \in R} /\ E = {RowOf(U, j) : j \in U}
      BY <3>10, <3>11, GroupedRows
    <3>13. r \in D /\ D \ {r} = E
      BY <3>3, <3>4, <3>8, <3>9, <3>12
    <3>14. IsFiniteSet(D) /\ IsFiniteSet(E)
      BY <1>0, <3>5, <3>10, <3>11, GroupedIsFinite
    <3>15. PICK f : f = [d \in D |-> d.count]
      OBVIOUS
    <3>16. PICK g : g = [d \in E |-> d.count]
      OBVIOUS
    <3>17. \A d \in D : f[d] \in Nat
      <4> SUFFICES ASSUME NEW j \in R
                   PROVE  RowOf(R, j).count \in Nat
        BY <3>12, <3>15
      <4>1. GroupOf(R, j) \in SUBSET A
        BY DEF GroupOf
      <4> QED
        BY <1>0, <4>1 DEF RowOf
    <3>18. SumFunctionOnSet(f, D) = f[r] + SumFunctionOnSet(f, D \ {r})
      BY <3>13, <3>14, <3>17, SumTakesOut
    <3>19. SumFunctionOnSet(f, E) = SumFunctionOnSet(g, E)
      <4>1. \A d \in E : f[d] = g[d]
        BY <3>13, <3>15, <3>16
      <4> QED
        BY <3>14, <4>1, SumDependsOnValues
    <3>20. SumFunctionOnSet(g, E) = Cardinality(U)
      BY <1>1, <3>5, <3>11, <3>16
    <3>21. Cardinality(R) = Cardinality(S) + Cardinality(U)
      <4>1. R \cap S = S
        BY <3>3
      <4>2. Cardinality(U) = Cardinality(R) - Cardinality(R \cap S)
        BY <1>0, <3>4, FS_Difference
      <4> QED
        BY <1>0, <3>5, <4>1, <4>2
    <3>22. f[r] = Cardinality(S)
      BY <3>7, <3>13, <3>15
    <3>23. SumFunctionOnSet(f, D) = Cardinality(R)
      BY <3>13, <3>18, <3>19, <3>20, <3>21, <3>22
    <3> QED
      BY <3>10, <3>15, <3>23
  <2> QED
    BY <2>1, <2>2
<1> HIDE DEF Counted
<1>2. \A R \in SUBSET A : (\A U \in SUBSET R : U # R => U \in G) => R \in G
  BY <1>1
<1> HIDE DEF G
<1>3. A \in G
  BY <1>0, <1>2, SubsetInduction
<1> QED
  BY <1>3 DEF G, Counted

(* The summary has the days of the rows, and the extremes of their times. *)
LEMMA DaysOfGroups ==
  ASSUME NEW A
  PROVE  {d.day : d \in Grouped(A)} = {Day(log[i].time) : i \in A}
<1>1. \A i \in A : RowOf(A, i).day = Day(log[i].time)
  BY DEF RowOf
<1> QED
  BY <1>1, GroupedRows

LEMMA EndsOfGroups ==
  ASSUME NEW A, Timed(A), NEW B, Timed(B)
  PROVE  /\ Earliest(Times(B) \cup {d.first : d \in Grouped(A)}) = Earliest(Times(A \cup B))
         /\ Latest(Times(B) \cup {d.last : d \in Grouped(A)}) = Latest(Times(A \cup B))
<1> DEFINE F == {d.first : d \in Grouped(A)}
           L == {d.last : d \in Grouped(A)}
<1>1. ASSUME NEW i \in A
      PROVE  /\ RowOf(A, i).first \in Times(A) /\ RowOf(A, i).first <= log[i].time
             /\ RowOf(A, i).last \in Times(A) /\ RowOf(A, i).last >= log[i].time
  <2>1. PICK S \in SUBSET A : S = GroupOf(A, i)
    BY DEF GroupOf
  <2>2. i \in S
    BY <2>1 DEF GroupOf
  <2>3. Timed(S)
    BY <2>1, FS_Subset DEF Timed
  <2>4. PICK T : T = Times(S)
    OBVIOUS
  <2>5. T \in SUBSET Nat /\ IsFiniteSet(T) /\ T # {}
    BY <2>2, <2>3, <2>4, TimesOfRows
  <2>6. PICK a \in T : \A y \in T : a <= y
    BY <2>5, LeastNatural
  <2>7. PICK b \in T : \A y \in T : b >= y
    BY <2>5, GreatestExists
  <2>8. Min(T) = a /\ Max(T) = b
    BY <2>5, <2>6, <2>7, MinOfNaturals, MaxOfNaturals
  <2>9. log[i].time \in T /\ T \subseteq Times(A)
    BY <2>2, <2>4 DEF Times
  <2> QED
    BY <2>1, <2>4, <2>6, <2>7, <2>8, <2>9 DEF RowOf
<1>2. F = {RowOf(A, i).first : i \in A} /\ L = {RowOf(A, i).last : i \in A}
  BY GroupedRows
<1> HIDE DEF F, L
<1>3. F \subseteq Times(A) /\ L \subseteq Times(A)
  BY <1>1, <1>2
<1>4. \A t \in Times(A) : (\E u \in F : u <= t) /\ (\E u \in L : u >= t)
  <2> SUFFICES ASSUME NEW i \in A
               PROVE  (\E u \in F : u <= log[i].time) /\ (\E u \in L : u >= log[i].time)
    BY DEF Times
  <2> QED
    BY <1>1, <1>2
<1>5. Times(A \cup B) = Times(A) \cup Times(B)
  BY DEF Times
<1>6. Times(A) \in SUBSET Nat /\ Times(B) \in SUBSET Nat
  BY DEF Times, Timed
<1>7. \A t \in Times(A) \cup Times(B) : t \in Nat
  BY <1>6
<1>8. Earliest(Times(B) \cup F) = Earliest(Times(A) \cup Times(B))
  BY <1>3, <1>4, <1>7 DEF Earliest
<1>9. Latest(Times(B) \cup L) = Latest(Times(A) \cup Times(B))
  BY <1>3, <1>4, <1>7 DEF Latest
<1> QED
  BY <1>5, <1>8, <1>9 DEF F, L
----------------------------------------------------------------------------
(* The rollup *)

(* Searches have a time that has passed, and each is raw or folded. *)
LogTyped ==
  /\ clock \in Nat
  /\ log \in Seq([time : Nat, term : Terms, zero : BOOLEAN])
  /\ \A i \in DOMAIN log : log[i].time <= clock
  /\ raw \subseteq DOMAIN log
  /\ roller \in [Rollers -> {NotRolling} \cup [at : {"rolling"}, cutoff : Nat, chunks : Nat]]

(* The cutoff of a run is never ahead of the one of now. *)
CutoffsPast == \A p \in Rollers : roller[p].at = "rolling" => roller[p].cutoff <= Cutoff

(* The folded rows are the summary of the searches that are not raw. *)
FoldedIsSummary == daily = Grouped(DOMAIN log \ raw)

RecentIsRaw == \A i \in DOMAIN log : log[i].time >= Cutoff => i \in raw

RollupInv == LogTyped /\ CutoffsPast /\ FoldedIsSummary /\ RecentIsRaw

LEMMA TimesAreNatural ==
  ASSUME LogTyped
  PROVE  \A i \in DOMAIN log : log[i].time \in Nat
<1>1. PICK q \in Seq([time : Nat, term : Terms, zero : BOOLEAN]) : q = log
  BY DEF LogTyped
<1>2. \A i \in DOMAIN q : q[i] \in [time : Nat, term : Terms, zero : BOOLEAN]
  <2>1. DOMAIN q = 1..Len(q)
    OBVIOUS
  <2> QED
    BY <2>1, ElementOfSeq
<1> QED
  BY <1>1, <1>2

(* The log is finite and its times are natural. *)
LEMMA LogIsTimed ==
  ASSUME LogTyped, NEW R \in SUBSET (DOMAIN log)
  PROVE  Timed(R)
<1>1. DOMAIN log = 1..Len(log) /\ Len(log) \in Nat
  BY DEF LogTyped
<1>2. IsFiniteSet(1..Len(log))
  BY <1>1, FS_Interval
<1>3. IsFiniteSet(R)
  BY <1>1, <1>2, FS_Subset
<1>4. \A i \in DOMAIN log : log[i].time \in Nat
  BY TimesAreNatural
<1> QED
  BY <1>3, <1>4 DEF Timed

LEMMA CutoffIsNatural ==
  ASSUME clock \in Nat
  PROVE  Cutoff \in Nat
  BY QueryLogAssumption DEF Cutoff

(* A search is appended: what was folded is summarised as before. *)
LEMMA LogQueryKeeps ==
  ASSUME RollupInv, NEW t \in Terms, NEW z \in BOOLEAN, LogQuery(t, z)
  PROVE  RollupInv'
<1> DEFINE e == [time |-> clock, term |-> t, zero |-> z]
           n == Len(log) + 1
<1>0. LogTyped /\ CutoffsPast /\ FoldedIsSummary /\ RecentIsRaw
  BY DEF RollupInv
<1>1. e \in [time : Nat, term : Terms, zero : BOOLEAN]
  BY <1>0 DEF LogTyped
<1>2. /\ Len(log) \in Nat /\ DOMAIN log = 1..Len(log)
      /\ log' = Append(log, e) /\ raw' = raw \cup {n}
      /\ clock' = clock /\ daily' = daily /\ roller' = roller
  BY <1>0 DEF LogTyped, LogQuery
<1>3. log' \in Seq([time : Nat, term : Terms, zero : BOOLEAN])
  <2> HIDE DEF e
  <2> QED
    BY <1>0, <1>1, <1>2 DEF LogTyped
<1>4. /\ DOMAIN log' = DOMAIN log \cup {n} /\ n \notin DOMAIN log
      /\ (\A i \in DOMAIN log : log'[i] = log[i]) /\ log'[n] = e
  <2> HIDE DEF e
  <2> QED
    BY <1>0, <1>1, <1>2 DEF LogTyped
<1>5. e.time = clock
  OBVIOUS
<1> HIDE DEF e, n
<1>6. LogTyped'
  <2>1. \A i \in DOMAIN log' : log'[i].time <= clock
    BY <1>0, <1>4, <1>5 DEF LogTyped
  <2> QED
    BY <1>0, <1>2, <1>3, <1>4, <2>1 DEF LogTyped
<1>7. CutoffsPast' /\ Cutoff' = Cutoff
  BY <1>0, <1>2 DEF CutoffsPast, Cutoff
<1>8. RecentIsRaw'
  BY <1>0, <1>2, <1>4, <1>7 DEF RecentIsRaw
<1>9. FoldedIsSummary'
  <2>1. PICK A \in SUBSET (DOMAIN log) : A = DOMAIN log \ raw
    OBVIOUS
  <2>2. DOMAIN log' \ raw' = A
    BY <1>0, <1>2, <1>4, <2>1 DEF LogTyped
  <2>3. Grouped(A)' = Grouped(A)
    <3>1. \A i \in A : log'[i] = log[i]
      BY <1>4
    <3>2. \A i \in A : GroupOf(A, i)' = GroupOf(A, i)
      BY <3>1 DEF GroupOf
    <3>3. \A i \in A : GroupOf(A, i) \subseteq A
      BY DEF GroupOf
    <3>4. \A S \in SUBSET A : Times(S)' = Times(S) /\ Zeros(S)' = Zeros(S)
      BY <3>1 DEF Times, Zeros
    <3>5. ASSUME NEW i \in A
          PROVE  RowOf(A, i)' = RowOf(A, i)
      <4>1. PICK S \in SUBSET A : S = GroupOf(A, i) /\ S = GroupOf(A, i)'
        BY <3>2, <3>3
      <4>2. /\ Times(GroupOf(A, i))' = Times(GroupOf(A, i))
            /\ Zeros(GroupOf(A, i))' = Zeros(GroupOf(A, i))
        BY <3>4, <4>1
      <4> QED
        BY <3>1, <4>1, <4>2 DEF RowOf
    <3>6. Grouped(A) = {RowOf(A, i) : i \in A} /\ Grouped(A)' = {RowOf(A, i)' : i \in A}
      BY GroupedRows DEF Grouped, RowOf, GroupOf, Zeros
    <3> QED
      BY <3>5, <3>6
  <2> QED
    BY <1>0, <1>2, <2>1, <2>2, <2>3 DEF FoldedIsSummary
<1> QED
  BY <1>6, <1>7, <1>8, <1>9 DEF RollupInv

(* A chunk of old rows moves from the raw ones to the summary. *)
LEMMA RollupChunkKeeps ==
  ASSUME RollupInv, NEW p \in Rollers, RollupChunk(p)
  PROVE  RollupInv'
<1>0. LogTyped /\ CutoffsPast /\ FoldedIsSummary /\ RecentIsRaw
  BY DEF RollupInv
<1>1. PICK B : B = Chunk(roller[p].cutoff)
  OBVIOUS
<1>2. /\ daily' = Fold(daily, B) /\ raw' = raw \ B
      /\ clock' = clock /\ log' = log /\ roller[p].at = "rolling"
  BY <1>1 DEF RollupChunk
<1>3. B \subseteq raw /\ \A i \in B : log[i].time < roller[p].cutoff
  BY <1>1 DEF Chunk
<1>4. /\ roller' \in [Rollers -> {NotRolling} \cup [at : {"rolling"}, cutoff : Nat, chunks : Nat]]
      /\ \A q \in Rollers : roller'[q].at = "rolling" =>
           roller[q].at = "rolling" /\ roller'[q].cutoff = roller[q].cutoff
  <2>1. roller[p] \in [at : {"rolling"}, cutoff : Nat, chunks : Nat]
    BY <1>0, <1>2 DEF LogTyped, NotRolling
  <2>2. PICK r \in [at : {"rolling"}, cutoff : Nat, chunks : Nat] :
          r = Rolling(roller[p].cutoff, roller[p].chunks + 1) /\ r.cutoff = roller[p].cutoff
    <3>1. roller[p].cutoff \in Nat /\ roller[p].chunks + 1 \in Nat
      BY <2>1
    <3>2. PICK r : r = Rolling(roller[p].cutoff, roller[p].chunks + 1)
      OBVIOUS
    <3>3. r \in [at : {"rolling"}, cutoff : Nat, chunks : Nat] /\ r.cutoff = roller[p].cutoff
      BY <3>1, <3>2 DEF Rolling
    <3> QED
      BY <3>2, <3>3
  <2>3. PICK next \in {NotRolling} \cup [at : {"rolling"}, cutoff : Nat, chunks : Nat] :
          /\ roller' = [roller EXCEPT ![p] = next]
          /\ next.at = "rolling" => next.cutoff = roller[p].cutoff
    <3>1. NotRolling.at # "rolling"
      BY DEF NotRolling
    <3>2. roller' = [roller EXCEPT ![p] = NotRolling] \/ roller' = [roller EXCEPT ![p] = r]
      BY <2>2 DEF RollupChunk
    <3> QED
      BY <2>2, <3>1, <3>2
  <2> QED
    BY <1>0, <1>2, <2>3 DEF LogTyped
<1>5. LogTyped'
  BY <1>0, <1>2, <1>4 DEF LogTyped
<1>6. CutoffsPast' /\ Cutoff' = Cutoff
  BY <1>0, <1>2, <1>4 DEF CutoffsPast, Cutoff
<1>7. RecentIsRaw'
  <2> SUFFICES ASSUME NEW i \in DOMAIN log, log[i].time >= Cutoff
               PROVE  i \in raw \ B
    BY <1>2, <1>6 DEF RecentIsRaw
  <2>1. log[i].time \in Nat
    BY <1>0, TimesAreNatural
  <2>2. Cutoff \in Nat /\ roller[p].cutoff \in Nat /\ roller[p].cutoff <= Cutoff
    BY <1>0, <1>2, CutoffIsNatural DEF LogTyped, CutoffsPast, NotRolling
  <2>3. i \notin B
    BY <1>3, <2>1, <2>2
  <2> QED
    BY <1>0, <2>3 DEF RecentIsRaw
<1>8. FoldedIsSummary'
  <2>1. PICK A \in SUBSET (DOMAIN log) : A = DOMAIN log \ raw
    OBVIOUS
  <2>2. A \cap B = {} /\ A \cup B = DOMAIN log \ (raw \ B) /\ B \in SUBSET (DOMAIN log)
    BY <1>0, <1>3, <2>1 DEF LogTyped
  <2>3. Timed(A) /\ Timed(B)
    BY <1>0, <2>2, LogIsTimed
  <2>4. Fold(daily, B) = Grouped(A \cup B)
    BY <1>0, <2>1, <2>2, <2>3, FoldGroups DEF FoldedIsSummary
  <2>5. PICK C : C = A \cup B
    OBVIOUS
  <2>6. Grouped(C)' = Grouped(C)
    BY <1>2 DEF Grouped, Times
  <2> QED
    BY <1>2, <2>2, <2>4, <2>5, <2>6 DEF FoldedIsSummary
<1> QED
  BY <1>5, <1>6, <1>7, <1>8 DEF RollupInv

(* Starting, ending or dying changes no row; time moves the cutoff on. *)
LEMMA RollersKeep ==
  ASSUME RollupInv, NEW p \in Rollers, RollupStarts(p) \/ RollupEnds(p) \/ RollerDies(p)
  PROVE  RollupInv'
<1>0. LogTyped /\ CutoffsPast /\ FoldedIsSummary /\ RecentIsRaw
  BY DEF RollupInv
<1>1. clock' = clock /\ log' = log /\ raw' = raw /\ daily' = daily
  BY DEF RollupStarts, RollupEnds, RollerDies
<1>2. Cutoff \in Nat /\ Cutoff' = Cutoff
  BY <1>0, <1>1, CutoffIsNatural DEF LogTyped, Cutoff
<1>3. PICK next \in {NotRolling} \cup [at : {"rolling"}, cutoff : Nat, chunks : Nat] :
        /\ roller' = [roller EXCEPT ![p] = next]
        /\ next.at = "rolling" => next.cutoff = Cutoff
  <2>1. NotRolling.at # "rolling"
    BY DEF NotRolling
  <2>2. Rolling(Cutoff, 0) \in [at : {"rolling"}, cutoff : Nat, chunks : Nat]
        /\ Rolling(Cutoff, 0).cutoff = Cutoff
    BY <1>2 DEF Rolling
  <2>3. roller' = [roller EXCEPT ![p] = NotRolling] \/ roller' = [roller EXCEPT ![p] = Rolling(Cutoff, 0)]
    BY DEF RollupStarts, RollupEnds, RollerDies
  <2> QED
    BY <2>1, <2>2, <2>3
<1>4. LogTyped'
  BY <1>0, <1>1, <1>3 DEF LogTyped
<1>5. CutoffsPast'
  <2> SUFFICES ASSUME NEW q \in Rollers, roller'[q].at = "rolling"
               PROVE  roller'[q].cutoff <= Cutoff
    BY <1>2 DEF CutoffsPast
  <2>1. CASE q = p
    BY <1>0, <1>2, <1>3, <2>1 DEF LogTyped
  <2>2. CASE q # p
    BY <1>0, <1>3, <2>2 DEF LogTyped, CutoffsPast
  <2> QED
    BY <2>1, <2>2
<1>6. FoldedIsSummary' /\ RecentIsRaw'
  BY <1>0, <1>1, <1>2 DEF FoldedIsSummary, RecentIsRaw, Grouped, Times
<1> QED
  BY <1>4, <1>5, <1>6 DEF RollupInv

LEMMA ClockTicksKeeps ==
  ASSUME RollupInv, ClockTicks
  PROVE  RollupInv'
<1>0. LogTyped /\ CutoffsPast /\ FoldedIsSummary /\ RecentIsRaw
  BY DEF RollupInv
<1>1. clock' = clock + 1 /\ log' = log /\ raw' = raw /\ daily' = daily /\ roller' = roller
  BY DEF ClockTicks
<1>2. Cutoff \in Nat /\ Cutoff' \in Nat /\ Cutoff <= Cutoff'
  BY <1>0, <1>1, QueryLogAssumption DEF LogTyped, Cutoff
<1>3. \A i \in DOMAIN log : log[i].time \in Nat
  BY <1>0, TimesAreNatural
<1>4. LogTyped'
  BY <1>0, <1>1, <1>3 DEF LogTyped
<1>5. CutoffsPast'
  <2>1. \A q \in Rollers : roller[q].at = "rolling" => roller[q].cutoff \in Nat
    BY <1>0 DEF LogTyped, NotRolling
  <2> QED
    BY <1>0, <1>1, <1>2, <2>1 DEF CutoffsPast
<1>6. FoldedIsSummary'
  BY <1>0, <1>1 DEF FoldedIsSummary, Grouped, Times
<1>7. RecentIsRaw'
  BY <1>0, <1>1, <1>2, <1>3 DEF RecentIsRaw
<1> QED
  BY <1>4, <1>5, <1>6, <1>7 DEF RollupInv

(* With every folded row summarised once, the report is that of the log. *)
LEMMA SummaryReports ==
  ASSUME RollupInv
  PROVE  SummaryIsExact
<1>0. LogTyped /\ FoldedIsSummary /\ RecentIsRaw
  BY DEF RollupInv
<1>1. PICK A \in SUBSET (DOMAIN log) : A = DOMAIN log \ raw
  OBVIOUS
<1>2. raw \in SUBSET (DOMAIN log) /\ A \cap raw = {} /\ A \cup raw = DOMAIN log
  BY <1>0, <1>1 DEF LogTyped
<1>3. Timed(A) /\ Timed(raw)
  BY <1>0, <1>2, LogIsTimed
<1>4. daily = Grouped(A)
  BY <1>0, <1>1 DEF FoldedIsSummary
<1>5. Grouped(DOMAIN log) = Fold(daily, raw)
  BY <1>2, <1>3, <1>4, FoldGroups
<1>6. Cardinality(raw) + SumFunctionOnSet([d \in daily |-> d.count], daily) = Len(log)
  <2>1. SumFunctionOnSet([d \in daily |-> d.count], daily) = Cardinality(A)
    BY <1>3, <1>4, CountsOfGroups
  <2>2. Cardinality(A) \in Nat /\ Cardinality(raw) \in Nat
    BY <1>3, FS_CardinalityType DEF Timed
  <2>3. Cardinality(A \cup raw) = Cardinality(A) + Cardinality(raw) - Cardinality(A \cap raw)
    BY <1>3, FS_Union DEF Timed
  <2>4. Cardinality(A \cap raw) = 0
    BY <1>2, FS_EmptySet
  <2>5. DOMAIN log = 1..Len(log) /\ Len(log) \in Nat
    BY <1>0 DEF LogTyped
  <2>6. Cardinality(1..Len(log)) = Len(log)
    BY SMTT(30), <2>5, FS_Interval
  <2>7. Cardinality(A \cup raw) = Len(log)
    BY <1>2, <2>5, <2>6
  <2> QED
    BY <2>1, <2>2, <2>3, <2>4, <2>7
<1>7. {Day(log[i].time) : i \in raw} \cup {d.day : d \in daily} = {Day(log[i].time) : i \in DOMAIN log}
  <2>1. {d.day : d \in daily} = {Day(log[i].time) : i \in A}
    BY <1>4, DaysOfGroups
  <2> QED
    BY <1>2, <2>1
<1>8. /\ Earliest(Times(raw) \cup {d.first : d \in daily}) = Earliest(Times(DOMAIN log))
      /\ Latest(Times(raw) \cup {d.last : d \in daily}) = Latest(Times(DOMAIN log))
  BY <1>2, <1>3, <1>4, EndsOfGroups
<1>9. AllTime = AllTimeOfLog
  BY <1>6, <1>7, <1>8 DEF AllTime, AllTimeOfLog
<1> QED
  BY <1>0, <1>5, <1>9 DEF SummaryIsExact, RecentIsRaw

LEMMA RollupInitInv == ASSUME QLInit PROVE RollupInv
<1>1. LogTyped /\ CutoffsPast /\ RecentIsRaw
  BY DEF QLInit, LogTyped, CutoffsPast, RecentIsRaw, NotRolling
<1>2. DOMAIN log \ raw = {}
  BY DEF QLInit
<1>3. Grouped({}) = {}
  BY GroupedRows
<1> QED
  BY <1>1, <1>2, <1>3 DEF QLInit, RollupInv, FoldedIsSummary

LEMMA RollupNextInv == ASSUME RollupInv, [QLNext]_qlVars PROVE RollupInv'
<1>1. CASE UNCHANGED qlVars
  BY <1>1 DEF RollupInv, qlVars, LogTyped, CutoffsPast, FoldedIsSummary, RecentIsRaw, Cutoff,
              Grouped, Times
<1>2. CASE QLNext
  BY <1>2, LogQueryKeeps, RollupChunkKeeps, RollersKeep, ClockTicksKeeps DEF QLNext
<1> QED
  BY <1>1, <1>2

(* However the log is folded, by either process, in whatever chunks and with a
   crash between any two of them, reports over raw and folded rows are those of
   the whole log, and nothing recent is folded. *)
THEOREM SummariesAreExact == QLSpec => []SummaryIsExact
<1>1. QLInit => RollupInv
  BY RollupInitInv
<1>2. RollupInv /\ [QLNext]_qlVars => RollupInv'
  BY RollupNextInv
<1> QED
  BY <1>1, <1>2, SummaryReports, PTL DEF QLSpec

----------------------------------------------------------------------------
(* How far the log and its rollers can go *)

RollupBounds ==
  /\ clock <= MaxClock /\ Len(log) <= MaxRows
  /\ \A p \in Rollers : roller[p].at = "rolling" => roller[p].chunks < MaxChunks

LEMMA RollupBoundsInit == ASSUME QLInit PROVE RollupBounds
<1>1. clock = 0 /\ Len(log) = 0 /\ \A p \in Rollers : roller[p].at = "idle"
  BY DEF QLInit, NotRolling
<1> QED
  BY <1>1, QueryLogAssumption DEF RollupBounds

LEMMA RollupBoundsNext ==
  ASSUME RollupInv, RollupBounds, [QLNext]_qlVars
  PROVE  RollupBounds'
<1>0. LogTyped /\ MaxChunks \in Nat \ {0}
  BY QueryLogAssumption DEF RollupInv
<1>1. CASE UNCHANGED qlVars
  BY <1>1 DEF RollupBounds, qlVars
<1>2. ASSUME NEW t \in Terms, NEW z \in BOOLEAN, LogQuery(t, z)
      PROVE  RollupBounds'
  <2>1. Len(log') = Len(log) + 1 /\ Len(log) < MaxRows /\ Len(log) \in Nat
    BY <1>0, <1>2 DEF LogQuery, LogTyped
  <2>2. Len(log') <= MaxRows
    BY <2>1, QueryLogAssumption
  <2> QED
    BY <1>2, <2>2 DEF RollupBounds, LogQuery
<1>3. ASSUME NEW p \in Rollers, RollupStarts(p) \/ RollupChunk(p) \/ RollupEnds(p) \/ RollerDies(p)
      PROVE  RollupBounds'
  <2>1. clock' = clock /\ log' = log
    BY <1>3 DEF RollupStarts, RollupChunk, RollupEnds, RollerDies
  <2>2. roller \in [Rollers -> {NotRolling} \cup [at : {"rolling"}, cutoff : Nat, chunks : Nat]]
    BY <1>0 DEF LogTyped
  <2>3. \E r : roller' = [roller EXCEPT ![p] = r] /\ (r.at = "rolling" => r.chunks < MaxChunks)
    <3>1. CASE RollupStarts(p)
      <4>1. Rolling(Cutoff, 0).chunks < MaxChunks
        BY <1>0 DEF Rolling
      <4> QED
        BY <3>1, <4>1 DEF RollupStarts
    <3>2. CASE RollupChunk(p)
      <4>1. NotRolling.at # "rolling"
        BY DEF NotRolling
      <4>2. CASE p = "script" \/ roller[p].chunks + 1 = MaxChunks
        BY <3>2, <4>1, <4>2 DEF RollupChunk
      <4>3. CASE ~(p = "script" \/ roller[p].chunks + 1 = MaxChunks)
        <5>1. roller[p].at = "rolling"
          BY <3>2 DEF RollupChunk
        <5>2. roller[p].chunks \in Nat /\ roller[p].chunks < MaxChunks
          BY <2>2, <5>1 DEF RollupBounds, NotRolling
        <5>3. roller[p].chunks + 1 < MaxChunks
          BY <1>0, <4>3, <5>2
        <5>4. PICK r : r = Rolling(roller[p].cutoff, roller[p].chunks + 1)
          OBVIOUS
        <5>5. roller' = [roller EXCEPT ![p] = r]
          BY <3>2, <4>3, <5>4 DEF RollupChunk
        <5>6. r.chunks < MaxChunks
          BY <5>3, <5>4 DEF Rolling
        <5> QED
          BY <5>5, <5>6
      <4> QED
        BY <4>2, <4>3
    <3>3. CASE RollupEnds(p) \/ RollerDies(p)
      <4>1. roller' = [roller EXCEPT ![p] = NotRolling]
        BY <3>3 DEF RollupEnds, RollerDies
      <4>2. NotRolling.at # "rolling"
        BY DEF NotRolling
      <4> QED
        BY <4>1, <4>2
    <3> QED
      BY <1>3, <3>1, <3>2, <3>3
  <2> QED
    BY <2>1, <2>2, <2>3 DEF RollupBounds
<1>4. CASE ClockTicks
  <2>1. clock \in Nat /\ clock < MaxClock /\ clock' = clock + 1
    BY <1>0, <1>4 DEF ClockTicks, LogTyped
  <2>2. clock' <= MaxClock
    BY <2>1, QueryLogAssumption
  <2> QED
    BY <1>4, <2>2 DEF ClockTicks, RollupBounds
<1> QED
  BY <1>1, <1>2, <1>3, <1>4 DEF QLNext

(* A row of the summary counts some of the searches, and its times are theirs. *)
LEMMA SummaryRowTyped ==
  ASSUME RollupInv, RollupBounds, NEW A \in SUBSET (DOMAIN log), NEW i \in A
  PROVE  RowOf(A, i) \in [day : 0..Day(MaxClock), term : Terms, count : 1..MaxRows,
                          zeros : 0..MaxRows, first : 0..MaxClock, last : 0..MaxClock]
<1>0. LogTyped
  BY DEF RollupInv
<1>1. DOMAIN log = 1..Len(log) /\ Len(log) \in Nat /\ Len(log) <= MaxRows
  BY <1>0 DEF LogTyped, RollupBounds
<1>2. \A j \in DOMAIN log : log[j].time \in 0..MaxClock /\ log[j].term \in Terms
  <2>1. \A j \in DOMAIN log : log[j].time \in Nat /\ log[j].time <= clock /\ log[j] \in [time : Nat, term : Terms, zero : BOOLEAN]
    BY <1>0, <1>1, TimesAreNatural, ElementOfSeq DEF LogTyped
  <2>2. clock \in Nat /\ clock <= MaxClock /\ MaxClock \in Nat
    BY <1>0, QueryLogAssumption DEF LogTyped, RollupBounds
  <2> QED
    BY <2>1, <2>2
<1>3. PICK S \in SUBSET A : S = GroupOf(A, i)
  BY DEF GroupOf
<1>4. i \in S /\ S \in SUBSET (1..Len(log)) /\ Timed(S) /\ Zeros(S) \in SUBSET S
  BY <1>0, <1>1, <1>3, LogIsTimed DEF GroupOf, Zeros
<1>5. IsFiniteSet(1..Len(log)) /\ Cardinality(1..Len(log)) = Len(log)
  <2>1. PICK n \in Nat : n = Len(log)
    BY <1>1
  <2>2. IsFiniteSet(1..n) /\ Cardinality(1..n) = n
    <3>1. IsFiniteSet(1..n) /\ Cardinality(1..n) = IF 1 > n THEN 0 ELSE n - 1 + 1
      BY FS_Interval
    <3> QED
      BY <3>1
  <2> QED
    BY <2>1, <2>2
<1>6. /\ IsFiniteSet(S) /\ Cardinality(S) \in Nat /\ Cardinality(S) <= Len(log) /\ Cardinality(S) # 0
      /\ Cardinality(Zeros(S)) \in Nat /\ Cardinality(Zeros(S)) <= Cardinality(S)
  BY <1>4, <1>5, FS_Subset, FS_CardinalityType, FS_EmptySet
<1>7. Cardinality(S) \in 1..MaxRows /\ Cardinality(Zeros(S)) \in 0..MaxRows
  BY <1>1, <1>6, QueryLogAssumption
<1>8. PICK T : T = Times(S)
  OBVIOUS
<1>9. T \in SUBSET Nat /\ IsFiniteSet(T) /\ T # {}
  BY <1>4, <1>8, TimesOfRows
<1>10. PICK a \in T : \A y \in T : a <= y
  BY <1>9, LeastNatural
<1>11. PICK b \in T : \A y \in T : b >= y
  BY <1>9, GreatestExists
<1>12. Min(T) = a /\ Max(T) = b
  BY <1>9, <1>10, <1>11, MinOfNaturals, MaxOfNaturals
<1>13. a \in 0..MaxClock /\ b \in 0..MaxClock
  BY <1>2, <1>8, <1>10, <1>11 DEF Times
<1>14. Day(log[i].time) \in 0..Day(MaxClock)
  <2>1. PICK t \in 0..MaxClock : t = log[i].time
    BY <1>2
  <2>2. t \div DayTicks \in Nat /\ t \div DayTicks <= MaxClock \div DayTicks /\ MaxClock \div DayTicks \in Nat
    BY QueryLogAssumption
  <2> QED
    BY <2>1, <2>2 DEF Day
<1>15. log[i].term \in Terms
  BY <1>2
<1> QED
  BY <1>3, <1>7, <1>8, <1>12, <1>13, <1>14, <1>15 DEF RowOf

LEMMA RollupTypes == ASSUME RollupInv, RollupBounds PROVE QLTypeOK
<1>0. LogTyped /\ FoldedIsSummary /\ CutoffsPast
  BY DEF RollupInv
<1>1. clock \in 0..MaxClock /\ raw \subseteq 1..Len(log) /\ Len(log) <= MaxRows
  BY <1>0, QueryLogAssumption DEF LogTyped, RollupBounds
<1>2. log \in Seq([time : 0..MaxClock, term : Terms, zero : BOOLEAN])
  <2>. DEFINE Old == [time : Nat, term : Terms, zero : BOOLEAN]
              New == [time : 0..MaxClock, term : Terms, zero : BOOLEAN]
  <2>1. log \in Seq(Old) /\ DOMAIN log = 1..Len(log)
    BY <1>0 DEF LogTyped
  <2>2. \A i \in 1..Len(log) : log[i] \in Old
    BY <2>1, ElementOfSeq
  <2>3. \A i \in 1..Len(log) : log[i].time \in 0..MaxClock
    <3>1. \A i \in 1..Len(log) : log[i].time \in Nat /\ log[i].time <= clock
      BY <1>0, <2>1, TimesAreNatural DEF LogTyped
    <3>2. clock \in Nat /\ clock <= MaxClock /\ MaxClock \in Nat
      BY <1>1, QueryLogAssumption
    <3> QED
      BY <3>1, <3>2
  <2>4. \A i \in 1..Len(log) : log[i] \in New
    BY <2>2, <2>3
  <2>. HIDE DEF Old, New
  <2>5. \A q \in Seq(Old) : (\A i \in 1..Len(q) : q[i] \in New) => q \in Seq(New)
    OBVIOUS
  <2> QED
    BY <2>1, <2>4, <2>5 DEF New
<1>3. PICK A \in SUBSET (DOMAIN log) : A = DOMAIN log \ raw /\ daily = {RowOf(A, i) : i \in A}
  BY <1>0, GroupedRows DEF FoldedIsSummary
<1>4. daily \subseteq [day : 0..Day(MaxClock), term : Terms, count : 1..MaxRows,
                       zeros : 0..MaxRows, first : 0..MaxClock, last : 0..MaxClock]
  BY <1>3, SummaryRowTyped
<1>5. \A d, e \in daily : d.day = e.day /\ d.term = e.term => d = e
  <2> SUFFICES ASSUME NEW i \in A, NEW j \in A,
                      RowOf(A, i).day = RowOf(A, j).day, RowOf(A, i).term = RowOf(A, j).term
               PROVE  RowOf(A, i) = RowOf(A, j)
    BY <1>3
  <2>1. Day(log[i].time) = Day(log[j].time) /\ log[i].term = log[j].term
    BY DEF RowOf
  <2>2. GroupOf(A, i) = GroupOf(A, j)
    BY <2>1 DEF GroupOf
  <2> QED
    BY <2>1, <2>2 DEF RowOf
<1>6. roller \in [Rollers -> {NotRolling} \cup [at : {"rolling"}, cutoff : 0..MaxClock, chunks : 0..(MaxChunks - 1)]]
  <2>1. roller \in [Rollers -> {NotRolling} \cup [at : {"rolling"}, cutoff : Nat, chunks : Nat]]
    BY <1>0 DEF LogTyped
  <2>2. Cutoff <= MaxClock
    BY <1>1, QueryLogAssumption DEF Cutoff
  <2>3. \A p \in Rollers : roller[p].at = "rolling" => roller[p].cutoff <= Cutoff /\ roller[p].chunks < MaxChunks
    BY <1>0 DEF CutoffsPast, RollupBounds
  <2>4. Cutoff \in Nat /\ MaxClock \in Nat /\ MaxChunks \in Nat
    BY <1>1, CutoffIsNatural, QueryLogAssumption
  <2>5. ASSUME NEW p \in Rollers, roller[p] # NotRolling
        PROVE  roller[p] \in [at : {"rolling"}, cutoff : 0..MaxClock, chunks : 0..(MaxChunks - 1)]
    <3>1. PICK r \in [at : {"rolling"}, cutoff : Nat, chunks : Nat] : r = roller[p]
      BY <2>1, <2>5
    <3>2. r.cutoff <= Cutoff /\ r.chunks < MaxChunks /\ r.cutoff \in Nat /\ r.chunks \in Nat
      BY <2>3, <3>1
    <3>3. r.cutoff \in 0..MaxClock /\ r.chunks \in 0..(MaxChunks - 1)
      BY <2>2, <2>4, <3>2
    <3> QED
      BY <3>1, <3>3
  <2> QED
    BY <2>1, <2>5
<1> QED
  BY <1>1, <1>2, <1>4, <1>5, <1>6 DEF QLTypeOK

----------------------------------------------------------------------------
(***************************************************************************)
(* The migrations of a boot                                                *)
(***************************************************************************)
(* How far the boot has come. *)
ToSource == {"source"}
ToChecks == ToSource \cup {"checks"}
ToHostname == ToChecks \cup {"hostname"}
ToFillHostname == ToHostname \cup {"fillHostname"}
ToFormat == ToFillHostname \cup {"l402_format"}
ToFillFormat == ToFormat \cup {"fillFormat"}
ToLnget == ToFillFormat \cup {"lnget_compatible"}
ToMpp == ToLnget \cup {"fillLnget", "mppProbe", "mppRebuild"}
Hashing == {"hashedCol", "hashedClear", "hash", "serving"}

(* What is done stays done, by the place the boot has reached. *)
ServicesStand ==
  /\ OldRows \subseteq services.rows
  /\ pc \notin ToSource => ~services.sourceCheck
  /\ pc \notin ToHostname => "hostname" \in services.cols
  /\ pc \notin ToFillHostname => OldRows \subseteq services.filled["hostname"]
  /\ pc \notin ToFormat => "l402_format" \in services.cols
  /\ pc \notin ToFillFormat => OldRows \subseteq services.filled["l402_format"]
  /\ pc \notin ToLnget => "lnget_compatible" \in services.cols
  /\ pc \notin ToMpp => services.mpp

ChecksStand == pc \notin ToChecks => checks.full

(* A token is hashed when its flag is set, and the column is there before. *)
HashesStand ==
  /\ \A c \in OldClaims : claims.hashes[c] \in {0, 1} /\ (claims.hashes[c] = 1 => claims.flag[c])
  /\ ~claims.hashedCol \/ pc = "hashedClear" => \A c \in OldClaims : claims.hashes[c] = 0
  /\ pc \in {"hashedClear", "hash", "serving"} => claims.hashedCol
  /\ pc = "serving" => \A c \in claims.rows : claims.flag[c]

(* What holds besides while no boot was cut short. *)
UncutServices ==
  cuts = 0 =>
    /\ pc # "mppUnprobe" => MppTest \notin services.rows
    /\ pc # "fillLnget" /\ "lnget_compatible" \in services.cols => OldRows \subseteq services.filled["lnget_compatible"]

UncutClaims ==
  cuts = 0 =>
    /\ claims.copy = "none" \/ pc \in {"claimsFill", "claimsDrop", "claimsRename"}
    /\ pc \in Hashing => claims.table = "new"
    /\ claims.hashedCol /\ pc # "hashedClear" =>
         \A c \in claims.rows : claims.flag[c] => claims.hashes[c] = 1

MGInv ==
  /\ MGTypeOK
  /\ ServicesStand /\ UncutServices /\ ChecksStand
  /\ HashesStand /\ UncutClaims
ServiceRecords ==
  [sourceCheck : BOOLEAN, mpp : BOOLEAN, cols : SUBSET Cols,
   rows : SUBSET (OldRows \cup {MppTest}), filled : [Cols -> SUBSET OldRows]]
ClaimRecords ==
  [table : {"none", "old", "new"}, rows : SUBSET OldClaims,
   copy : {"none", "empty", "full"}, hashedCol : BOOLEAN,
   flag : [OldClaims -> BOOLEAN], hashes : [OldClaims -> Nat]]

LEMMA Positions ==
  /\ DOMAIN Boot = 1..21
  /\ Boot[1] = "source" /\ Boot[2] = "checks" /\ Boot[3] = "hostname" /\ Boot[4] = "fillHostname"
  /\ Boot[5] = "l402_format" /\ Boot[6] = "fillFormat" /\ Boot[7] = "lnget_compatible" /\ Boot[8] = "fillLnget"
  /\ Boot[9] = "mppProbe" /\ Boot[10] = "mppUnprobe" /\ Boot[11] = "mppRebuild" /\ Boot[12] = "claims"
  /\ Boot[13] = "claimsProbe" /\ Boot[14] = "claimsCopy" /\ Boot[15] = "claimsFill" /\ Boot[16] = "claimsDrop"
  /\ Boot[17] = "claimsRename" /\ Boot[18] = "hashedCol" /\ Boot[19] = "hashedClear" /\ Boot[20] = "hash"
  /\ Boot[21] = "serving"
BY DEF Boot

(* No place occurs twice: told by its number. *)
Number(p) ==
  CASE p = "source" -> 1 [] p = "checks" -> 2 [] p = "hostname" -> 3 [] p = "fillHostname" -> 4
    [] p = "l402_format" -> 5 [] p = "fillFormat" -> 6 [] p = "lnget_compatible" -> 7 [] p = "fillLnget" -> 8
    [] p = "mppProbe" -> 9 [] p = "mppUnprobe" -> 10 [] p = "mppRebuild" -> 11 [] p = "claims" -> 12
    [] p = "claimsProbe" -> 13 [] p = "claimsCopy" -> 14 [] p = "claimsFill" -> 15 [] p = "claimsDrop" -> 16
    [] p = "claimsRename" -> 17 [] p = "hashedCol" -> 18 [] p = "hashedClear" -> 19 [] p = "hash" -> 20
    [] p = "serving" -> 21

LEMMA PlacesDiffer == \A i \in 1..21 : Number(Boot[i]) = i
<1>1. \A i \in 1..21 : i = 1 \/ i = 2 \/ i = 3 \/ i = 4 \/ i = 5 \/ i = 6 \/ i = 7 \/ i = 8 \/ i = 9 \/ i = 10 \/ i = 11
                       \/ i = 12 \/ i = 13 \/ i = 14 \/ i = 15 \/ i = 16 \/ i = 17 \/ i = 18 \/ i = 19 \/ i = 20 \/ i = 21
  OBVIOUS
<1>2. /\ Number("source") = 1 /\ Number("checks") = 2 /\ Number("hostname") = 3 /\ Number("fillHostname") = 4
      /\ Number("l402_format") = 5 /\ Number("fillFormat") = 6 /\ Number("lnget_compatible") = 7
      /\ Number("fillLnget") = 8 /\ Number("mppProbe") = 9 /\ Number("mppUnprobe") = 10
      /\ Number("mppRebuild") = 11 /\ Number("claims") = 12 /\ Number("claimsProbe") = 13
      /\ Number("claimsCopy") = 14 /\ Number("claimsFill") = 15 /\ Number("claimsDrop") = 16
      /\ Number("claimsRename") = 17 /\ Number("hashedCol") = 18 /\ Number("hashedClear") = 19
      /\ Number("hash") = 20 /\ Number("serving") = 21
  BY DEF Number
<1>. QED BY <1>1, <1>2, Positions

AllPlaces == {"source", "checks", "hostname", "fillHostname", "l402_format",
  "fillFormat", "lnget_compatible", "fillLnget", "mppProbe", "mppUnprobe",
  "mppRebuild", "claims", "claimsProbe", "claimsCopy", "claimsFill",
  "claimsDrop", "claimsRename", "hashedCol", "hashedClear", "hash", "serving"}

LEMMA PlacesListed == Places = AllPlaces
<1>1. \A i \in 1..21 : i = 1 \/ i = 2 \/ i = 3 \/ i = 4 \/ i = 5 \/ i = 6 \/ i = 7 \/ i = 8 \/ i = 9 \/ i = 10 \/ i = 11
                       \/ i = 12 \/ i = 13 \/ i = 14 \/ i = 15 \/ i = 16 \/ i = 17 \/ i = 18 \/ i = 19 \/ i = 20 \/ i = 21
  OBVIOUS
<1>2. \A i \in 1..21 : Boot[i] \in AllPlaces
  BY <1>1, Positions DEF AllPlaces
<1>3. \A p \in AllPlaces : \E i \in 1..21 : Boot[i] = p
  BY Positions DEF AllPlaces
<1>. QED BY <1>2, <1>3, Positions DEF Places

(* The statement after each statement. *)
LEMMA Follows ==
  /\ At("source") => pc = "source" /\ pc' = "checks"
  /\ At("checks") => pc = "checks" /\ pc' = "hostname"
  /\ At("hostname") => pc = "hostname" /\ pc' = "fillHostname"
  /\ At("fillHostname") => pc = "fillHostname" /\ pc' = "l402_format"
  /\ At("l402_format") => pc = "l402_format" /\ pc' = "fillFormat"
  /\ At("fillFormat") => pc = "fillFormat" /\ pc' = "lnget_compatible"
  /\ At("lnget_compatible") => pc = "lnget_compatible" /\ pc' = "fillLnget"
  /\ At("fillLnget") => pc = "fillLnget" /\ pc' = "mppProbe"
  /\ At("mppProbe") => pc = "mppProbe" /\ pc' = "mppUnprobe"
  /\ At("mppRebuild") => pc = "mppRebuild" /\ pc' = "claims"
  /\ At("claims") => pc = "claims" /\ pc' = "claimsProbe"
  /\ At("claimsProbe") => pc = "claimsProbe" /\ pc' = "claimsCopy"
  /\ At("claimsCopy") => pc = "claimsCopy" /\ pc' = "claimsFill"
  /\ At("claimsFill") => pc = "claimsFill" /\ pc' = "claimsDrop"
  /\ At("claimsDrop") => pc = "claimsDrop" /\ pc' = "claimsRename"
  /\ At("claimsRename") => pc = "claimsRename" /\ pc' = "hashedCol"
  /\ At("hashedCol") => pc = "hashedCol" /\ pc' = "hashedClear"
  /\ At("hashedClear") => pc = "hashedClear" /\ pc' = "hash"
  /\ At("hash") => pc = "hash" /\ pc' = "serving"
<1>1. \A i \in 1..21 : i = 1 \/ i = 2 \/ i = 3 \/ i = 4 \/ i = 5 \/ i = 6 \/ i = 7 \/ i = 8 \/ i = 9 \/ i = 10 \/ i = 11
                       \/ i = 12 \/ i = 13 \/ i = 14 \/ i = 15 \/ i = 16 \/ i = 17 \/ i = 18 \/ i = 19 \/ i = 20 \/ i = 21
  OBVIOUS
<1>2. ASSUME NEW p, At(p), NEW k \in 1..21, Boot[k] = p
      PROVE  pc = p /\ pc' = Boot[k + 1]
  <2>1. PICK i \in 1..21 : Boot[i] = p /\ pc = p /\ pc' = Boot[i + 1]
    BY <1>2, Positions DEF At
  <2>2. i = k
    BY <1>2, <2>1, PlacesDiffer
  <2>. QED BY <2>1, <2>2
<1>3. \A k \in 1..20 : At(Boot[k]) => pc = Boot[k] /\ pc' = Boot[k + 1]
  BY <1>2
<1>. QED BY <1>3, Positions

LEMMA MGParts ==
  MGInv => /\ pc \in AllPlaces /\ services \in ServiceRecords /\ claims \in ClaimRecords
           /\ checks \in [full : BOOLEAN, leftover : BOOLEAN] /\ cuts \in 0..MaxCuts
BY PlacesListed DEF MGInv, MGTypeOK, ServiceRecords, ClaimRecords

LEMMA MGTyped ==
  ASSUME pc \in AllPlaces, services \in ServiceRecords, claims \in ClaimRecords,
         checks \in [full : BOOLEAN, leftover : BOOLEAN], cuts \in 0..MaxCuts
  PROVE  MGTypeOK
BY PlacesListed DEF MGTypeOK, ServiceRecords, ClaimRecords
ServicesPlaces == ToMpp \cup {"mppUnprobe"}
ClaimsPlaces ==
  {"claims", "claimsProbe", "claimsCopy", "claimsFill", "claimsDrop", "claimsRename", "hashedCol", "hashedClear", "hash"}

(* The services table and the claims do not meet in a boot. *)
LEMMA ClaimsKept ==
  ASSUME MGInv, pc \in ServicesPlaces, pc' \in ServicesPlaces \cup {"claims"}, UNCHANGED <<claims, cuts>>
  PROVE  HashesStand' /\ UncutClaims'
BY DEF MGInv, HashesStand, UncutClaims, ServicesPlaces, ToMpp, ToLnget, ToFillFormat, ToFormat, ToFillHostname,
       ToHostname, ToChecks, ToSource, Hashing

LEMMA ServicesKept ==
  ASSUME MGInv, pc \in ClaimsPlaces, pc' \in ClaimsPlaces \cup {"serving"}, UNCHANGED <<services, checks, cuts>>
  PROVE  ServicesStand' /\ UncutServices' /\ ChecksStand'
BY DEF MGInv, ServicesStand, UncutServices, ChecksStand, ClaimsPlaces, ToMpp, ToLnget, ToFillFormat, ToFormat,
       ToFillHostname, ToHostname, ToChecks, ToSource

(* A step within the services table: its record, and what stands of it. *)
LEMMA ServicesStep ==
  ASSUME MGInv, pc \in ServicesPlaces, pc' \in ServicesPlaces \cup {"claims"}, UNCHANGED <<claims, cuts>>,
         services' \in ServiceRecords, checks' \in [full : BOOLEAN, leftover : BOOLEAN],
         ServicesStand', UncutServices', ChecksStand'
  PROVE  MGInv'
<1>1. pc' \in AllPlaces
  BY DEF ServicesPlaces, AllPlaces, ToMpp, ToLnget, ToFillFormat, ToFormat, ToFillHostname, ToHostname, ToChecks, ToSource
<1>2. (pc \in AllPlaces /\ services \in ServiceRecords /\ claims \in ClaimRecords
       /\ checks \in [full : BOOLEAN, leftover : BOOLEAN] /\ cuts \in 0..MaxCuts)'
  BY <1>1, MGParts
<1>3. MGTypeOK'
  BY <1>2, PlacesListed DEF MGTypeOK, ServiceRecords, ClaimRecords
<1>. QED BY <1>3, ClaimsKept DEF MGInv

LEMMA ClaimsStep ==
  ASSUME MGInv, pc \in ClaimsPlaces, pc' \in ClaimsPlaces \cup {"serving"}, UNCHANGED <<services, checks, cuts>>,
         claims' \in ClaimRecords, HashesStand', UncutClaims'
  PROVE  MGInv'
<1>1. pc' \in AllPlaces
  BY DEF ClaimsPlaces, AllPlaces
<1>2. (pc \in AllPlaces /\ services \in ServiceRecords /\ claims \in ClaimRecords
       /\ checks \in [full : BOOLEAN, leftover : BOOLEAN] /\ cuts \in 0..MaxCuts)'
  BY <1>1, MGParts
<1>3. MGTypeOK'
  BY <1>2, PlacesListed DEF MGTypeOK, ServiceRecords, ClaimRecords
<1>. QED BY <1>3, ServicesKept DEF MGInv

LEMMA ColumnAdded ==
  ASSUME services \in ServiceRecords, NEW c \in Cols, AddColumn(c)
  PROVE  /\ services' \in ServiceRecords
         /\ services'.sourceCheck = services.sourceCheck /\ services'.mpp = services.mpp
         /\ services'.rows = services.rows /\ services'.cols = services.cols \cup {c}
         /\ \A d \in Cols : services'.filled[d] = IF d = c THEN {} ELSE services.filled[d]
<1>1. PICK f : f = [services.filled EXCEPT ![c] = {}]
  OBVIOUS
<1>2. services.filled \in [Cols -> SUBSET OldRows] /\ services.cols \subseteq Cols
  BY DEF ServiceRecords
<1>3. f \in [Cols -> SUBSET OldRows] /\ \A d \in Cols : f[d] = IF d = c THEN {} ELSE services.filled[d]
  BY <1>1, <1>2
<1>4. PICK n : n = services.cols \cup {c}
  OBVIOUS
<1>5. services' = [services EXCEPT !.cols = n, !.filled = f]
  BY <1>1, <1>4 DEF AddColumn, ServiceRecords
<1>6. services' = [sourceCheck |-> services.sourceCheck, mpp |-> services.mpp, cols |-> n,
                   rows |-> services.rows, filled |-> f]
  BY <1>5 DEF ServiceRecords
<1>7. n \subseteq Cols
  BY <1>2, <1>4
<1>. QED BY <1>3, <1>4, <1>6, <1>7 DEF ServiceRecords

LEMMA ColumnFilled ==
  ASSUME services \in ServiceRecords, NEW c \in Cols, OldRows \subseteq services.rows, services' = Filled(c)
  PROVE  /\ services' \in ServiceRecords
         /\ services'.sourceCheck = services.sourceCheck /\ services'.mpp = services.mpp
         /\ services'.rows = services.rows /\ services'.cols = services.cols
         /\ \A d \in Cols : services'.filled[d] = IF d = c THEN OldRows ELSE services.filled[d]
<1>1. services.rows \ {MppTest} = OldRows
  BY MigrationsAssumption DEF ServiceRecords
<1>2. PICK f : f = [services.filled EXCEPT ![c] = OldRows]
  OBVIOUS
<1>3. services.filled \in [Cols -> SUBSET OldRows]
  BY DEF ServiceRecords
<1>4. f \in [Cols -> SUBSET OldRows] /\ \A d \in Cols : f[d] = IF d = c THEN OldRows ELSE services.filled[d]
  BY <1>2, <1>3
<1>5. services' = [services EXCEPT !.filled = f]
  BY <1>1, <1>2 DEF Filled, ServiceRecords
<1>6. services' = [sourceCheck |-> services.sourceCheck, mpp |-> services.mpp, cols |-> services.cols,
                   rows |-> services.rows, filled |-> f]
  BY <1>5 DEF ServiceRecords
<1>. QED BY <1>4, <1>6 DEF ServiceRecords

LEMMA ServicesActions ==
  ASSUME MGInv,
         \/ SourceCheck \/ AddHostname \/ FillHostname \/ AddFormat \/ FillFormat
         \/ AddLnget \/ FillLnget \/ MppProbe \/ MppUnprobe \/ MppRebuild \/ ChecksConstraint
  PROVE  MGInv'
<1>. USE DEF ServicesPlaces, ToMpp, ToLnget, ToFillFormat, ToFormat, ToFillHostname, ToHostname, ToChecks, ToSource
<1>0. /\ services \in ServiceRecords /\ checks \in [full : BOOLEAN, leftover : BOOLEAN]
      /\ OldRows \subseteq services.rows
      /\ "hostname" \in Cols /\ "l402_format" \in Cols /\ "lnget_compatible" \in Cols
  BY MGParts DEF MGInv, ServicesStand, Cols
<1>1. CASE SourceCheck
  <2>1. pc = "source" /\ pc' = "checks" /\ UNCHANGED <<checks, claims, cuts>>
        /\ services' = [services EXCEPT !.sourceCheck = FALSE]
    BY <1>1, Follows DEF SourceCheck
  <2>2. /\ services' \in ServiceRecords /\ services'.sourceCheck = FALSE /\ services'.mpp = services.mpp
        /\ services'.rows = services.rows /\ services'.cols = services.cols /\ services'.filled = services.filled
    BY <1>0, <2>1 DEF ServiceRecords
  <2>3. ServicesStand' /\ UncutServices' /\ ChecksStand'
    BY <2>1, <2>2 DEF MGInv, ServicesStand, UncutServices, ChecksStand
  <2>. QED BY <1>0, <2>1, <2>2, <2>3, ServicesStep
<1>2. CASE ChecksConstraint
  <2>1. pc = "checks" /\ pc' = "hostname" /\ UNCHANGED <<services, claims, cuts>>
        /\ checks' = IF checks.full THEN checks ELSE [full |-> TRUE, leftover |-> FALSE]
    BY <1>2, Follows DEF ChecksConstraint
  <2>2. checks' \in [full : BOOLEAN, leftover : BOOLEAN] /\ checks'.full
    BY <1>0, <2>1
  <2>3. ServicesStand' /\ UncutServices' /\ ChecksStand'
    BY <2>1, <2>2 DEF MGInv, ServicesStand, UncutServices, ChecksStand
  <2>. QED BY <1>0, <2>1, <2>2, <2>3, ServicesStep
<1>3. CASE AddHostname
  <2>1. pc = "hostname" /\ pc' = "fillHostname" /\ UNCHANGED <<checks, claims, cuts>>
    BY <1>3, Follows DEF AddHostname, AddColumn, HasColumn
  <2>2. CASE AddColumn("hostname")
    <3>1. services' \in ServiceRecords /\ ServicesStand' /\ UncutServices' /\ ChecksStand'
      BY <1>0, <2>1, <2>2, ColumnAdded DEF MGInv, ServicesStand, UncutServices, ChecksStand
    <3>. QED BY <1>0, <2>1, <3>1, ServicesStep
  <2>3. CASE HasColumn("hostname")
    <3>1. services' = services /\ "hostname" \in services.cols
      BY <2>3 DEF HasColumn
    <3>2. ServicesStand' /\ UncutServices' /\ ChecksStand'
      BY <2>1, <3>1 DEF MGInv, ServicesStand, UncutServices, ChecksStand
    <3>. QED BY <1>0, <2>1, <3>1, <3>2, ServicesStep
  <2>. QED BY <1>3, <2>2, <2>3 DEF AddHostname
<1>4. CASE AddFormat
  <2>1. pc = "l402_format" /\ pc' = "fillFormat" /\ UNCHANGED <<checks, claims, cuts>>
    BY <1>4, Follows DEF AddFormat, AddColumn, HasColumn
  <2>2. CASE AddColumn("l402_format")
    <3>1. services' \in ServiceRecords /\ ServicesStand' /\ UncutServices' /\ ChecksStand'
      BY <1>0, <2>1, <2>2, ColumnAdded DEF MGInv, ServicesStand, UncutServices, ChecksStand
    <3>. QED BY <1>0, <2>1, <3>1, ServicesStep
  <2>3. CASE HasColumn("l402_format")
    <3>1. services' = services /\ "l402_format" \in services.cols
      BY <2>3 DEF HasColumn
    <3>2. ServicesStand' /\ UncutServices' /\ ChecksStand'
      BY <2>1, <3>1 DEF MGInv, ServicesStand, UncutServices, ChecksStand
    <3>. QED BY <1>0, <2>1, <3>1, <3>2, ServicesStep
  <2>. QED BY <1>4, <2>2, <2>3 DEF AddFormat
<1>5. CASE AddLnget
  <2>1. pc = "lnget_compatible" /\ UNCHANGED <<checks, claims, cuts>>
    BY <1>5, Follows DEF AddLnget, AddColumn, HasColumn, Skip
  <2>2. CASE At("lnget_compatible") /\ AddColumn("lnget_compatible")
    <3>1. pc' = "fillLnget"
      BY <2>2, Follows
    <3>2. services' \in ServiceRecords /\ ServicesStand' /\ UncutServices' /\ ChecksStand'
      BY <1>0, <2>1, <2>2, <3>1, ColumnAdded DEF MGInv, ServicesStand, UncutServices, ChecksStand
    <3>. QED BY <1>0, <2>1, <3>1, <3>2, ServicesStep
  <2>3. CASE Skip("lnget_compatible", "mppProbe") /\ HasColumn("lnget_compatible")
    <3>1. services' = services /\ "lnget_compatible" \in services.cols /\ pc' = "mppProbe"
      BY <2>3 DEF HasColumn, Skip
    <3>2. ServicesStand' /\ UncutServices' /\ ChecksStand'
      BY <2>1, <3>1 DEF MGInv, ServicesStand, UncutServices, ChecksStand
    <3>. QED BY <1>0, <2>1, <3>1, <3>2, ServicesStep
  <2>. QED BY <1>5, <2>2, <2>3 DEF AddLnget
<1>6. CASE FillHostname
  <2>1. pc = "fillHostname" /\ pc' = "l402_format" /\ UNCHANGED <<checks, claims, cuts>> /\ services' = Filled("hostname")
    BY <1>6, Follows DEF FillHostname
  <2>2. services' \in ServiceRecords /\ ServicesStand' /\ UncutServices' /\ ChecksStand'
    BY <1>0, <2>1, ColumnFilled DEF MGInv, ServicesStand, UncutServices, ChecksStand
  <2>. QED BY <1>0, <2>1, <2>2, ServicesStep
<1>7. CASE FillFormat
  <2>1. pc = "fillFormat" /\ pc' = "lnget_compatible" /\ UNCHANGED <<checks, claims, cuts>> /\ services' = Filled("l402_format")
    BY <1>7, Follows DEF FillFormat
  <2>2. services' \in ServiceRecords /\ ServicesStand' /\ UncutServices' /\ ChecksStand'
    BY <1>0, <2>1, ColumnFilled DEF MGInv, ServicesStand, UncutServices, ChecksStand
  <2>. QED BY <1>0, <2>1, <2>2, ServicesStep
<1>8. CASE FillLnget
  <2>1. pc = "fillLnget" /\ pc' = "mppProbe" /\ UNCHANGED <<checks, claims, cuts>> /\ services' = Filled("lnget_compatible")
    BY <1>8, Follows DEF FillLnget
  <2>2. services' \in ServiceRecords /\ ServicesStand' /\ UncutServices' /\ ChecksStand'
    BY <1>0, <2>1, ColumnFilled DEF MGInv, ServicesStand, UncutServices, ChecksStand
  <2>. QED BY <1>0, <2>1, <2>2, ServicesStep
<1>9. CASE MppProbe
  <2>1. UNCHANGED <<checks, claims, cuts>>
    BY <1>9 DEF MppProbe
  <2>2. CASE services.mpp /\ MppTest \notin services.rows
    <3>1. pc = "mppProbe" /\ pc' = "mppUnprobe" /\ services' = [services EXCEPT !.rows = @ \cup {MppTest}]
      BY <1>9, <2>2, Follows DEF MppProbe
    <3>2. /\ services' \in ServiceRecords /\ services'.sourceCheck = services.sourceCheck /\ services'.mpp
          /\ services'.rows = services.rows \cup {MppTest} /\ services'.cols = services.cols
          /\ services'.filled = services.filled
      BY <1>0, <2>2, <3>1 DEF ServiceRecords
    <3>3. ServicesStand' /\ UncutServices' /\ ChecksStand'
      BY <2>1, <3>1, <3>2 DEF MGInv, ServicesStand, UncutServices, ChecksStand
    <3>. QED BY <1>0, <2>1, <3>1, <3>2, <3>3, ServicesStep
  <2>3. CASE ~(services.mpp /\ MppTest \notin services.rows)
    <3>1. pc = "mppProbe" /\ pc' = "mppRebuild" /\ services' = services
      BY <1>9, <2>3 DEF MppProbe, Skip
    <3>2. ServicesStand' /\ UncutServices' /\ ChecksStand'
      BY <2>1, <3>1 DEF MGInv, ServicesStand, UncutServices, ChecksStand
    <3>. QED BY <1>0, <2>1, <3>1, <3>2, ServicesStep
  <2>. QED BY <2>2, <2>3
<1>10. CASE MppUnprobe
  <2>1. pc = "mppUnprobe" /\ pc' = "claims" /\ UNCHANGED <<checks, claims, cuts>>
        /\ services' = [services EXCEPT !.rows = @ \ {MppTest}]
    BY <1>10 DEF MppUnprobe, Skip
  <2>2. /\ services' \in ServiceRecords /\ services'.sourceCheck = services.sourceCheck /\ services'.mpp = services.mpp
        /\ services'.rows = services.rows \ {MppTest} /\ services'.cols = services.cols
        /\ services'.filled = services.filled /\ OldRows \subseteq services'.rows
    BY <1>0, <2>1, MigrationsAssumption DEF ServiceRecords
  <2>3. ServicesStand' /\ UncutServices' /\ ChecksStand'
    BY <2>1, <2>2 DEF MGInv, ServicesStand, UncutServices, ChecksStand
  <2>. QED BY <1>0, <2>1, <2>2, <2>3, ServicesStep
<1>11. CASE MppRebuild
  <2>1. pc = "mppRebuild" /\ pc' = "claims" /\ UNCHANGED <<checks, claims, cuts>>
        /\ services' = [services EXCEPT !.mpp = TRUE]
    BY <1>11, Follows DEF MppRebuild
  <2>2. /\ services' \in ServiceRecords /\ services'.sourceCheck = services.sourceCheck /\ services'.mpp = TRUE
        /\ services'.rows = services.rows /\ services'.cols = services.cols /\ services'.filled = services.filled
    BY <1>0, <2>1 DEF ServiceRecords
  <2>3. ServicesStand' /\ UncutServices' /\ ChecksStand'
    BY <2>1, <2>2 DEF MGInv, ServicesStand, UncutServices, ChecksStand
  <2>. QED BY <1>0, <2>1, <2>2, <2>3, ServicesStep
<1>. QED BY <1>1, <1>2, <1>3, <1>4, <1>5, <1>6, <1>7, <1>8, <1>9, <1>10, <1>11

LEMMA ClaimsActions ==
  ASSUME MGInv,
         \/ CreateClaims \/ ProbeClaims \/ CopyClaims \/ FillClaims \/ DropClaims \/ RenameClaims
         \/ AddHashed \/ ClearHashed \/ MigrateTokenHashes
  PROVE  MGInv'
<1>. USE DEF ClaimsPlaces, Hashing
<1>0. claims \in ClaimRecords
  BY MGParts
<1>1. CASE CreateClaims
  <2>1. pc = "claims" /\ pc' = "claimsProbe" /\ UNCHANGED <<services, checks, cuts>>
    BY <1>1, Follows DEF CreateClaims
  <2>2. /\ claims' \in ClaimRecords /\ claims'.copy = claims.copy /\ claims'.hashedCol = claims.hashedCol
        /\ claims'.flag = claims.flag /\ claims'.hashes = claims.hashes
        /\ claims'.rows = claims.rows \/ claims'.rows = {}
    BY <1>0, <1>1 DEF CreateClaims, ClaimRecords
  <2>3. HashesStand' /\ UncutClaims'
    BY <2>1, <2>2 DEF MGInv, HashesStand, UncutClaims
  <2>. QED BY <2>1, <2>2, <2>3, ClaimsStep
<1>2. CASE ProbeClaims
  <2>1. pc = "claimsProbe" /\ UNCHANGED <<services, checks, claims, cuts>>
        /\ (pc' = "claimsCopy" \/ (pc' = "hashedCol" /\ claims.table = "new"))
    <3>1. UNCHANGED <<services, checks, claims, cuts>>
      BY <1>2 DEF ProbeClaims
    <3>2. CASE claims.table = "new"
      <4>1. pc = "claimsProbe" /\ pc' = "hashedCol"
        BY <1>2, <3>2 DEF ProbeClaims, Skip
      <4>. QED BY <3>1, <3>2, <4>1
    <3>3. CASE claims.table # "new"
      <4>1. At("claimsProbe")
        BY <1>2, <3>3 DEF ProbeClaims
      <4>2. pc = "claimsProbe" /\ pc' = "claimsCopy"
        BY <4>1, Follows
      <4>. QED BY <3>1, <4>2
    <3>. QED BY <3>2, <3>3
  <2>2. HashesStand' /\ UncutClaims'
    BY <2>1 DEF MGInv, HashesStand, UncutClaims
  <2>. QED BY <1>0, <2>1, <2>2, ClaimsStep
<1>3. CASE CopyClaims
  <2>1. pc = "claimsCopy" /\ UNCHANGED <<services, checks, cuts>>
    BY <1>3, Follows DEF CopyClaims, Skip
  <2>2. CASE claims.copy # "none"
    <3>1. pc' = "hashedCol" /\ claims' = claims
      BY <1>3, <2>2 DEF CopyClaims, Skip
    <3>2. HashesStand' /\ UncutClaims'
      BY <2>1, <2>2, <3>1 DEF MGInv, HashesStand, UncutClaims
    <3>. QED BY <1>0, <2>1, <3>1, <3>2, ClaimsStep
  <2>3. CASE claims.copy = "none"
    <3>1. pc' = "claimsFill" /\ claims' = [claims EXCEPT !.copy = "empty"]
      BY <1>3, <2>3, Follows DEF CopyClaims
    <3>2. /\ claims' \in ClaimRecords /\ claims'.table = claims.table /\ claims'.hashedCol = claims.hashedCol
          /\ claims'.flag = claims.flag /\ claims'.hashes = claims.hashes /\ claims'.rows = claims.rows
      BY <1>0, <3>1 DEF ClaimRecords
    <3>3. HashesStand' /\ UncutClaims'
      BY <2>1, <3>1, <3>2 DEF MGInv, HashesStand, UncutClaims
    <3>. QED BY <2>1, <3>1, <3>2, <3>3, ClaimsStep
  <2>. QED BY <2>2, <2>3
<1>4. CASE FillClaims
  <2>1. pc = "claimsFill" /\ pc' = "claimsDrop" /\ UNCHANGED <<services, checks, cuts>>
        /\ claims' = [claims EXCEPT !.copy = "full"]
    BY <1>4, Follows DEF FillClaims
  <2>2. /\ claims' \in ClaimRecords /\ claims'.table = claims.table /\ claims'.hashedCol = claims.hashedCol
        /\ claims'.flag = claims.flag /\ claims'.hashes = claims.hashes /\ claims'.rows = claims.rows
    BY <1>0, <2>1 DEF ClaimRecords
  <2>3. HashesStand' /\ UncutClaims'
    BY <2>1, <2>2 DEF MGInv, HashesStand, UncutClaims
  <2>. QED BY <2>1, <2>2, <2>3, ClaimsStep
<1>5. CASE DropClaims
  <2>1. pc = "claimsDrop" /\ pc' = "claimsRename" /\ UNCHANGED <<services, checks, cuts>>
        /\ claims' = [claims EXCEPT !.table = "none"]
    BY <1>5, Follows DEF DropClaims
  <2>2. /\ claims' \in ClaimRecords /\ claims'.copy = claims.copy /\ claims'.hashedCol = claims.hashedCol
        /\ claims'.flag = claims.flag /\ claims'.hashes = claims.hashes /\ claims'.rows = claims.rows
    BY <1>0, <2>1 DEF ClaimRecords
  <2>3. HashesStand' /\ UncutClaims'
    BY <2>1, <2>2 DEF MGInv, HashesStand, UncutClaims
  <2>. QED BY <2>1, <2>2, <2>3, ClaimsStep
<1>6. CASE RenameClaims
  <2>1. pc = "claimsRename" /\ pc' = "hashedCol" /\ UNCHANGED <<services, checks, cuts>>
        /\ claims' = [claims EXCEPT !.table = "new", !.copy = "none"]
    BY <1>6, Follows DEF RenameClaims
  <2>2. /\ claims' \in ClaimRecords /\ claims'.table = "new" /\ claims'.copy = "none"
        /\ claims'.hashedCol = claims.hashedCol
        /\ claims'.flag = claims.flag /\ claims'.hashes = claims.hashes /\ claims'.rows = claims.rows
    BY <1>0, <2>1 DEF ClaimRecords
  <2>3. HashesStand' /\ UncutClaims'
    BY <2>1, <2>2 DEF MGInv, HashesStand, UncutClaims
  <2>. QED BY <2>1, <2>2, <2>3, ClaimsStep
<1>7. CASE AddHashed
  <2>1. pc = "hashedCol" /\ UNCHANGED <<services, checks, cuts>>
    BY <1>7, Follows DEF AddHashed, Skip
  <2>2. CASE claims.hashedCol
    <3>1. pc' = "hash" /\ claims' = claims
      BY <1>7, <2>2 DEF AddHashed, Skip
    <3>2. HashesStand' /\ UncutClaims'
      BY <2>1, <2>2, <3>1 DEF MGInv, HashesStand, UncutClaims
    <3>. QED BY <1>0, <2>1, <3>1, <3>2, ClaimsStep
  <2>3. CASE ~claims.hashedCol
    <3>1. pc' = "hashedClear" /\ claims' = [claims EXCEPT !.hashedCol = TRUE, !.flag = [c \in OldClaims |-> TRUE]]
      BY <1>7, <2>3, Follows DEF AddHashed
    <3>2. /\ claims' \in ClaimRecords /\ claims'.table = claims.table /\ claims'.copy = claims.copy
          /\ claims'.hashedCol = TRUE /\ claims'.hashes = claims.hashes /\ claims'.rows = claims.rows
          /\ claims'.flag = [c \in OldClaims |-> TRUE]
      BY <1>0, <3>1 DEF ClaimRecords
    <3>3. HashesStand' /\ UncutClaims'
      BY <2>1, <2>3, <3>1, <3>2 DEF MGInv, HashesStand, UncutClaims
    <3>. QED BY <2>1, <3>1, <3>2, <3>3, ClaimsStep
  <2>. QED BY <2>2, <2>3
<1>8. CASE ClearHashed
  <2>1. pc = "hashedClear" /\ pc' = "hash" /\ UNCHANGED <<services, checks, cuts>>
        /\ claims' = [claims EXCEPT !.flag = [c \in OldClaims |-> c \notin claims.rows]]
    BY <1>8, Follows DEF ClearHashed
  <2>2. PICK f \in [OldClaims -> BOOLEAN] : f = [c \in OldClaims |-> c \notin claims.rows]
    OBVIOUS
  <2>3. /\ claims' \in ClaimRecords /\ claims'.table = claims.table /\ claims'.copy = claims.copy
        /\ claims'.hashedCol = claims.hashedCol /\ claims'.hashes = claims.hashes /\ claims'.rows = claims.rows
        /\ claims'.flag = f
    BY <1>0, <2>1, <2>2 DEF ClaimRecords
  <2>4. \A c \in claims.rows : ~f[c]
    BY <1>0, <2>2 DEF ClaimRecords
  <2>5. \A c \in OldClaims : claims.hashes[c] = 0
    BY <2>1 DEF MGInv, HashesStand
  <2>6. claims.hashedCol
    BY <2>1 DEF MGInv, HashesStand
  <2>7. HashesStand' /\ UncutClaims'
    BY <2>1, <2>3, <2>4, <2>5, <2>6 DEF MGInv, HashesStand, UncutClaims
  <2>. QED BY <2>1, <2>3, <2>7, ClaimsStep
<1>9. CASE MigrateTokenHashes
  <2>1. pc = "hash" /\ pc' = "serving" /\ UNCHANGED <<services, checks, cuts>>
    BY <1>9, Follows DEF MigrateTokenHashes
  <2>2. PICK h : h = [c \in OldClaims |-> IF c \in Unhashed THEN claims.hashes[c] + 1 ELSE claims.hashes[c]]
    OBVIOUS
  <2>3. PICK f : f = [c \in OldClaims |-> claims.flag[c] \/ c \in Unhashed]
    OBVIOUS
  <2>4. claims' = [claims EXCEPT !.hashes = h, !.flag = f]
    BY <1>9, <2>2, <2>3, <1>0 DEF MigrateTokenHashes, ClaimRecords
  <2>5. h \in [OldClaims -> Nat] /\ f \in [OldClaims -> BOOLEAN]
    BY <1>0, <2>2, <2>3 DEF ClaimRecords
  <2>6. /\ claims' \in ClaimRecords /\ claims'.table = claims.table /\ claims'.copy = claims.copy
        /\ claims'.hashedCol = claims.hashedCol /\ claims'.hashes = h /\ claims'.rows = claims.rows
        /\ claims'.flag = f
    BY <1>0, <2>4, <2>5 DEF ClaimRecords
  <2>7. \A c \in claims.rows : f[c]
    BY <1>0, <2>3 DEF Unhashed, ClaimRecords
  <2>8. \A c \in OldClaims : claims.hashes[c] \in {0, 1} /\ (claims.hashes[c] = 1 => claims.flag[c])
    BY DEF MGInv, HashesStand
  <2>9. \A c \in OldClaims : h[c] \in {0, 1} /\ (h[c] = 1 => f[c])
    <3>1. ASSUME NEW c \in OldClaims, c \in Unhashed
          PROVE  h[c] \in {0, 1} /\ (h[c] = 1 => f[c])
      <4>1. claims.hashes[c] = 0
        BY <2>8, <3>1 DEF Unhashed
      <4>2. h[c] = 1
        BY <2>2, <3>1, <4>1
      <4>3. f[c]
        BY <2>3, <3>1
      <4>. QED BY <4>2, <4>3
    <3>2. ASSUME NEW c \in OldClaims, c \notin Unhashed
          PROVE  h[c] \in {0, 1} /\ (h[c] = 1 => f[c])
      <4>1. h[c] = claims.hashes[c]
        BY <2>2, <3>2
      <4>2. claims.flag[c] => f[c]
        BY <2>3, <3>2
      <4>. QED BY <2>8, <4>1, <4>2
    <3>. QED BY <3>1, <3>2
  <2>10. claims.hashedCol
    BY <2>1 DEF MGInv, HashesStand
  <2>11. cuts = 0 => \A c \in claims.rows : h[c] = 1
    <3>1. cuts = 0 => \A c \in claims.rows : claims.flag[c] => claims.hashes[c] = 1
      BY <2>1, <2>10 DEF MGInv, UncutClaims
    <3>2. \A c \in claims.rows : c \in OldClaims
      BY <1>0 DEF ClaimRecords
    <3>. QED BY <2>2, <2>8, <3>1, <3>2 DEF Unhashed
  <2>12. HashesStand'
    BY <2>1, <2>6, <2>7, <2>9, <2>10 DEF HashesStand
  <2>13. UncutClaims'
    BY <2>1, <2>6, <2>11 DEF MGInv, UncutClaims
  <2>. QED BY <2>1, <2>6, <2>12, <2>13, ClaimsStep
<1>. QED BY <1>1, <1>2, <1>3, <1>4, <1>5, <1>6, <1>7, <1>8, <1>9

LEMMA RebootInv == ASSUME MGInv, Reboot PROVE MGInv'
<1>. USE MigrationsAssumption
<1>1. pc' = "source" /\ UNCHANGED <<services, checks, claims>> /\ cuts \in 0..MaxCuts
      /\ ((cuts' = cuts /\ pc = "serving") \/ (cuts < MaxCuts /\ cuts' = cuts + 1))
  <2>1. cuts \in 0..MaxCuts
    BY MGParts
  <2>2. pc' = "source" /\ UNCHANGED <<services, checks, claims>>
    BY DEF Reboot
  <2>3. (cuts' = cuts /\ pc = "serving") \/ (cuts < MaxCuts /\ cuts' = cuts + 1)
    BY DEF Reboot
  <2>. QED BY <2>1, <2>2, <2>3
<1>2. (pc \in AllPlaces /\ services \in ServiceRecords /\ claims \in ClaimRecords
       /\ checks \in [full : BOOLEAN, leftover : BOOLEAN] /\ cuts \in 0..MaxCuts)'
  BY <1>1, MGParts DEF AllPlaces
<1>3. MGTypeOK'
  BY <1>2, PlacesListed DEF MGTypeOK, ServiceRecords, ClaimRecords
<1>4. ServicesStand' /\ ChecksStand'
  BY <1>1 DEF MGInv, ServicesStand, ChecksStand, ToMpp, ToLnget, ToFillFormat, ToFormat, ToFillHostname, ToHostname,
              ToChecks, ToSource
<1>5. HashesStand'
  BY <1>1 DEF MGInv, HashesStand
<1>6. cuts' = 0 => cuts = 0 /\ pc = "serving"
  BY <1>1
<1>7. UncutServices' /\ UncutClaims'
  BY <1>1, <1>6 DEF MGInv, UncutServices, UncutClaims, Hashing
<1>. QED BY <1>3, <1>4, <1>5, <1>7 DEF MGInv

LEMMA MGInitInv == MGInit => MGInv
<1>. SUFFICES ASSUME MGInit PROVE MGInv
  OBVIOUS
<1>. USE MigrationsAssumption
<1>1. PICK legacy \in BOOLEAN, mpp \in BOOLEAN, cols \in {{}, {"hostname"}, Cols} :
        /\ mpp => cols = Cols
        /\ cols # {} => ~legacy
        /\ services = [sourceCheck |-> legacy, mpp |-> mpp, cols |-> cols, rows |-> OldRows,
             filled |-> [c \in Cols |-> IF c \in cols THEN OldRows ELSE {}]]
  BY DEF MGInit
<1>2. PICK table \in {"none", "old", "new"} :
        claims = [table |-> table, copy |-> "none", hashedCol |-> FALSE,
                  rows |-> IF table = "none" THEN {} ELSE OldClaims,
                  flag |-> [c \in OldClaims |-> FALSE], hashes |-> [c \in OldClaims |-> 0]]
  BY DEF MGInit
<1>3. pc = "source" /\ cuts = 0 /\ checks \in [full : BOOLEAN, leftover : BOOLEAN]
  BY DEF MGInit
<1>4. services \in ServiceRecords
  <2>1. cols \subseteq Cols
    BY DEF Cols
  <2>2. [c \in Cols |-> IF c \in cols THEN OldRows ELSE {}] \in [Cols -> SUBSET OldRows]
    OBVIOUS
  <2>. QED BY <1>1, <2>1, <2>2 DEF ServiceRecords
<1>5. claims \in ClaimRecords
  BY <1>2 DEF ClaimRecords
<1>6. MGTypeOK
  BY <1>3, <1>4, <1>5, PlacesListed DEF MGTypeOK, ServiceRecords, ClaimRecords, AllPlaces
<1>7. ServicesStand /\ ChecksStand
  BY <1>1, <1>3 DEF ServicesStand, ChecksStand, ToMpp, ToLnget, ToFillFormat, ToFormat, ToFillHostname, ToHostname,
              ToChecks, ToSource
<1>8. UncutServices
  BY <1>1, <1>3 DEF UncutServices, Cols
<1>9. HashesStand /\ UncutClaims
  BY <1>2, <1>3 DEF HashesStand, UncutClaims, Hashing
<1>. QED BY <1>6, <1>7, <1>8, <1>9 DEF MGInv

LEMMA MGNextInv == MGInv /\ [MGNext]_mgVars => MGInv'
<1>. SUFFICES ASSUME MGInv, [MGNext]_mgVars PROVE MGInv'
  OBVIOUS
<1>1. CASE UNCHANGED mgVars
  BY <1>1 DEF mgVars, MGInv, MGTypeOK, ServicesStand, UncutServices, ChecksStand, HashesStand, UncutClaims
<1>2. CASE MGNext
  BY <1>2, ServicesActions, ClaimsActions, RebootInv DEF MGNext
<1>. QED BY <1>1, <1>2

(* src/db.js: a boot that gets to its end leaves the current schema, the columns
   full and no token hashed twice, whatever older database it started from and
   however many boots were cut short before; and when none was, nothing is lost. *)
THEOREM BootsCatchUp == MGSpec => []BootCatchesUp
<1>1. MGInv => BootCatchesUp
  <2>. SUFFICES ASSUME MGInv, pc = "serving" PROVE BootCatchesUp
    BY DEF BootCatchesUp
  <2>1. services \in ServiceRecords /\ claims \in ClaimRecords
    BY MGParts
  <2>2. /\ ~services.sourceCheck /\ services.mpp /\ checks.full /\ OldRows \subseteq services.rows
        /\ "hostname" \in services.cols /\ "l402_format" \in services.cols /\ "lnget_compatible" \in services.cols
        /\ OldRows \subseteq services.filled["hostname"] /\ OldRows \subseteq services.filled["l402_format"]
    BY DEF MGInv, ServicesStand, ChecksStand, ToMpp, ToLnget, ToFillFormat, ToFormat, ToFillHostname, ToHostname,
              ToChecks, ToSource
  <2>3. services.cols = Cols
    BY <2>1, <2>2 DEF ServiceRecords, Cols
  <2>4. /\ \A c \in OldClaims : claims.hashes[c] \in {0, 1}
        /\ \A c \in claims.rows : claims.flag[c]
        /\ claims.hashedCol
    BY DEF MGInv, HashesStand
  <2>5. \A c \in OldClaims : claims.hashes[c] <= 1
    BY <2>4
  <2>6. Unhashed = {}
    BY <2>4 DEF Unhashed
  <2>7. cuts = 0 => /\ claims.table = "new" /\ \A c \in claims.rows : claims.hashes[c] = 1
                    /\ MppTest \notin services.rows /\ OldRows \subseteq services.filled["lnget_compatible"]
    BY <2>2, <2>4 DEF MGInv, UncutServices, UncutClaims, Hashing
  <2>. QED BY <2>2, <2>3, <2>5, <2>6, <2>7 DEF BootCatchesUp
<1>. QED BY <1>1, MGInitInv, MGNextInv, PTL DEF MGSpec
============================================================================
