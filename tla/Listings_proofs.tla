-------------------------- MODULE Listings_proofs --------------------------
(* How rows come into the index and its search, for any rows, hosts and limits:
   the passes of the Bazaar retire exactly what was absent and skip nothing,
   the stored call answers, the semaphore counts its slots, a search counts a
   row once, and the composition of MCListings keeps the types of them all. *)
EXTENDS MCListings, QueryEmbedding, Intake_proofs, SequenceTheorems, SumLemmas

----------------------------------------------------------------------------
(* Sets of naturals *)

(* A bounded set of naturals that is not empty has a greatest element. *)
LEMMA GreatestNatural ==
  ASSUME NEW n \in Nat, NEW T \in SUBSET (0..n), T # {}
  PROVE  \E x \in T : \A y \in T : y <= x
<1>. DEFINE F == {n - t : t \in T}
<1>1. \A t \in T : t \in Nat /\ t <= n
  <2>1. \A t \in 0..n : t \in Nat /\ t <= n
    OBVIOUS
  <2>. QED BY <2>1
<1>2. F \in SUBSET Nat /\ F # {}
  <2>1. \A f \in F : f \in Nat
    BY <1>1
  <2>. QED BY <2>1
<1>3. PICK z \in F : \A y \in F : z <= y
  <2>. HIDE DEF F
  <2>. QED BY <1>2, LeastNatural
<1>4. PICK x \in T : z = n - x
  BY <1>3
<1>5. ASSUME NEW y \in T PROVE y <= x
  <2>1. n - x <= n - y
    BY <1>3, <1>4
  <2>. QED BY <2>1, <1>1
<1>. QED BY <1>4, <1>5

Over(C, s) == {d \in C : d > s}
From(C, h) == {d \in C : d >= h}

(* Of a finite set of naturals, an element with k elements from it on up can be
   found above every bound that k elements are above. *)
LEMMA KthGreatest ==
  ASSUME NEW n \in Nat, NEW C \in SUBSET (0..n), NEW s \in Nat, NEW k \in Nat \ {0},
         Cardinality(Over(C, s)) >= k
  PROVE  \E h \in C : h > s /\ Cardinality(From(C, h)) = k
<1>. USE DEF Over, From
<1>. DEFINE Above(h) == {d \in C : d >= h}
<1>1. IsFiniteSet(C) /\ \A S \in SUBSET C : IsFiniteSet(S) /\ Cardinality(S) \in Nat
  <2>1. IsFiniteSet(0..n)
    BY FS_Interval
  <2>2. IsFiniteSet(C)
    BY <2>1, FS_Subset
  <2>. QED BY <2>2, FS_Subset, FS_CardinalityType
<1>0. \A d \in C : d \in Nat /\ d <= n
  <2>1. \A t \in 0..n : t \in Nat /\ t <= n
    OBVIOUS
  <2>. QED BY <2>1
<1>. DEFINE T == {h \in C : h > s /\ Cardinality(Above(h)) >= k}
<1>2. PICK h \in T : \A g \in T : g <= h
  <2>1. {d \in C : d > s} # {}
    BY FS_EmptySet
  <2>2. PICK m \in {d \in C : d > s} : \A d \in C : d > s => m <= d
    <3>1. {d \in C : d > s} \in SUBSET Nat
      BY <1>0
    <3>. QED BY <2>1, <3>1, LeastNatural
  <2>3. Above(m) = {d \in C : d > s}
    <3>1. \A d \in C : d >= m <=> d > s
      BY <1>0, <2>2
    <3>. QED BY <3>1
  <2>4. m \in T
    BY <2>2, <2>3
  <2>. QED BY <2>4, GreatestNatural
<1>3. Cardinality(Above(h)) \in Nat /\ Cardinality(Above(h)) >= k /\ h \in C /\ h > s /\ h \in Nat
  BY <1>1, <1>2
<1>4. SUFFICES ASSUME Cardinality(Above(h)) > k PROVE FALSE
  BY <1>3
<1>5. {d \in C : d > h} # {}
  <2>1. SUFFICES ASSUME {d \in C : d > h} = {} PROVE FALSE
    OBVIOUS
  <2>2. \A d \in C : d >= h <=> d = h
    BY <2>1, <1>0, <1>3
  <2>3. Above(h) = {h}
    BY <2>2, <1>3
  <2>4. Cardinality(Above(h)) = 1
    BY <2>3, FS_Singleton
  <2>. QED BY <2>4, <1>4
<1>6. PICK g \in {d \in C : d > h} : \A d \in C : d > h => g <= d
  <2>1. {d \in C : d > h} \in SUBSET Nat
    BY <1>0
  <2>. QED BY <1>5, <2>1, LeastNatural
<1>7. Above(h) = Above(g) \cup {h} /\ h \notin Above(g)
  <2>1. \A d \in C : d >= h <=> d >= g \/ d = h
    BY <1>0, <1>3, <1>6
  <2>2. ~(h >= g)
    BY <1>0, <1>3, <1>6
  <2>. QED BY <2>1, <2>2, <1>3
<1>8. Cardinality(Above(h)) = Cardinality(Above(g)) + 1 /\ Cardinality(Above(g)) \in Nat
  <2>1. IsFiniteSet(Above(g)) /\ Cardinality(Above(g)) \in Nat
    BY <1>1
  <2>. HIDE DEF Above
  <2>2. Cardinality(Above(g) \cup {h}) = Cardinality(Above(g)) + 1
    BY <1>7, <2>1, FS_AddElement
  <2>. QED BY <1>7, <2>1, <2>2
<1>9. g \in T
  BY <1>3, <1>4, <1>6, <1>8
<1>. QED BY <1>2, <1>6, <1>9

----------------------------------------------------------------------------
(* Passes of the Bazaar *)

(* What a pass is, whatever polls are in flight. *)
ClosingStages == Stages \ {"idle", "fetching"}

CatalogOK == catalog \in Seq(Resources) /\ IsInjective(catalog)

PassOK ==
  /\ \A p, q \in Polls : poll[p].at \in ClosingStages /\ poll[q].at \in ClosingStages => p = q
  /\ \A p \in Polls : poll[p].at \in ClosingStages => passId <= MaxPass
  /\ \A p \in Polls : poll[p].at # "idle" => poll[p].pass <= passId
  /\ \A r \in Resources : row[r].seen <= passId
  /\ logged \subseteq 1..passId

BZInv == TypeOK /\ CatalogOK /\ PassOK

(* The number of a row's pass, against what the passes are about. *)
SeenSince(r) == {d \in complete : d > row[r].seen}
StampsTell ==
  /\ \A p \in Polls : poll[p].at # "idle" => poll[p].pass = passId
  /\ \A r \in Resources : r \in listed <=> row[r].seen = passId
  /\ \A r \in Resources : absent[r] = Cardinality(SeenSince(r))

(* The part of the listing up to n is done, as far as it was there all along. *)
Covered(n) ==
  \A i \in DOMAIN catalog : i <= n /\ catalog[i] \in steady => catalog[i] \in listed \union Malformed
NoneMissed ==
  /\ steady \subseteq ToSet(catalog)
  /\ \A p \in Polls : poll[p].at # "idle" => poll[p].done \subseteq listed
  /\ \A p \in Polls : poll[p].at \in ClosingStages \ {"closing"} => offset = 0
  /\ ~moved =>
       /\ Covered(offset)
       /\ \A p \in Polls :
            /\ poll[p].at = "fetching" => Covered(poll[p].offset)
            /\ poll[p].at = "fetching" /\ poll[p].total # NoTotal =>
                 \A i \in DOMAIN catalog : catalog[i] \in steady => i <= poll[p].total
            /\ poll[p].at \in ClosingStages => steady \ Malformed \subseteq listed

----------------------------------------------------------------------------
(* The listing grows and shrinks *)

LEMMA InsertedAt ==
  ASSUME NEW S, NEW s \in Seq(S), IsInjective(s), NEW e \in S, e \notin ToSet(s), NEW i \in 1..(Len(s) + 1)
  PROVE  /\ InsertAt(s, i, e) \in Seq(S) /\ IsInjective(InsertAt(s, i, e))
         /\ ToSet(InsertAt(s, i, e)) = ToSet(s) \union {e}
         /\ i = Len(s) + 1 => /\ Len(InsertAt(s, i, e)) = Len(s) + 1
                              /\ \A j \in 1..Len(s) : InsertAt(s, i, e)[j] = s[j]
                              /\ InsertAt(s, i, e)[Len(s) + 1] = e
<1>. DEFINE n == Len(s)  left == SubSeq(s, 1, i - 1)  right == SubSeq(s, i, n)
<1>1. n \in Nat /\ i \in Nat /\ DOMAIN s = 1..n /\ i <= n + 1 /\ 1 <= i
  OBVIOUS
<1>2. left \in Seq(S) /\ Len(left) = i - 1 /\ \A j \in 1..(i - 1) : left[j] = s[j]
  BY <1>1
<1>3. right \in Seq(S) /\ Len(right) = n - i + 1 /\ \A j \in 1..(n - i + 1) : right[j] = s[i + j - 1]
  BY <1>1
<1>4. PICK t : t = InsertAt(s, i, e)
  OBVIOUS
<1>5. t = (left \o <<e>>) \o right
  BY <1>4 DEF InsertAt
<1>6. /\ left \o <<e>> \in Seq(S) /\ Len(left \o <<e>>) = i
      /\ \A j \in 1..(i - 1) : (left \o <<e>>)[j] = s[j]
      /\ (left \o <<e>>)[i] = e
  <2>. HIDE DEF left
  <2>. QED BY <1>1, <1>2
<1>7. /\ t \in Seq(S) /\ Len(t) = n + 1
      /\ \A j \in 1..i : t[j] = (left \o <<e>>)[j]
      /\ \A j \in (i + 1)..(n + 1) : t[j] = right[j - i]
  <2>. HIDE DEF left, right
  <2>1. PICK u : u = left \o <<e>>
    OBVIOUS
  <2>. QED BY <2>1, <1>1, <1>3, <1>5, <1>6
<1>8. /\ \A j \in 1..(i - 1) : t[j] = s[j]
      /\ t[i] = e
      /\ \A j \in (i + 1)..(n + 1) : t[j] = s[j - 1]
  <2>. HIDE DEF left, right
  <2>. QED BY <1>1, <1>3, <1>6, <1>7
<1>9. DOMAIN t = 1..(n + 1)
  BY <1>7
<1>. HIDE DEF left, right
<1>10. ToSet(t) = ToSet(s) \union {e}
  <2>1. ASSUME NEW x \in ToSet(t) PROVE x \in ToSet(s) \union {e}
    <3>1. PICK j \in 1..(n + 1) : x = t[j]
      BY <1>9, <2>1 DEF ToSet
    <3>2. x = e \/ (x = s[j] /\ j \in 1..n) \/ (x = s[j - 1] /\ j - 1 \in 1..n)
      BY <3>1, <1>1, <1>8
    <3>. QED BY <3>2, <1>1 DEF ToSet
  <2>2. ASSUME NEW x \in ToSet(s) PROVE x \in ToSet(t)
    <3>1. PICK j \in 1..n : x = s[j]
      BY <1>1, <2>2 DEF ToSet
    <3>2. (x = t[j] /\ j \in 1..(n + 1)) \/ (x = t[j + 1] /\ j + 1 \in 1..(n + 1))
      BY <3>1, <1>1, <1>8
    <3>. QED BY <3>2, <1>9 DEF ToSet
  <2>3. e \in ToSet(t)
    BY <1>1, <1>8, <1>9 DEF ToSet
  <2>. QED BY <2>1, <2>2, <2>3
<1>11. IsInjective(t)
  <2>1. \A j \in 1..n : s[j] # e
    BY <1>1 DEF ToSet
  <2>2. \A j, k \in 1..n : s[j] = s[k] => j = k
    BY <1>1 DEF IsInjective
  <2>. DEFINE from(j) == IF j < i THEN j ELSE j - 1
  <2>3. \A j \in 1..(n + 1) : j # i => from(j) \in 1..n /\ t[j] = s[from(j)]
    BY <1>1, <1>8
  <2>4. \A j, k \in 1..(n + 1) : j # i /\ k # i /\ t[j] = t[k] => j = k
    <3>1. SUFFICES ASSUME NEW j \in 1..(n + 1), NEW k \in 1..(n + 1), j # i, k # i, t[j] = t[k]
                   PROVE  j = k
      OBVIOUS
    <3>2. from(j) = from(k)
      BY <3>1, <2>2, <2>3
    <3>. QED BY <3>1, <3>2, <1>1
  <2>5. \A j \in 1..(n + 1) : j # i => t[j] # e
    BY <2>1, <2>3
  <2>. QED BY <2>4, <2>5, <1>8, <1>9 DEF IsInjective
<1>12. i = n + 1 => Len(t) = n + 1 /\ (\A j \in 1..n : t[j] = s[j]) /\ t[n + 1] = e
  BY <1>1, <1>7, <1>8
<1>. QED BY <1>4, <1>7, <1>10, <1>11, <1>12

LEMMA RemovedAt ==
  ASSUME NEW S, NEW s \in Seq(S), IsInjective(s), NEW i \in 1..Len(s)
  PROVE  /\ RemoveAt(s, i) \in Seq(S) /\ IsInjective(RemoveAt(s, i))
         /\ ToSet(RemoveAt(s, i)) \subseteq ToSet(s)
<1>. DEFINE n == Len(s)  left == SubSeq(s, 1, i - 1)  right == SubSeq(s, i + 1, n)
<1>1. n \in Nat /\ i \in Nat /\ DOMAIN s = 1..n /\ i <= n /\ 1 <= i
  OBVIOUS
<1>2. left \in Seq(S) /\ Len(left) = i - 1 /\ \A j \in 1..(i - 1) : left[j] = s[j]
  BY <1>1
<1>3. right \in Seq(S) /\ Len(right) = n - i /\ \A j \in 1..(n - i) : right[j] = s[i + j]
  <2>1. PICK k \in 2..(n + 1) : k = i + 1
    BY <1>1
  <2>2. /\ SubSeq(s, k, n) \in Seq(S) /\ Len(SubSeq(s, k, n)) = n - k + 1
        /\ \A j \in 1..(n - k + 1) : SubSeq(s, k, n)[j] = s[k + j - 1]
    BY <1>1
  <2>3. \A j \in 1..(n - i) : k + j - 1 = i + j
    BY <2>1, <1>1
  <2>4. n - k + 1 = n - i
    BY <2>1, <1>1
  <2>. QED BY <2>1, <2>2, <2>3, <2>4
<1>4. PICK t : t = RemoveAt(s, i)
  OBVIOUS
<1>5. t = left \o right
  BY <1>4 DEF RemoveAt
<1>6. /\ t \in Seq(S) /\ Len(t) = n - 1
      /\ \A j \in 1..(i - 1) : t[j] = left[j]
      /\ \A j \in i..(n - 1) : t[j] = right[j - i + 1]
  <2>. HIDE DEF left, right
  <2>1. t \in Seq(S) /\ Len(t) = (i - 1) + (n - i)
    <3>1. left \o right \in Seq(S) /\ Len(left \o right) = Len(left) + Len(right)
      BY <1>2, <1>3, ConcatProperties
    <3>. QED BY <1>2, <1>3, <1>5, <3>1
  <2>2. \A j \in 1..(i - 1) : t[j] = left[j]
    BY <1>1, <1>2, <1>3, <1>5
  <2>3. \A j \in i..(n - 1) : t[j] = right[j - (i - 1)]
    BY <1>1, <1>2, <1>3, <1>5
  <2>4. \A j \in i..(n - 1) : j - (i - 1) = j - i + 1
    BY <1>1
  <2>. QED BY <1>1, <2>1, <2>2, <2>3, <2>4
<1>7. DOMAIN t = 1..(n - 1) /\ \A j \in 1..(n - 1) : t[j] = IF j < i THEN s[j] ELSE s[j + 1]
  <2>. HIDE DEF left, right
  <2>1. ASSUME NEW j \in 1..(n - 1), j < i PROVE t[j] = s[j]
    BY <2>1, <1>1, <1>2, <1>6
  <2>2. ASSUME NEW j \in 1..(n - 1), ~(j < i) PROVE t[j] = s[j + 1]
    <3>1. j \in i..(n - 1) /\ j - i + 1 \in 1..(n - i) /\ i + (j - i + 1) = j + 1
      BY <2>2, <1>1
    <3>. QED BY <3>1, <1>3, <1>6
  <2>. QED BY <2>1, <2>2, <1>6
<1>. HIDE DEF left, right
<1>8. ToSet(t) \subseteq ToSet(s)
  <2>1. SUFFICES ASSUME NEW x \in ToSet(t) PROVE x \in ToSet(s)
    OBVIOUS
  <2>2. PICK j \in 1..(n - 1) : x = t[j]
    BY <1>7 DEF ToSet
  <2>3. (x = s[j] /\ j \in 1..n) \/ (x = s[j + 1] /\ j + 1 \in 1..n)
    BY <2>2, <1>1, <1>7
  <2>. QED BY <2>3, <1>1 DEF ToSet
<1>9. IsInjective(t)
  <2>1. \A j, k \in 1..n : s[j] = s[k] => j = k
    BY <1>1 DEF IsInjective
  <2>. DEFINE from(j) == IF j < i THEN j ELSE j + 1
  <2>2. \A j \in 1..(n - 1) : from(j) \in 1..n /\ t[j] = s[from(j)]
    BY <1>1, <1>7
  <2>3. SUFFICES ASSUME NEW j \in 1..(n - 1), NEW k \in 1..(n - 1), t[j] = t[k] PROVE j = k
    BY <1>7 DEF IsInjective
  <2>4. from(j) = from(k)
    BY <2>1, <2>2, <2>3
  <2>. QED BY <2>4, <1>1
<1>. QED BY <1>4, <1>6, <1>8, <1>9


----------------------------------------------------------------------------
(* Passes: the types, and what a closing stands on *)

RowRecords == [status : {"none", "active", "retired"}, seen : 0..MaxPass, missing : BOOLEAN]
PollRecords ==
  [at : Stages, offset : Nat, total : Nat \union {NoTotal}, pass : 1..(MaxPass + 1), done : SUBSET Resources]

LEMMA WentTo ==
  ASSUME poll \in [Polls -> PollRecords], NEW p \in Polls, NEW stage \in Stages, Goto(p, stage)
  PROVE  /\ poll' \in [Polls -> PollRecords]
         /\ \A q \in Polls :
              /\ poll'[q].at = IF q = p THEN stage ELSE poll[q].at
              /\ poll'[q].offset = poll[q].offset /\ poll'[q].total = poll[q].total
              /\ poll'[q].pass = poll[q].pass /\ poll'[q].done = poll[q].done
<1>1. poll' = [poll EXCEPT ![p] = [poll[p] EXCEPT !.at = stage]]
  BY DEF Goto
<1>2. PICK new : new = [poll[p] EXCEPT !.at = stage]
  OBVIOUS
<1>3. poll[p] \in PollRecords
  OBVIOUS
<1>4. /\ new \in PollRecords /\ new.at = stage
      /\ new.offset = poll[p].offset /\ new.total = poll[p].total
      /\ new.pass = poll[p].pass /\ new.done = poll[p].done
  BY <1>2, <1>3 DEF PollRecords
<1>5. /\ poll' \in [Polls -> PollRecords]
      /\ \A q \in Polls : poll'[q] = IF q = p THEN new ELSE poll[q]
  BY <1>1, <1>2, <1>4
<1>. QED BY <1>4, <1>5

LEMMA TypeParts ==
  BZInv => /\ row \in [Resources -> RowRecords]
           /\ poll \in [Polls -> PollRecords]
           /\ \A p \in Polls : poll[p] \in PollRecords
           /\ \A r \in Resources : row[r] \in RowRecords
           /\ passId \in Nat /\ passId >= 1 /\ MaxPass \in Nat
BY PassAssumption DEF BZInv, TypeOK, RowRecords, PollRecords

(* A step of the closing of a pass, or the end of a poll. *)
LEMMA StageKeepsPass ==
  ASSUME BZInv, NEW p \in Polls, NEW stage \in Stages, Goto(p, stage),
         poll[p].at \in ClosingStages \/ stage = "idle",
         row' \in [Resources -> RowRecords], \A r \in Resources : row'[r].seen = row[r].seen,
         passId' = passId, logged' \subseteq 1..passId
  PROVE  poll' \in [Polls -> PollRecords] /\ PassOK'
<1>1. /\ poll' \in [Polls -> PollRecords]
      /\ \A q \in Polls : /\ poll'[q].at = (IF q = p THEN stage ELSE poll[q].at)
                          /\ poll'[q].pass = poll[q].pass
  BY WentTo, TypeParts
<1>2. poll[p].at # "idle" \/ stage = "idle"
  BY DEF ClosingStages
<1>. QED BY <1>1, <1>2 DEF BZInv, PassOK, ClosingStages

LEMMA ChunkKeeps ==
  ASSUME BZInv, NEW p \in Polls, poll[p].at \in ClosingStages, NEW stage \in Stages, NEW targets \in SUBSET Resources,
         NEW updated, \A r \in targets : updated[r] \in RowRecords /\ updated[r].seen = row[r].seen,
         Chunk(p, targets, updated, stage), passId' = passId, logged' = logged
  PROVE  /\ row' \in [Resources -> RowRecords] /\ \A r \in Resources : row'[r].seen = row[r].seen
         /\ poll' \in [Polls -> PollRecords] /\ PassOK'
<1>1. CASE \E r \in targets : row' = [row EXCEPT ![r] = updated[r]] /\ UNCHANGED poll
  <2>1. PICK r \in targets : row' = [row EXCEPT ![r] = updated[r]]
    BY <1>1
  <2>2. r \in Resources /\ updated[r] \in RowRecords /\ updated[r].seen = row[r].seen
    OBVIOUS
  <2>3. row' \in [Resources -> RowRecords] /\ \A q \in Resources : row'[q].seen = row[q].seen
    BY <2>1, <2>2, TypeParts
  <2>4. poll' = poll
    BY <1>1
  <2>. QED BY <2>3, <2>4, TypeParts DEF BZInv, PassOK
<1>2. CASE Goto(p, stage) /\ UNCHANGED row
  <2>1. logged \subseteq 1..passId
    BY DEF BZInv, PassOK
  <2>. QED BY <1>2, <2>1, StageKeepsPass, TypeParts
<1>. QED BY <1>1, <1>2 DEF Chunk

LEMMA CatalogTyped ==
  ASSUME CatalogOK PROVE IsInjective(catalog) /\ ToSet(catalog) \subseteq Resources
BY DEF CatalogOK, ToSet

LEMMA InitBZInv == Init => BZInv
<1>. SUFFICES ASSUME Init PROVE BZInv
  OBVIOUS
<1>. USE PassAssumption
<1>1. CatalogOK
  <2>1. PICK S \in SUBSET Resources : catalog \in SetToSeqs(S)
    BY DEF Init, SetToAllKPermutations
  <2>2. IsFiniteSet(S)
    BY FS_Subset
  <2>3. PICK n \in Nat : n = Cardinality(S)
    BY <2>2, FS_CardinalityType
  <2>4. catalog \in [1..n -> S] /\ \A i, j \in 1..n : i # j => catalog[i] # catalog[j]
    BY <2>1, <2>3 DEF SetToSeqs
  <2>5. catalog \in [1..n -> Resources]
    BY <2>4
  <2>6. IsInjective(catalog)
    BY <2>4 DEF IsInjective
  <2>. QED BY <2>5, <2>6 DEF CatalogOK
<1>2. ToSet(catalog) \subseteq Resources /\ IsInjective(catalog)
  BY <1>1, CatalogTyped
<1>3. TypeOK
  <2>1. row \in [Resources -> RowRecords]
    <3>1. [status |-> "none", seen |-> 0, missing |-> FALSE] \in RowRecords
      BY DEF RowRecords
    <3>. QED BY <3>1 DEF Init
  <2>2. poll \in [Polls -> PollRecords]
    <3>1. Idle \in PollRecords
      BY DEF Idle, PollRecords, Stages
    <3>. QED BY <3>1 DEF Init
  <2>3. /\ passId \in 1..(MaxPass + 1) /\ logged \subseteq 1..MaxPass /\ complete \subseteq logged
        /\ changes \in 0..MaxChanges /\ crashes \in 0..MaxCrashes
        /\ listed \subseteq Resources /\ steady \subseteq Resources
        /\ absent \in [Resources -> Nat] /\ moved \in BOOLEAN
        /\ offset \in Nat /\ fullPass \in BOOLEAN
    <3>1. /\ passId = 1 /\ logged = {} /\ complete = {} /\ changes = 0 /\ crashes = 0 /\ offset = 0
          /\ listed = {} /\ steady = ToSet(catalog) /\ absent = [r \in Resources |-> 0]
          /\ fullPass = FALSE /\ moved = FALSE
      BY DEF Init
    <3>2. absent \in [Resources -> Nat]
      BY <3>1
    <3>3. fullPass \in BOOLEAN /\ moved \in BOOLEAN
      BY <3>1
    <3>4. passId \in 1..(MaxPass + 1) /\ changes \in 0..MaxChanges /\ crashes \in 0..MaxCrashes /\ offset \in Nat
      BY <3>1
    <3>. QED BY <1>2, <3>1, <3>2, <3>3, <3>4
  <2>. QED BY <1>2, <2>1, <2>2, <2>3 DEF TypeOK, RowRecords, PollRecords
<1>4. PassOK
  BY <1>3 DEF Init, PassOK, Idle, ClosingStages, Stages
<1>. QED BY <1>1, <1>3, <1>4 DEF BZInv

LEMMA ListsInv ==
  ASSUME BZInv, NEW s \in Seq(Resources), IsInjective(s), NEW inPlace \in BOOLEAN, Lists(s, inPlace)
  PROVE  BZInv'
<1>1. CatalogOK'
  BY DEF Lists, CatalogOK
<1>2. (IsInjective(catalog) /\ ToSet(catalog) \subseteq Resources)'
  BY <1>1 DEF CatalogOK, ToSet
<1>3. TypeOK'
  BY <1>2, PassAssumption DEF BZInv, TypeOK, Lists, db
<1>. QED BY <1>1, <1>3 DEF BZInv, PassOK, Lists, db

LEMMA EnlistInv ==
  ASSUME BZInv, NEW r \in Resources, NEW i \in 1..(Len(catalog) + 1), Enlist(r, i) PROVE BZInv'
<1>1. catalog \in Seq(Resources) /\ IsInjective(catalog) /\ r \notin ToSet(catalog)
  BY DEF BZInv, CatalogOK, Enlist
<1>2. InsertAt(catalog, i, r) \in Seq(Resources) /\ IsInjective(InsertAt(catalog, i, r))
  BY <1>1, InsertedAt
<1>. QED BY <1>2, ListsInv DEF Enlist

LEMMA DelistInv ==
  ASSUME BZInv, NEW i \in 1..Len(catalog), Delist(i) PROVE BZInv'
<1>1. catalog \in Seq(Resources) /\ IsInjective(catalog)
  BY DEF BZInv, CatalogOK
<1>2. RemoveAt(catalog, i) \in Seq(Resources) /\ IsInjective(RemoveAt(catalog, i))
  BY <1>1, RemovedAt
<1>. QED BY <1>2, ListsInv DEF Delist

LEMMA PollStarted ==
  ASSUME BZInv, NEW p \in Polls, NEW overdue \in BOOLEAN, PollStart(p, overdue)
  PROVE  /\ poll' \in [Polls -> PollRecords] /\ offset' \in Nat
         /\ offset' = IF overdue THEN 0 ELSE offset
         /\ \A q \in Polls \ {p} : poll'[q] = poll[q]
         /\ poll'[p].at = "fetching" /\ poll'[p].offset = offset' /\ poll'[p].pass = passId
         /\ poll'[p].total = NoTotal /\ poll'[p].done = {}
<1>1. PICK new : new = [Idle EXCEPT !.at = "fetching", !.offset = offset', !.pass = passId]
  OBVIOUS
<1>2. offset' \in Nat /\ passId \in 1..(MaxPass + 1)
  BY DEF PollStart, BZInv, TypeOK
<1>3. new = [at |-> "fetching", offset |-> offset', total |-> NoTotal, pass |-> passId, done |-> {}]
  BY <1>1 DEF Idle
<1>4. new \in PollRecords
  BY <1>2, <1>3 DEF PollRecords, Stages
<1>5. poll' = [poll EXCEPT ![p] = new]
  BY <1>1 DEF PollStart
<1>6. poll' \in [Polls -> PollRecords] /\ poll'[p] = new /\ \A q \in Polls \ {p} : poll'[q] = poll[q]
  BY <1>4, <1>5, TypeParts
<1>7. offset' = IF overdue THEN 0 ELSE offset
  BY DEF PollStart
<1>. QED BY <1>2, <1>3, <1>6, <1>7

LEMMA PollStartInv ==
  ASSUME BZInv, NEW p \in Polls, NEW overdue \in BOOLEAN, PollStart(p, overdue) PROVE BZInv'
<1>1. TypeOK'
  BY PollStarted DEF PollStart, BZInv, TypeOK, history, PollRecords
<1>2. PassOK'
  BY PollStarted, TypeParts DEF PollStart, BZInv, PassOK, ClosingStages
<1>3. CatalogOK'
  BY DEF PollStart, BZInv, CatalogOK
<1>. QED BY <1>1, <1>2, <1>3 DEF BZInv

(* What a page read does, in plain terms. *)
PageIsRead(p, new, total, next, at) ==
  /\ new = Page(poll[p].offset) \ (Malformed \union poll[p].done)
  /\ total = IF poll[p].total = NoTotal THEN Len(catalog) ELSE poll[p].total
  /\ next = IF Page(poll[p].offset) = {} THEN poll[p].offset ELSE poll[p].offset + PAGE_SIZE
  /\ at = IF next >= total THEN "closing"
          ELSE IF Page(poll[p].offset) = {} THEN "idle" ELSE "fetching"
  /\ row' \in [Resources -> RowRecords]
  /\ \A r \in Resources : row'[r] = IF r \in new THEN Stamped(r, poll[p].pass) ELSE row[r]
  /\ offset' = IF Page(poll[p].offset) = {} THEN offset ELSE next
  /\ poll' \in [Polls -> PollRecords]
  /\ \A q \in Polls \ {p} : poll'[q] = poll[q]
  /\ poll'[p].at = at /\ poll'[p].offset = next /\ poll'[p].total = total
  /\ poll'[p].pass = poll[p].pass /\ poll'[p].done = poll[p].done \union new
  /\ listed' = listed \union new
  /\ absent' = [r \in Resources |-> IF r \in new THEN 0 ELSE absent[r]]

LEMMA PageRead ==
  ASSUME BZInv, NEW p \in Polls, PageFetched(p)
  PROVE  \E new \in SUBSET Resources, total \in Nat, next \in Nat, at \in {"closing", "idle", "fetching"} :
           PageIsRead(p, new, total, next, at)
<1>. USE PassAssumption
<1>1. PICK q \in PollRecords : q = poll[p]
  BY TypeParts
<1>2. PICK page : page = Page(q.offset)
  OBVIOUS
<1>3. page \subseteq Resources
  <2>1. catalog \in Seq(Resources)
    BY DEF BZInv, CatalogOK
  <2>2. \A i \in 1..Len(catalog) : catalog[i] \in Resources
    BY <2>1
  <2>. QED BY <1>2, <2>2 DEF Page
<1>4. PICK new \in SUBSET Resources : new = page \ (Malformed \union q.done)
  BY <1>3
<1>5. q.offset \in Nat /\ q.total \in Nat \union {NoTotal} /\ q.pass \in 1..(MaxPass + 1) /\ q.done \subseteq Resources
  BY DEF PollRecords
<1>6. PICK total \in Nat : total = IF q.total = NoTotal THEN Len(catalog) ELSE q.total
  BY <1>5 DEF BZInv, CatalogOK
<1>7. PICK next \in Nat : next = IF page = {} THEN q.offset ELSE q.offset + PAGE_SIZE
  BY <1>5
<1>8. PICK at \in {"closing", "idle", "fetching"} :
        at = IF next >= total THEN "closing" ELSE IF page = {} THEN "idle" ELSE "fetching"
  OBVIOUS
<1>9. PICK after : after = [q EXCEPT !.offset = next, !.total = total, !.done = @ \union new, !.at = at]
  OBVIOUS
<1>10. after = [at |-> at, offset |-> next, total |-> total, pass |-> q.pass, done |-> q.done \union new]
  BY <1>9 DEF PollRecords
<1>11. after \in PollRecords
  BY <1>5, <1>10 DEF PollRecords, Stages
<1>12. poll' = [poll EXCEPT ![p] = after]
  BY <1>1, <1>2, <1>4, <1>6, <1>7, <1>8, <1>9 DEF PageFetched
<1>13. poll' \in [Polls -> PollRecords] /\ poll'[p] = after /\ \A o \in Polls \ {p} : poll'[o] = poll[o]
  BY <1>11, <1>12, TypeParts
<1>14. q.pass <= MaxPass
  BY <1>1, <1>5 DEF PageFetched, BZInv, PassOK, TypeOK
<1>15. row' = [r \in Resources |-> IF r \in new THEN Stamped(r, q.pass) ELSE row[r]]
  BY <1>1, <1>2, <1>4 DEF PageFetched
<1>16. \A r \in Resources : Stamped(r, q.pass) \in RowRecords
  BY <1>5, <1>14 DEF Stamped, RowRecords
<1>17. row' \in [Resources -> RowRecords]
  BY <1>15, <1>16, TypeParts
<1>18. /\ offset' = (IF page = {} THEN offset ELSE next)
       /\ listed' = listed \union new
       /\ absent' = [r \in Resources |-> IF r \in new THEN 0 ELSE absent[r]]
  BY <1>1, <1>2, <1>4, <1>7 DEF PageFetched
<1>19. /\ \A r \in Resources : row'[r] = IF r \in new THEN Stamped(r, q.pass) ELSE row[r]
       /\ poll'[p].at = at /\ poll'[p].offset = next /\ poll'[p].total = total
       /\ poll'[p].pass = q.pass /\ poll'[p].done = q.done \union new
  BY <1>10, <1>13, <1>15
<1>20. PageIsRead(p, new, total, next, at)
  BY <1>1, <1>2, <1>4, <1>6, <1>7, <1>8, <1>13, <1>17, <1>18, <1>19 DEF PageIsRead
<1>. QED BY <1>20

LEMMA PageFetchedInv ==
  ASSUME BZInv, NEW p \in Polls, PageFetched(p) PROVE BZInv'
<1>1. PICK new \in SUBSET Resources, total \in Nat, next \in Nat, at \in {"closing", "idle", "fetching"} :
        PageIsRead(p, new, total, next, at)
  BY PageRead
<1>2. offset' \in Nat /\ absent' \in [Resources -> Nat] /\ listed' \subseteq Resources
  BY <1>1 DEF PageIsRead, BZInv, TypeOK
<1>3. TypeOK'
  BY <1>1, <1>2 DEF PageIsRead, PageFetched, BZInv, TypeOK, RowRecords, PollRecords
<1>4. PassOK'
  <2>1. /\ poll[p].at = "fetching" /\ ~Closing /\ passId <= MaxPass /\ passId' = passId /\ logged' = logged
    BY DEF PageFetched
  <2>2. poll[p].pass <= passId
    BY <2>1 DEF BZInv, PassOK
  <2>3. \A q \in Polls : poll[q].at \notin ClosingStages
    BY <2>1 DEF Closing, ClosingStages
  <2>4. \A r \in Resources : row'[r].seen <= passId
    <3>1. \A r \in Resources : row[r].seen <= passId
      BY DEF BZInv, PassOK
    <3>. QED BY <1>1, <2>2, <3>1 DEF PageIsRead, Stamped
  <2>5. \A q \in Polls : poll'[q].pass = poll[q].pass /\ (poll'[q].at # "idle" => poll[q].at # "idle")
    BY <1>1, <2>1 DEF PageIsRead
  <2>6. \A q \in Polls : poll'[q].at \in ClosingStages => q = p
    BY <1>1, <2>3 DEF PageIsRead
  <2>. QED BY <2>1, <2>4, <2>5, <2>6 DEF BZInv, PassOK
<1>5. CatalogOK'
  BY DEF PageFetched, BZInv, CatalogOK
<1>. QED BY <1>3, <1>4, <1>5 DEF BZInv

LEMMA ClosingInv ==
  ASSUME BZInv, NEW p \in Polls,
         FetchFailed(p) \/ ResetOffset(p) \/ DateFullPass(p) \/ LogPass(p) \/ NextPass(p)
  PROVE  BZInv'
<1>. USE PassAssumption
<1>1. CatalogOK'
  BY DEF BZInv, CatalogOK, FetchFailed, ResetOffset, DateFullPass, LogPass, NextPass
<1>2. logged \subseteq 1..passId /\ passId \in 1..(MaxPass + 1) /\ row \in [Resources -> RowRecords]
  BY TypeParts DEF BZInv, TypeOK, PassOK
<1>3. CASE FetchFailed(p)
  <2>1. "idle" \in Stages /\ Goto(p, "idle") /\ UNCHANGED <<row, passId, logged>>
    BY <1>3 DEF FetchFailed, Stages, db
  <2>2. poll' \in [Polls -> PollRecords] /\ PassOK'
    BY <1>2, <2>1, StageKeepsPass
  <2>3. TypeOK'
    BY <1>3, <2>2 DEF BZInv, TypeOK, FetchFailed, db, history, PollRecords
  <2>. QED BY <1>1, <2>2, <2>3 DEF BZInv
<1>4. CASE ResetOffset(p)
  <2>1. "dating" \in Stages /\ Goto(p, "dating") /\ poll[p].at \in ClosingStages /\ UNCHANGED <<row, passId, logged>>
    BY <1>4 DEF ResetOffset, Stages, ClosingStages
  <2>2. poll' \in [Polls -> PollRecords] /\ PassOK'
    BY <1>2, <2>1, StageKeepsPass
  <2>3. TypeOK'
    BY <1>4, <2>2 DEF BZInv, TypeOK, ResetOffset, history, PollRecords
  <2>. QED BY <1>1, <2>2, <2>3 DEF BZInv
<1>5. CASE DateFullPass(p)
  <2>1. "marking" \in Stages /\ Goto(p, "marking") /\ poll[p].at \in ClosingStages /\ UNCHANGED <<row, passId, logged>>
    BY <1>5 DEF DateFullPass, Stages, ClosingStages
  <2>2. poll' \in [Polls -> PollRecords] /\ PassOK'
    BY <1>2, <2>1, StageKeepsPass
  <2>3. TypeOK'
    BY <1>5, <2>2 DEF BZInv, TypeOK, DateFullPass, history, PollRecords
  <2>. QED BY <1>1, <2>2, <2>3 DEF BZInv
<1>6. CASE LogPass(p)
  <2>1. poll[p].at \in ClosingStages
    BY <1>6 DEF LogPass, Stages, ClosingStages
  <2>2. passId <= MaxPass
    BY <2>1 DEF BZInv, PassOK
  <2>3. /\ logged' \subseteq 1..passId /\ logged' \subseteq 1..MaxPass /\ complete' \subseteq logged'
        /\ absent' \in [Resources -> Nat]
    <3>1. logged \subseteq 1..MaxPass /\ complete \subseteq logged /\ absent \in [Resources -> Nat]
      BY DEF BZInv, TypeOK
    <3>2. passId \in 1..MaxPass /\ passId \in 1..passId
      BY <1>2, <2>2
    <3>3. \/ UNCHANGED <<logged, complete, absent>>
          \/ /\ logged' = logged \union {passId}
             /\ complete' = complete \/ complete' = complete \union {passId}
             /\ absent' = [r \in Resources |->
                             IF IsComplete(p) /\ r \notin listed THEN absent[r] + 1 ELSE absent[r]]
      BY <1>6 DEF LogPass
    <3>4. absent' \in [Resources -> Nat]
      BY <3>1, <3>3
    <3>5. logged' \subseteq logged \union {passId} /\ complete' \subseteq logged'
      BY <3>1, <3>3
    <3>. QED BY <1>2, <3>1, <3>2, <3>4, <3>5
  <2>4. PICK stage \in {"idle", "bumping"} : Goto(p, stage)
    BY <1>6 DEF LogPass
  <2>5. stage \in Stages /\ UNCHANGED <<row, passId>>
    BY <1>6 DEF LogPass, Stages
  <2>6. poll' \in [Polls -> PollRecords] /\ PassOK'
    BY <1>2, <2>1, <2>3, <2>4, <2>5, StageKeepsPass
  <2>7. TypeOK'
    BY <1>6, <2>3, <2>6 DEF BZInv, TypeOK, LogPass, PollRecords
  <2>. QED BY <1>1, <2>6, <2>7 DEF BZInv
<1>7. CASE NextPass(p)
  <2>1. "idle" \in Stages /\ Goto(p, "idle") /\ poll[p].at \in ClosingStages
    BY <1>7 DEF NextPass, Stages, ClosingStages
  <2>2. /\ poll' \in [Polls -> PollRecords]
        /\ \A q \in Polls : /\ poll'[q].at = (IF q = p THEN "idle" ELSE poll[q].at)
                            /\ poll'[q].pass = poll[q].pass
    BY <2>1, WentTo, TypeParts
  <2>3. passId' = passId + 1 /\ passId <= MaxPass /\ UNCHANGED <<row, logged>>
    BY <1>7, <2>1 DEF NextPass, BZInv, PassOK
  <2>4. \A q \in Polls : poll'[q].at \notin ClosingStages
    BY <2>1, <2>2 DEF BZInv, PassOK, ClosingStages
  <2>5. PassOK'
    <3>1. \A q \in Polls : poll'[q].at # "idle" => poll'[q].pass <= passId'
      <4>1. SUFFICES ASSUME NEW q \in Polls, poll'[q].at # "idle" PROVE poll'[q].pass <= passId'
        OBVIOUS
      <4>2. poll[q].at # "idle" /\ poll'[q].pass = poll[q].pass
        BY <2>2, <4>1
      <4>3. poll[q].pass <= passId /\ poll[q].pass \in Int
        BY <4>2, TypeParts DEF BZInv, PassOK, PollRecords
      <4>. QED BY <1>2, <2>3, <4>2, <4>3
    <3>2. \A r \in Resources : row'[r].seen <= passId'
      <4>1. SUFFICES ASSUME NEW r \in Resources PROVE row[r].seen <= passId + 1
        BY <2>3
      <4>2. row[r].seen <= passId /\ row[r].seen \in Int
        BY TypeParts DEF BZInv, PassOK, RowRecords
      <4>. QED BY <1>2, <4>2
    <3>3. logged' \subseteq 1..passId'
      BY <1>2, <2>3
    <3>. QED BY <2>4, <3>1, <3>2, <3>3 DEF PassOK
  <2>6. (ToSet(catalog) \subseteq Resources)'
    BY <1>1 DEF CatalogOK, ToSet
  <2>7. passId' \in 1..(MaxPass + 1) /\ steady' \subseteq Resources /\ listed' = {} /\ moved' = FALSE
    <3>1. steady' = ToSet(catalog) /\ catalog' = catalog /\ listed' = {} /\ moved' = FALSE
      BY <1>7 DEF NextPass
    <3>. QED BY <1>2, <2>3, <2>6, <3>1
  <2>8. TypeOK'
    BY <1>7, <2>2, <2>7 DEF BZInv, TypeOK, NextPass, PollRecords
  <2>. QED BY <1>1, <2>5, <2>8 DEF BZInv
<1>. QED BY <1>3, <1>4, <1>5, <1>6, <1>7

LEMMA MarkInv ==
  ASSUME BZInv, NEW p \in Polls, MarkMissing(p) \/ RetireAbsent(p) PROVE BZInv'
<1>1. CatalogOK'
  BY DEF BZInv, CatalogOK, MarkMissing, RetireAbsent
<1>2. poll[p].at \in ClosingStages /\ UNCHANGED <<passId, logged>>
  BY DEF MarkMissing, RetireAbsent, ClosingStages, Stages
<1>3. \A r \in Resources : /\ Missing(r) \in RowRecords /\ Missing(r).seen = row[r].seen
                           /\ Retired(r) \in RowRecords /\ Retired(r).seen = row[r].seen
  <2>1. \A r \in Resources : row[r] \in RowRecords
    BY TypeParts
  <2>. QED BY <2>1 DEF Missing, Retired, RowRecords
<1>4. row' \in [Resources -> RowRecords] /\ poll' \in [Polls -> PollRecords] /\ PassOK'
  <2>1. CASE MarkMissing(p)
    <3>. DEFINE unmarked == {r \in Absent(passId) : IsComplete(p) /\ ~row[r].missing}
    <3>1. Chunk(p, unmarked, [r \in unmarked |-> Missing(r)], "retiring")
      BY <2>1 DEF MarkMissing
    <3>2. unmarked \subseteq Resources /\ "retiring" \in Stages
      BY DEF Absent, Stages
    <3>3. PICK targets \in SUBSET Resources : targets = unmarked
      BY <3>2
    <3>4. PICK updated : updated = [r \in targets |-> Missing(r)]
      OBVIOUS
    <3>5. \A r \in targets : updated[r] \in RowRecords /\ updated[r].seen = row[r].seen
      BY <1>3, <3>4
    <3>6. Chunk(p, targets, updated, "retiring")
      BY <3>1, <3>3, <3>4
    <3>. QED BY ZenonT(40), <1>2, <3>2, <3>5, <3>6, ChunkKeeps
  <2>2. CASE RetireAbsent(p)
    <3>. DEFINE gone == {r \in Resources : IsComplete(p) /\ \E horizon \in Horizon : r \in Absent(horizon)}
    <3>1. Chunk(p, gone, [r \in gone |-> Retired(r)], "logging")
      BY <2>2 DEF RetireAbsent
    <3>2. gone \subseteq Resources /\ "logging" \in Stages
      BY DEF Stages
    <3>3. PICK targets \in SUBSET Resources : targets = gone
      BY <3>2
    <3>4. PICK updated : updated = [r \in targets |-> Retired(r)]
      OBVIOUS
    <3>5. \A r \in targets : updated[r] \in RowRecords /\ updated[r].seen = row[r].seen
      BY <1>3, <3>4
    <3>6. Chunk(p, targets, updated, "logging")
      BY <3>1, <3>3, <3>4
    <3>. QED BY ZenonT(40), <1>2, <3>2, <3>5, <3>6, ChunkKeeps
  <2>. QED BY <2>1, <2>2
<1>5. TypeOK'
  BY <1>4 DEF MarkMissing, RetireAbsent, BZInv, TypeOK, RowRecords, PollRecords, history
<1>. QED BY <1>1, <1>4, <1>5 DEF BZInv

LEMMA CrashInv == ASSUME BZInv, Crash PROVE BZInv'
<1>1. poll' = [p \in Polls |-> Idle] /\ Idle \in PollRecords
  BY PassAssumption DEF Crash, Idle, PollRecords, Stages
<1>2. TypeOK'
  BY <1>1, PassAssumption DEF Crash, BZInv, TypeOK, PollRecords, db, history
<1>3. PassOK' /\ CatalogOK'
  BY <1>1 DEF Crash, BZInv, PassOK, CatalogOK, db, history, Idle, ClosingStages
<1>. QED BY <1>2, <1>3 DEF BZInv

LEMMA BZNextInv == BZInv /\ [Next]_vars => BZInv'
<1>. SUFFICES ASSUME BZInv, [Next]_vars PROVE BZInv'
  OBVIOUS
<1>1. CASE UNCHANGED vars
  BY <1>1 DEF vars, BZInv, TypeOK, PassOK, CatalogOK
<1>2. ASSUME NEW r \in Resources, NEW i \in 1..(Len(catalog) + 1), Enlist(r, i) PROVE BZInv'
  BY <1>2, EnlistInv
<1>3. ASSUME NEW i \in 1..Len(catalog), Delist(i) PROVE BZInv'
  BY <1>3, DelistInv
<1>4. ASSUME NEW p \in Polls, NEW overdue \in BOOLEAN, PollStart(p, overdue) PROVE BZInv'
  BY <1>4, PollStartInv
<1>5. ASSUME NEW p \in Polls, PageFetched(p) PROVE BZInv'
  BY <1>5, PageFetchedInv
<1>6. ASSUME NEW p \in Polls,
             FetchFailed(p) \/ ResetOffset(p) \/ DateFullPass(p) \/ LogPass(p) \/ NextPass(p)
      PROVE  BZInv'
  BY <1>6, ClosingInv
<1>7. ASSUME NEW p \in Polls, MarkMissing(p) \/ RetireAbsent(p) PROVE BZInv'
  BY <1>7, MarkInv
<1>8. CASE Crash
  BY <1>8, CrashInv
<1>. QED BY <1>1, <1>2, <1>3, <1>4, <1>5, <1>6, <1>7, <1>8 DEF Next


----------------------------------------------------------------------------
(* Passes: what the stamp of a row tells, while no polls overlap *)

OnePoll == \A p, q \in Polls : p = q

LEMMA CompleteFinite ==
  ASSUME BZInv PROVE IsFiniteSet(complete) /\ complete \in SUBSET (0..passId)
                     /\ \A c \in complete : c \in Nat /\ c <= passId
<1>1. complete \subseteq 1..passId /\ passId \in Nat
  BY TypeParts DEF BZInv, TypeOK, PassOK
<1>2. IsFiniteSet(1..passId)
  BY <1>1, FS_Interval
<1>3. IsFiniteSet(complete)
  BY <1>1, <1>2, FS_Subset
<1>. QED BY <1>1, <1>3

LEMMA InitStamps == Init => StampsTell
<1>. SUFFICES ASSUME Init PROVE StampsTell
  OBVIOUS
<1>1. \A p \in Polls : poll[p].at = "idle"
  BY DEF Init, Idle
<1>2. passId = 1 /\ listed = {} /\ \A r \in Resources : row[r].seen = 0 /\ absent[r] = 0
  BY DEF Init
<1>3. \A r \in Resources : SeenSince(r) = {}
  BY DEF SeenSince, Init
<1>4. \A r \in Resources : absent[r] = Cardinality(SeenSince(r))
  BY <1>2, <1>3, FS_EmptySet
<1>5. \A r \in Resources : r \in listed <=> row[r].seen = passId
  BY <1>2
<1>. QED BY <1>1, <1>4, <1>5 DEF StampsTell

LEMMA PageStamps ==
  ASSUME BZInv, StampsTell, NEW p \in Polls, PageFetched(p) PROVE StampsTell'
<1>1. PICK new \in SUBSET Resources, total \in Nat, next \in Nat, at \in {"closing", "idle", "fetching"} :
        PageIsRead(p, new, total, next, at)
  BY PageRead
<1>2. poll[p].pass = passId /\ UNCHANGED <<passId, complete>>
  BY DEF PageFetched, StampsTell
<1>3. \A q \in Polls : poll'[q].at # "idle" => poll'[q].pass = passId
  BY <1>1, <1>2 DEF PageIsRead, StampsTell
<1>4. \A r \in Resources : row'[r].seen = IF r \in new THEN passId ELSE row[r].seen
  BY <1>1, <1>2 DEF PageIsRead, Stamped
<1>5. \A r \in Resources : r \in listed' <=> row'[r].seen = passId
  BY <1>1, <1>4 DEF PageIsRead, StampsTell
<1>6. ASSUME NEW r \in Resources PROVE absent'[r] = Cardinality(SeenSince(r)')
  <2>1. CASE r \in new
    <3>1. \A d \in complete : ~(d > passId)
      BY CompleteFinite, TypeParts
    <3>2. SeenSince(r)' = {}
      BY <1>2, <1>4, <2>1, <3>1 DEF SeenSince
    <3>. QED BY <1>1, <2>1, <3>2, FS_EmptySet DEF PageIsRead
  <2>2. CASE r \notin new
    <3>1. SeenSince(r)' = SeenSince(r)
      BY <1>2, <1>4, <2>2 DEF SeenSince
    <3>. QED BY <1>1, <2>2, <3>1 DEF PageIsRead, StampsTell
  <2>. QED BY <2>1, <2>2
<1>. QED BY <1>2, <1>3, <1>5, <1>6 DEF StampsTell

(* A pass that is logged is one more complete pass since every row it did not list. *)
LEMMA LogStamps ==
  ASSUME BZInv, StampsTell, NEW p \in Polls, LogPass(p) PROVE StampsTell'
<1>1. UNCHANGED <<row, listed, passId>>
  BY DEF LogPass
<1>2. \A q \in Polls : poll'[q].pass = poll[q].pass /\ (poll'[q].at # "idle" => poll[q].at # "idle")
  <2>1. PICK stage \in {"idle", "bumping"} : Goto(p, stage)
    BY DEF LogPass
  <2>2. stage \in Stages /\ poll[p].at # "idle"
    BY DEF Stages, LogPass
  <2>. QED BY <2>1, <2>2, WentTo, TypeParts
<1>3. ASSUME NEW r \in Resources PROVE absent'[r] = Cardinality(SeenSince(r)')
  <2>1. CASE complete' = complete /\ absent' = absent
    BY <2>1, <1>1 DEF SeenSince, StampsTell
  <2>2. CASE passId \notin logged /\ IsComplete(p)
    <3>1. /\ complete' = complete \union {passId} /\ passId \notin complete
          /\ absent'[r] = IF r \notin listed THEN absent[r] + 1 ELSE absent[r]
      BY <2>2 DEF LogPass, BZInv, TypeOK
    <3>2. row[r].seen <= passId /\ row[r].seen \in Int /\ passId \in Int
      BY TypeParts DEF BZInv, PassOK, RowRecords
    <3>3. CASE r \in listed
      <4>1. row[r].seen = passId
        BY <3>3 DEF StampsTell
      <4>2. SeenSince(r)' = SeenSince(r)
        BY <1>1, <3>1, <3>2, <4>1 DEF SeenSince
      <4>. QED BY <3>1, <3>3, <4>2 DEF StampsTell
    <3>4. CASE r \notin listed
      <4>1. passId > row[r].seen
        BY <3>2, <3>4 DEF StampsTell
      <4>2. SeenSince(r)' = SeenSince(r) \union {passId} /\ passId \notin SeenSince(r)
        BY <1>1, <3>1, <4>1 DEF SeenSince
      <4>3. IsFiniteSet(SeenSince(r))
        BY CompleteFinite, FS_Subset DEF SeenSince
      <4>4. Cardinality(SeenSince(r) \union {passId}) = Cardinality(SeenSince(r)) + 1
        BY <4>2, <4>3, FS_AddElement
      <4>. QED BY <3>1, <3>4, <4>2, <4>4 DEF StampsTell
    <3>. QED BY <3>3, <3>4
  <2>3. CASE passId \notin logged /\ ~IsComplete(p)
    <3>1. complete' = complete /\ absent' = [q \in Resources |-> absent[q]]
      BY <2>3 DEF LogPass
    <3>. QED BY <3>1, <1>1 DEF SeenSince, StampsTell
  <2>4. CASE passId \in logged
    BY <2>1, <2>4 DEF LogPass
  <2>. QED BY <2>2, <2>3, <2>4
<1>. QED BY <1>1, <1>2, <1>3 DEF StampsTell

LEMMA NextPassStamps ==
  ASSUME OnePoll, BZInv, StampsTell, NEW p \in Polls, NextPass(p) PROVE StampsTell'
<1>1. passId' = passId + 1 /\ listed' = {} /\ UNCHANGED <<row, complete, absent>>
  BY DEF NextPass
<1>2. \A q \in Polls : poll'[q].at = "idle"
  BY WentTo, TypeParts DEF OnePoll, NextPass, Stages
<1>3. \A r \in Resources : row[r].seen # passId + 1
  <2>1. SUFFICES ASSUME NEW r \in Resources PROVE row[r].seen # passId + 1
    OBVIOUS
  <2>2. row[r].seen <= passId /\ row[r].seen \in Int /\ passId \in Int
    BY TypeParts DEF BZInv, PassOK, RowRecords
  <2>. QED BY <2>2
<1>4. \A r \in Resources : SeenSince(r)' = SeenSince(r)
  BY <1>1 DEF SeenSince
<1>. QED BY <1>1, <1>2, <1>3, <1>4 DEF StampsTell

(* Marking and retiring a row leave the pass that listed it. *)
LEMMA ChunkStamps ==
  ASSUME BZInv, StampsTell, NEW p \in Polls, poll[p].at # "idle", NEW stage \in Stages, NEW targets \in SUBSET Resources,
         NEW updated, \A r \in targets : updated[r].seen = row[r].seen,
         Chunk(p, targets, updated, stage), UNCHANGED <<passId, listed, complete, absent>>
  PROVE  StampsTell'
<1>1. \A r \in Resources : row'[r].seen = row[r].seen
  BY TypeParts DEF Chunk
<1>2. \A q \in Polls : poll'[q].pass = poll[q].pass /\ (poll'[q].at # "idle" => poll[q].at # "idle")
  BY WentTo, TypeParts DEF Chunk
<1>3. \A r \in Resources : SeenSince(r)' = SeenSince(r)
  BY <1>1 DEF SeenSince
<1>. QED BY <1>1, <1>2, <1>3 DEF StampsTell

LEMMA StampsNext ==
  ASSUME OnePoll PROVE BZInv /\ StampsTell /\ [Next]_vars => StampsTell'
<1>. SUFFICES ASSUME BZInv, StampsTell, [Next]_vars PROVE StampsTell'
  OBVIOUS
<1>. DEFINE Rest == UNCHANGED <<row, passId, listed, complete, absent>>
<1>0. ASSUME Rest, \A q \in Polls : poll'[q].at # "idle" => poll'[q].pass = passId
      PROVE  StampsTell'
  BY <1>0 DEF StampsTell, SeenSince
<1>1. CASE UNCHANGED vars
  BY <1>0, <1>1 DEF vars, StampsTell
<1>2. ASSUME NEW s, NEW inPlace, Lists(s, inPlace) PROVE StampsTell'
  BY <1>0, <1>2 DEF Lists, db, StampsTell
<1>3. ASSUME NEW p \in Polls, NEW overdue \in BOOLEAN, PollStart(p, overdue) PROVE StampsTell'
  <2>1. Rest
    BY <1>3 DEF PollStart, history
  <2>2. \A q \in Polls : poll'[q].at # "idle" => poll'[q].pass = passId
    BY <1>3, PollStarted DEF StampsTell
  <2>. QED BY <1>0, <2>1, <2>2
<1>4. ASSUME NEW p \in Polls, PageFetched(p) PROVE StampsTell'
  BY <1>4, PageStamps
<1>5. ASSUME NEW p \in Polls, FetchFailed(p) \/ ResetOffset(p) \/ DateFullPass(p) PROVE StampsTell'
  <2>1. Rest
    BY <1>5 DEF FetchFailed, ResetOffset, DateFullPass, db, history
  <2>2. PICK stage \in {"idle", "dating", "marking"} : Goto(p, stage)
    BY <1>5 DEF FetchFailed, ResetOffset, DateFullPass
  <2>3. stage \in Stages /\ poll[p].at # "idle"
    BY <1>5 DEF FetchFailed, ResetOffset, DateFullPass, Stages
  <2>4. \A q \in Polls : poll'[q].at # "idle" => poll'[q].pass = passId
    BY <2>2, <2>3, WentTo, TypeParts DEF StampsTell
  <2>. QED BY <1>0, <2>1, <2>4
<1>6. ASSUME NEW p \in Polls, MarkMissing(p) PROVE StampsTell'
  <2>. DEFINE unmarked == {r \in Absent(passId) : IsComplete(p) /\ ~row[r].missing}
  <2>1. Chunk(p, unmarked, [r \in unmarked |-> Missing(r)], "retiring") /\ poll[p].at # "idle"
    BY <1>6 DEF MarkMissing
  <2>2. UNCHANGED <<passId, listed, complete, absent>> /\ "retiring" \in Stages
    BY <1>6 DEF MarkMissing, history, Stages
  <2>3. PICK targets \in SUBSET Resources : targets = unmarked
    BY DEF Absent
  <2>4. PICK updated : updated = [r \in targets |-> Missing(r)]
    OBVIOUS
  <2>5. \A r \in targets : updated[r].seen = row[r].seen
    BY <2>4, TypeParts DEF Missing, RowRecords
  <2>6. Chunk(p, targets, updated, "retiring")
    BY <2>1, <2>3, <2>4
  <2>. QED BY <2>1, <2>2, <2>5, <2>6, ChunkStamps
<1>7. ASSUME NEW p \in Polls, RetireAbsent(p) PROVE StampsTell'
  <2>. DEFINE gone == {r \in Resources : IsComplete(p) /\ \E horizon \in Horizon : r \in Absent(horizon)}
  <2>1. Chunk(p, gone, [r \in gone |-> Retired(r)], "logging") /\ poll[p].at # "idle"
    BY <1>7 DEF RetireAbsent
  <2>2. UNCHANGED <<passId, listed, complete, absent>> /\ "logging" \in Stages
    BY <1>7 DEF RetireAbsent, history, Stages
  <2>3. PICK targets \in SUBSET Resources : targets = gone
    OBVIOUS
  <2>4. PICK updated : updated = [r \in targets |-> Retired(r)]
    OBVIOUS
  <2>5. \A r \in targets : updated[r].seen = row[r].seen
    BY <2>4, TypeParts DEF Retired, RowRecords
  <2>6. Chunk(p, targets, updated, "logging")
    BY <2>1, <2>3, <2>4
  <2>. QED BY <2>1, <2>2, <2>5, <2>6, ChunkStamps
<1>8. ASSUME NEW p \in Polls, LogPass(p) PROVE StampsTell'
  BY <1>8, LogStamps
<1>9. ASSUME NEW p \in Polls, NextPass(p) PROVE StampsTell'
  BY <1>9, NextPassStamps
<1>10. CASE Crash
  BY <1>0, <1>10 DEF Crash, db, history, Idle
<1>. QED BY <1>1, <1>2, <1>3, <1>4, <1>5, <1>6, <1>7, <1>8, <1>9, <1>10 DEF Next, Enlist, Delist

(* An active row is older than the horizon exactly if RETIRE_AFTER - 1 complete
   passes have been logged since the one that listed it. *)
LEMMA OlderThanHorizon ==
  ASSUME BZInv, StampsTell, NEW r \in Resources
  PROVE  (\E horizon \in Horizon : row[r].seen < horizon) <=> r \notin listed /\ absent[r] + 1 >= RETIRE_AFTER
<1>. USE PassAssumption
<1>1. /\ row[r].seen \in Nat /\ passId \in Nat /\ row[r].seen <= passId
      /\ IsFiniteSet(complete) /\ \A c \in complete : c \in Nat /\ c <= passId
  BY TypeParts, CompleteFinite DEF RowRecords, BZInv, PassOK
<1>2. absent[r] = Cardinality(SeenSince(r)) /\ absent[r] \in Nat
  BY DEF StampsTell, BZInv, TypeOK
<1>3. ASSUME NEW horizon \in Horizon, row[r].seen < horizon
      PROVE  r \notin listed /\ absent[r] + 1 >= RETIRE_AFTER
  <2>1. horizon \in complete /\ Cardinality({d \in complete : d >= horizon}) = RETIRE_AFTER - 1
    BY DEF Horizon
  <2>2. r \notin listed
    BY <1>1, <1>3, <2>1 DEF StampsTell
  <2>3. {d \in complete : d >= horizon} \subseteq SeenSince(r)
    BY <1>1, <1>3, <2>1 DEF SeenSince
  <2>4. IsFiniteSet(SeenSince(r))
    BY <1>1, FS_Subset DEF SeenSince
  <2>5. Cardinality({d \in complete : d >= horizon}) <= Cardinality(SeenSince(r))
    BY <2>3, <2>4, FS_Subset
  <2>. QED BY <1>2, <2>1, <2>2, <2>5
<1>4. ASSUME absent[r] + 1 >= RETIRE_AFTER
      PROVE  \E horizon \in Horizon : row[r].seen < horizon
  <2>1. PICK k \in Nat \ {0} : k = RETIRE_AFTER - 1
    OBVIOUS
  <2>2. Cardinality({d \in complete : d > row[r].seen}) >= k
    BY <1>2, <1>4, <2>1 DEF SeenSince
  <2>3. complete \in SUBSET (0..passId)
    BY CompleteFinite
  <2>4. PICK h \in complete : h > row[r].seen /\ Cardinality({d \in complete : d >= h}) = k
    <3>0. PICK n \in Nat : n = passId
      BY <1>1
    <3>1. PICK C \in SUBSET (0..n) : C = complete
      BY <2>3, <3>0
    <3>2. PICK s \in Nat : s = row[r].seen
      BY <1>1
    <3>3. Cardinality(Over(C, s)) >= k
      BY <2>2, <3>1, <3>2 DEF Over
    <3>4. \E h \in C : h > s /\ Cardinality(From(C, h)) = k
      BY <3>3, KthGreatest
    <3>. QED BY <3>1, <3>2, <3>4 DEF From
  <2>5. h \in Horizon
    BY <2>1, <2>4 DEF Horizon
  <2>. QED BY <1>1, <2>4, <2>5
<1>. QED BY <1>3, <1>4

(* A pass retires exactly the rows that RETIRE_AFTER complete passes in a row,
   itself included, did not list (bazaar-presence.js), whatever polls were
   resumed, cut short or lost in a crash, as long as one poll is over before the
   next starts. *)
THEOREM RetirementsAreExact == ASSUME OnePoll PROVE Spec => RetiresExactly
<1>. DEFINE Exact ==
       \A p \in Polls, r \in Resources :
         poll[p].at = "retiring" /\ row[r].status = "active" =>
           /\ row'[r].status = "retired" => Due(p, r)
           /\ poll'[p].at = "logging" => ~Due(p, r)
<1>1. BZInv /\ StampsTell /\ [Next]_vars => [Exact]_vars
  <2>. SUFFICES ASSUME BZInv, StampsTell, Next, NEW p \in Polls, NEW r \in Resources,
                       poll[p].at = "retiring", row[r].status = "active"
                PROVE  /\ row'[r].status = "retired" => Due(p, r)
                       /\ poll'[p].at = "logging" => ~Due(p, r)
    OBVIOUS
  <2>1. Closing /\ \A q \in Polls : q = p
    BY DEF Closing, OnePoll
  <2>2. CASE RetireAbsent(p)
    <3>. DEFINE gone == {q \in Resources : IsComplete(p) /\ \E horizon \in Horizon : q \in Absent(horizon)}
    <3>1. Chunk(p, gone, [q \in gone |-> Retired(q)], "logging")
      BY <2>2 DEF RetireAbsent
    <3>2. r \in gone <=> Due(p, r)
      BY OlderThanHorizon DEF Absent, Due
    <3>3. CASE \E q \in gone : row' = [row EXCEPT ![q] = [x \in gone |-> Retired(x)][q]] /\ UNCHANGED poll
      <4>1. PICK q \in gone : row' = [row EXCEPT ![q] = Retired(q)] /\ poll' = poll
        BY <3>3
      <4>2. r # q => row'[r] = row[r]
        BY <4>1, TypeParts
      <4>. QED BY <3>2, <4>1, <4>2
    <3>4. CASE gone = {} /\ UNCHANGED row
      BY <3>2, <3>4
    <3>. QED BY <3>1, <3>3, <3>4 DEF Chunk
  <2>3. CASE ~RetireAbsent(p)
    <3>1. ASSUME NEW q \in Polls
          PROVE  /\ \A overdue \in BOOLEAN : ~PollStart(q, overdue)
                 /\ ~PageFetched(q) /\ ~FetchFailed(q) /\ ~ResetOffset(q) /\ ~DateFullPass(q)
                 /\ ~MarkMissing(q) /\ ~RetireAbsent(q) /\ ~LogPass(q) /\ ~NextPass(q)
      BY <2>1, <2>3 DEF PollStart, PageFetched, FetchFailed, ResetOffset, DateFullPass, MarkMissing, LogPass, NextPass
    <3>2. CASE \E q \in Resources, i \in 1..(Len(catalog) + 1) : Enlist(q, i)
      BY <3>2 DEF Enlist, Lists, db
    <3>3. CASE \E i \in 1..Len(catalog) : Delist(i)
      BY <3>3 DEF Delist, Lists, db
    <3>4. CASE Crash
      BY <3>4 DEF Crash, db, Idle
    <3>5. \/ \E q \in Resources, i \in 1..(Len(catalog) + 1) : Enlist(q, i)
          \/ \E i \in 1..Len(catalog) : Delist(i)
          \/ Crash
      BY <3>1 DEF Next
    <3>. QED BY <3>2, <3>3, <3>4, <3>5
  <2>. QED BY <2>2, <2>3
<1>2. BZInv /\ StampsTell /\ [Next]_vars => BZInv' /\ StampsTell'
  BY BZNextInv, StampsNext
<1>3. Init => BZInv /\ StampsTell
  BY InitBZInv, InitStamps
<1>4. Spec => [][Exact]_vars
  BY <1>1, <1>2, <1>3, PTL DEF Spec
<1>. QED BY <1>4 DEF RetiresExactly


----------------------------------------------------------------------------
(* Passes: nothing is skipped *)

LEMMA InitMissed == Init => NoneMissed
<1>. SUFFICES ASSUME Init PROVE NoneMissed
  OBVIOUS
<1>1. steady = ToSet(catalog) /\ offset = 0 /\ \A p \in Polls : poll[p].at = "idle"
  BY DEF Init, Idle
<1>2. \A i \in DOMAIN catalog : i \in Nat /\ i >= 1
  BY InitBZInv DEF BZInv, CatalogOK
<1>3. Covered(0)
  BY <1>2 DEF Covered
<1>. QED BY <1>1, <1>3 DEF NoneMissed, ClosingStages

(* The listing grows at its end: what was there all along stays where it is. *)
LEMMA AtTheEnd ==
  ASSUME BZInv, NoneMissed, NEW r \in Resources, Enlist(r, Len(catalog) + 1)
  PROVE  steady' = steady /\ \A i \in DOMAIN catalog' : catalog'[i] \in steady =>
           i \in DOMAIN catalog /\ catalog'[i] = catalog[i]
<1>1. catalog \in Seq(Resources) /\ IsInjective(catalog) /\ r \notin ToSet(catalog)
  BY DEF BZInv, CatalogOK, Enlist
<1>2. PICK n \in Nat : n = Len(catalog)
  BY <1>1
<1>3. PICK i \in 1..(Len(catalog) + 1) : i = Len(catalog) + 1
  BY <1>2
<1>4. catalog' = InsertAt(catalog, i, r) /\ steady' = steady \intersect ToSet(InsertAt(catalog, i, r))
  BY <1>3 DEF Enlist, Lists
<1>5. /\ catalog' \in Seq(Resources) /\ Len(catalog') = n + 1
      /\ ToSet(catalog') = ToSet(catalog) \union {r}
      /\ \A j \in 1..n : catalog'[j] = catalog[j]
      /\ catalog'[n + 1] = r
  BY <1>1, <1>2, <1>3, <1>4, InsertedAt
<1>6. steady \subseteq ToSet(catalog)
  BY DEF NoneMissed
<1>7. steady' = steady /\ r \notin steady
  BY <1>1, <1>4, <1>5, <1>6
<1>8. DOMAIN catalog' = 1..(n + 1) /\ DOMAIN catalog = 1..n
  BY <1>1, <1>2, <1>5
<1>. QED BY <1>5, <1>7, <1>8

LEMMA ListsMissed ==
  ASSUME BZInv, NoneMissed, NEW s, NEW inPlace, Lists(s, inPlace),
         inPlace => /\ steady' = steady
                    /\ \A i \in DOMAIN s : s[i] \in steady => i \in DOMAIN catalog /\ s[i] = catalog[i]
  PROVE  NoneMissed'
<1>1. catalog' = s /\ steady' = steady \intersect ToSet(s) /\ UNCHANGED <<poll, listed, offset>>
  BY DEF Lists, db
<1>2. moved' = (moved \/ ~inPlace)
  BY DEF Lists
<1>3. steady' \subseteq ToSet(catalog')
  BY <1>1
<1>4. ASSUME ~moved'
      PROVE  /\ \A n : Covered(n) => Covered(n)'
             /\ \A n : (\A i \in DOMAIN catalog : catalog[i] \in steady => i <= n)
                    => (\A i \in DOMAIN catalog' : catalog'[i] \in steady' => i <= n)
  <2>1. inPlace
    BY <1>2, <1>4
  <2>. QED BY <1>1, <2>1 DEF Covered
<1>5. ~moved' => ~moved
  BY <1>2
<1>. QED BY <1>1, <1>3, <1>4, <1>5 DEF NoneMissed

LEMMA EnlistMissed ==
  ASSUME BZInv, NoneMissed, NEW r \in Resources, NEW i \in 1..(Len(catalog) + 1), Enlist(r, i)
  PROVE  NoneMissed'
<1>1. Lists(InsertAt(catalog, i, r), i = Len(catalog) + 1)
  BY DEF Enlist
<1>2. PICK s : s = InsertAt(catalog, i, r)
  OBVIOUS
<1>3. catalog' = s
  BY <1>1, <1>2 DEF Lists
<1>4. PICK inPlace \in BOOLEAN : inPlace <=> i = Len(catalog) + 1
  OBVIOUS
<1>5. inPlace = (i = Len(catalog) + 1)
  BY <1>4
<1>6. Lists(s, inPlace)
  BY <1>1, <1>2, <1>5
<1>7. ASSUME inPlace
      PROVE  /\ steady' = steady
             /\ \A j \in DOMAIN s : s[j] \in steady => j \in DOMAIN catalog /\ s[j] = catalog[j]
  <2>1. Enlist(r, Len(catalog) + 1)
    BY <1>4, <1>7
  <2>. QED BY <1>3, <2>1, AtTheEnd
<1>. QED BY <1>6, <1>7, ListsMissed

LEMMA CoveredFromStart == ASSUME BZInv PROVE Covered(0)
<1>1. \A i \in DOMAIN catalog : i \in Nat /\ i >= 1
  BY DEF BZInv, CatalogOK
<1>. QED BY <1>1 DEF Covered

(* The step from one page to the next leaves nothing of the page out. *)
LEMMA PageCovers ==
  ASSUME BZInv, NoneMissed, NEW p \in Polls, PageFetched(p), ~moved,
         NEW new \in SUBSET Resources, NEW total \in Nat, NEW next \in Nat, NEW at,
         PageIsRead(p, new, total, next, at)
  PROVE  Covered(next)' /\ \A i \in DOMAIN catalog : catalog[i] \in steady => i <= total
<1>1. /\ poll[p].at = "fetching" /\ catalog' = catalog /\ steady' = steady /\ listed' = listed \union new
      /\ catalog \in Seq(Resources)
  BY DEF PageFetched, PageIsRead, BZInv, CatalogOK
<1>2. PICK n \in Nat : n = Len(catalog) /\ DOMAIN catalog = 1..n
  BY <1>1
<1>3. PICK o \in Nat : o = poll[p].offset
  BY TypeParts DEF PollRecords
<1>4. Covered(o) /\ poll[p].done \subseteq listed
  BY <1>1, <1>3 DEF NoneMissed
<1>5. ASSUME NEW i \in 1..n, i <= next, catalog[i] \in steady
      PROVE  catalog[i] \in listed' \union Malformed
  <2>1. CASE i <= o
    BY <1>1, <1>2, <1>4, <1>5, <2>1 DEF Covered
  <2>2. CASE ~(i <= o)
    <3>1. next # o
      BY <1>5, <2>2
    <3>2. next = o + PAGE_SIZE /\ PAGE_SIZE \in Nat
      BY <1>3, <3>1, PassAssumption DEF PageIsRead
    <3>3. i \in (o + 1)..(o + PAGE_SIZE) \intersect 1..Len(catalog)
      BY <1>2, <1>5, <2>2, <3>2
    <3>4. catalog[i] \in Page(o)
      BY <3>3 DEF Page
    <3>5. catalog[i] \in new \/ catalog[i] \in Malformed \/ catalog[i] \in poll[p].done
      BY <1>3, <3>4 DEF PageIsRead
    <3>. QED BY <1>1, <1>4, <3>5
  <2>. QED BY <2>1, <2>2
<1>6. Covered(next)'
  BY <1>1, <1>2, <1>5 DEF Covered
<1>7. \A i \in DOMAIN catalog : catalog[i] \in steady => i <= total
  <2>1. CASE poll[p].total = NoTotal
    BY <1>2, <2>1 DEF PageIsRead
  <2>2. CASE poll[p].total # NoTotal
    BY <1>1, <2>2 DEF PageIsRead, NoneMissed
  <2>. QED BY <2>1, <2>2
<1>. QED BY <1>6, <1>7

LEMMA PageMissed ==
  ASSUME OnePoll, BZInv, NoneMissed, NEW p \in Polls, PageFetched(p) PROVE NoneMissed'
<1>1. PICK new \in SUBSET Resources, total \in Nat, next \in Nat, at \in {"closing", "idle", "fetching"} :
        PageIsRead(p, new, total, next, at)
  BY PageRead
<1>2. /\ poll[p].at = "fetching" /\ catalog' = catalog /\ steady' = steady /\ moved' = moved
      /\ listed' = listed \union new /\ \A q \in Polls : q = p
  BY <1>1 DEF PageFetched, PageIsRead, OnePoll
<1>3. /\ poll'[p].at = at /\ poll'[p].offset = next /\ poll'[p].total = total
      /\ poll'[p].done = poll[p].done \union new
      /\ offset' = offset \/ offset' = next
      /\ at = "closing" => next >= total
  BY <1>1 DEF PageIsRead
<1>4. poll'[p].done \subseteq listed'
  BY <1>2, <1>3 DEF NoneMissed
<1>5. ASSUME ~moved'
      PROVE  /\ Covered(offset)' /\ Covered(next)'
             /\ \A i \in DOMAIN catalog' : catalog'[i] \in steady' => i <= total
             /\ at = "closing" => steady' \ Malformed \subseteq listed'
  <2>1. Covered(next)' /\ \A i \in DOMAIN catalog : catalog[i] \in steady => i <= total
    BY <1>1, <1>2, <1>5, PageCovers
  <2>2. Covered(offset)'
    <3>1. CASE offset' = offset
      BY <1>2, <1>5, <3>1 DEF NoneMissed, Covered
    <3>2. CASE offset' = next
      BY <2>1, <3>2 DEF Covered
    <3>. QED BY <1>3, <3>1, <3>2
  <2>3. ASSUME at = "closing", NEW x \in steady \ Malformed PROVE x \in listed'
    <3>1. PICK i \in DOMAIN catalog : x = catalog[i]
      BY <2>3 DEF NoneMissed, ToSet
    <3>2. i <= total /\ i \in Nat
      BY <2>1, <2>3, <3>1 DEF BZInv, CatalogOK
    <3>3. i <= next
      BY <1>3, <2>3, <3>2
    <3>. QED BY <1>2, <2>1, <2>3, <3>1, <3>3 DEF Covered
  <2>. QED BY <1>2, <2>1, <2>2, <2>3
<1>6. steady' \subseteq ToSet(catalog')
  BY <1>2 DEF NoneMissed
<1>7. \A q \in Polls : poll'[q].at \notin ClosingStages \ {"closing"}
  BY <1>2, <1>3 DEF ClosingStages
<1>. QED BY <1>2, <1>3, <1>4, <1>5, <1>6, <1>7 DEF NoneMissed, ClosingStages, Covered

LEMMA StartMissed ==
  ASSUME OnePoll, BZInv, NoneMissed, NEW p \in Polls, NEW overdue \in BOOLEAN, PollStart(p, overdue)
  PROVE  NoneMissed'
<1>1. /\ \A q \in Polls : q = p
      /\ poll'[p].at = "fetching" /\ poll'[p].offset = offset' /\ poll'[p].total = NoTotal /\ poll'[p].done = {}
      /\ offset' = 0 \/ offset' = offset
  BY PollStarted DEF OnePoll
<1>2. UNCHANGED <<catalog, steady, listed, moved>>
  BY DEF PollStart, history
<1>3. ~moved' => Covered(offset)'
  <2>1. CASE offset' = 0
    BY <1>2, <2>1, CoveredFromStart DEF Covered
  <2>2. CASE offset' = offset
    BY <1>2, <2>2 DEF NoneMissed, Covered
  <2>. QED BY <1>1, <2>1, <2>2
<1>4. ASSUME NEW q \in Polls, ~moved' PROVE Covered(poll[q].offset)'
  <2>1. PICK n : n = offset'
    OBVIOUS
  <2>2. poll'[q].offset = n
    BY <1>1, <2>1
  <2>. QED BY <1>3, <1>4, <2>1, <2>2 DEF Covered
<1>. QED BY <1>1, <1>2, <1>3, <1>4 DEF NoneMissed, ClosingStages

(* A step of the closing changes nothing of this but the stage of the poll. *)
LEMMA StageMissed ==
  ASSUME OnePoll, BZInv, NoneMissed, NEW p \in Polls, NEW stage \in Stages, Goto(p, stage) \/ UNCHANGED poll,
         UNCHANGED <<catalog, steady, listed, moved>>,
         offset' = 0 \/ offset' = offset,
         poll[p].at \in ClosingStages \/ stage = "idle", stage \notin {"fetching", "closing"},
         stage \in ClosingStages => offset' = 0
  PROVE  NoneMissed'
<1>1. \A q \in Polls : q = p
  BY DEF OnePoll
<1>2. /\ poll'[p].at \in {poll[p].at, stage}
      /\ poll'[p].offset = poll[p].offset /\ poll'[p].total = poll[p].total
      /\ poll'[p].done = poll[p].done
  BY WentTo, TypeParts
<1>3. \A n : Covered(n)' <=> Covered(n)
  BY DEF Covered
<1>4. poll'[p].at # "idle" => poll[p].at # "idle"
  BY <1>2 DEF ClosingStages
<1>5. poll'[p].at \in ClosingStages => poll[p].at \in ClosingStages
  BY <1>2 DEF ClosingStages
<1>6. poll'[p].at \in ClosingStages \ {"closing"} => offset' = 0
  <2>1. poll[p].at \in ClosingStages \ {"closing"} => offset = 0
    BY DEF NoneMissed
  <2>. QED BY <1>2, <2>1
<1>7. poll'[p].at = "fetching" => poll[p].at = "fetching"
  BY <1>2
<1>8. ~moved' => Covered(offset')
  BY CoveredFromStart DEF NoneMissed
<1>. QED BY <1>1, <1>2, <1>3, <1>4, <1>5, <1>6, <1>7, <1>8 DEF NoneMissed, Covered

LEMMA MissedNext ==
  ASSUME OnePoll PROVE BZInv /\ NoneMissed /\ [Next]_vars => NoneMissed'
<1>. SUFFICES ASSUME BZInv, NoneMissed, [Next]_vars PROVE NoneMissed'
  OBVIOUS
<1>1. CASE UNCHANGED vars
  BY <1>1 DEF vars, NoneMissed, Covered
<1>2. ASSUME NEW r \in Resources, NEW i \in 1..(Len(catalog) + 1), Enlist(r, i) PROVE NoneMissed'
  BY <1>2, EnlistMissed
<1>3. ASSUME NEW i \in 1..Len(catalog), Delist(i) PROVE NoneMissed'
  <2>1. Lists(RemoveAt(catalog, i), FALSE)
    BY <1>3 DEF Delist
  <2>2. PICK inPlace : inPlace = FALSE
    OBVIOUS
  <2>. QED BY <2>1, <2>2, ListsMissed
<1>4. ASSUME NEW p \in Polls, NEW overdue \in BOOLEAN, PollStart(p, overdue) PROVE NoneMissed'
  BY <1>4, StartMissed
<1>5. ASSUME NEW p \in Polls, PageFetched(p) PROVE NoneMissed'
  BY <1>5, PageMissed
<1>6. ASSUME NEW p \in Polls, FetchFailed(p) PROVE NoneMissed'
  <2>1. "idle" \in Stages /\ Goto(p, "idle") /\ UNCHANGED <<catalog, steady, listed, moved, offset>>
    BY <1>6 DEF FetchFailed, Stages, db, history
  <2>2. "idle" \notin ClosingStages
    BY DEF ClosingStages
  <2>. QED BY <2>1, <2>2, StageMissed
<1>7. ASSUME NEW p \in Polls, ResetOffset(p) PROVE NoneMissed'
  <2>1. /\ "dating" \in Stages /\ Goto(p, "dating") /\ poll[p].at \in ClosingStages
        /\ offset' = 0 /\ UNCHANGED <<catalog, steady, listed, moved>>
    BY <1>7 DEF ResetOffset, Stages, ClosingStages, history
  <2>. QED BY <2>1, StageMissed
<1>8. ASSUME NEW p \in Polls, DateFullPass(p) \/ MarkMissing(p) \/ RetireAbsent(p) \/ LogPass(p) PROVE NoneMissed'
  <2>1. poll[p].at \in ClosingStages \ {"closing"} /\ UNCHANGED <<catalog, steady, listed, moved, offset>>
    BY <1>8 DEF DateFullPass, MarkMissing, RetireAbsent, LogPass, Stages, ClosingStages, history
  <2>2. offset = 0
    BY <2>1 DEF NoneMissed
  <2>3. PICK stage \in {"marking", "retiring", "logging", "bumping", "idle"} : Goto(p, stage) \/ UNCHANGED poll
    BY <1>8 DEF DateFullPass, MarkMissing, RetireAbsent, LogPass, Chunk
  <2>4. stage \in Stages
    BY DEF Stages
  <2>. QED BY <2>1, <2>2, <2>3, <2>4, StageMissed
<1>9. ASSUME NEW p \in Polls, NextPass(p) PROVE NoneMissed'
  <2>1. \A q \in Polls : poll'[q].at = "idle"
    BY <1>9, WentTo, TypeParts DEF OnePoll, NextPass, Stages
  <2>2. poll[p].at \in ClosingStages \ {"closing"}
    BY <1>9 DEF NextPass, Stages, ClosingStages
  <2>3. offset = 0 /\ offset' = offset /\ steady' = ToSet(catalog) /\ catalog' = catalog
    BY <1>9, <2>2 DEF NoneMissed, NextPass
  <2>4. Covered(0)'
    BY <2>3, CoveredFromStart DEF BZInv, CatalogOK, Covered
  <2>. QED BY <2>1, <2>3, <2>4 DEF NoneMissed, ClosingStages, Covered
<1>10. CASE Crash
  BY <1>10 DEF Crash, db, history, Idle, NoneMissed, Covered, ClosingStages
<1>. QED BY <1>1, <1>2, <1>3, <1>4, <1>5, <1>6, <1>7, <1>8, <1>9, <1>10 DEF Next

(* While the upstream only grows at its end, a complete pass has listed every
   resource that was there all along and can be normalized (bazaar.js), wherever
   its polls stopped and resumed, as long as one poll is over before the next starts. *)
THEOREM NothingIsSkipped == ASSUME OnePoll PROVE Spec => NothingSkipped
<1>. DEFINE Skips ==
       \A p \in Polls :
         poll[p].at = "logging" /\ IsComplete(p) /\ ~moved => steady \ Malformed \subseteq listed
<1>1. NoneMissed => Skips
  BY DEF NoneMissed, ClosingStages, Stages
<1>2. BZInv /\ NoneMissed /\ [Next]_vars => BZInv' /\ NoneMissed'
  BY BZNextInv, MissedNext
<1>3. Init => BZInv /\ NoneMissed
  BY InitBZInv, InitMissed
<1>4. Spec => [][Skips]_vars
  BY <1>1, <1>2, <1>3, PTL DEF Spec
<1>. QED BY <1>4 DEF NothingSkipped

----------------------------------------------------------------------------
(* The stored call *)

PCInv == PCTypeOK /\ StoredConfigAnswers

(* A call that finds the challenge finds it again with the method it ended with. *)
LEMMA MethodUsedAnswers ==
  ASSUME NEW method, NEW body, Challenged(method, body)
  PROVE  Challenged(MethodUsed(method, body), body)
<1>1. CASE Promoted(method, body)
  <2>1. MethodUsed(method, body) = "POST" /\ Answer(method, body) = site.post[body]
    BY <1>1 DEF MethodUsed, Answer
  <2>2. Answer("POST", body) = site.post[body]
    BY DEF Answer, Promoted, TriesPost, Fetched
  <2>. QED BY <2>1, <2>2 DEF Challenged
<1>2. CASE ~Promoted(method, body)
  BY <1>2 DEF MethodUsed
<1>. QED BY <1>1, <1>2

LEMMA MethodUsedIsMethod ==
  ASSUME NEW method \in Methods, NEW body
  PROVE  MethodUsed(method, body) \in Methods
BY ProbeConfigAssumption DEF MethodUsed

(* What the host says, when the registration asks it. *)
LEMMA DiscoveredCall ==
  ASSUME PCTypeOK, NEW call \in discoverProbeConfig
  PROVE  call.method \in Methods /\ call.body = "found"
<1>1. site.says \in Methods \cup {Unsaid}
  BY DEF PCTypeOK, Sites
<1>. QED BY <1>1 DEF discoverProbeConfig

(* What a registration keeps is the call that it validated. *)
LEMMA CallRegisteredInv ==
  ASSUME PCInv, NEW named \in Methods \cup {Unsaid}, NEW given \in {"{}", "own"}, Register(named, given)
  PROVE  PCInv'
<1>1. PICK direct : direct = IF named = Unsaid THEN "GET" ELSE named
  OBVIOUS
<1>2. PICK discovered \in BOOLEAN : discovered = Discovers(direct, given)
  BY DEF Discovers
<1>3. PICK stored : stored = StoredBody(given, discovered)
  OBVIOUS
<1>4. PICK body : body = IF stored = "{}" THEN config.body ELSE stored
  OBVIOUS
<1>5. PICK call \in IF discovered THEN discoverProbeConfig ELSE {[method |-> direct, body |-> given]} :
        /\ Challenged(call.method, call.body)
        /\ config' = [method |-> IF named = Unsaid THEN MethodUsed(call.method, call.body) ELSE named,
                      body |-> body]
        /\ assured' = ((stored # "{}" \/ config.body = "{}") /\ (discovered => named = Unsaid /\ given = "{}"))
        /\ site' = site
  BY <1>1, <1>2, <1>3, <1>4 DEF Register
<1>6. PICK method : method = IF named = Unsaid THEN MethodUsed(call.method, call.body) ELSE named
  OBVIOUS
<1>7. config' = [method |-> method, body |-> body]
  BY <1>6, <1>5
<1>8. direct \in Methods /\ stored \in Bodies /\ body \in Bodies
  BY <1>1, <1>3, <1>4, ProbeConfigAssumption DEF StoredBody, Bodies, PCInv, PCTypeOK
<1>9. call.method \in Methods /\ (discovered => call.body = "found") /\ (~discovered => call.method = direct /\ call.body = given)
  <2>1. CASE discovered
    BY <1>5, <2>1, DiscoveredCall DEF PCInv
  <2>2. CASE ~discovered
    <3>1. call = [method |-> direct, body |-> given]
      BY <1>5, <2>2
    <3>. QED BY <1>8, <2>2, <3>1
  <2>. QED BY <2>1, <2>2
<1>10. method \in Methods
  BY <1>6, <1>9, MethodUsedIsMethod
<1>11. PCTypeOK'
  <2>1. config' \in [method : Methods \cup {Unsaid}, body : Bodies]
    BY <1>7, <1>8, <1>10
  <2>2. assured' \in BOOLEAN
    BY <1>5
  <2>. QED BY <1>5, <2>1, <2>2 DEF PCInv, PCTypeOK, Sites
<1>12. ASSUME assured' PROVE Challenged(method, body)
  <2>1. (stored # "{}" \/ config.body = "{}") /\ (discovered => named = Unsaid /\ given = "{}")
    BY <1>5, <1>12
  <2>2. body = call.body
    <3>1. body = stored
      BY <2>1, <1>4
    <3>. QED BY <2>1, <3>1, <1>3, <1>9 DEF StoredBody
  <2>3. CASE named = Unsaid
    BY <2>2, <2>3, <1>6, <1>5, MethodUsedAnswers
  <2>4. CASE named # Unsaid
    BY <2>1, <2>2, <2>4, <1>1, <1>6, <1>5, <1>9
  <2>. QED BY <2>3, <2>4
<1>13. StoredConfigAnswers'
  <2>1. config'.method = method /\ config'.body = body
    BY <1>7
  <2>2. StoredConfigAnswers' <=> (assured' => Challenged(method, body))
    BY <1>5, <2>1 DEF StoredConfigAnswers, Challenged, Answer, Promoted, TriesPost, Fetched, Ours, Valid
  <2>. QED BY <1>12, <2>2
<1>. QED BY <1>11, <1>13 DEF PCInv

LEMMA CheckInv ==
  ASSUME PCInv, Check
  PROVE  PCInv'
<1>1. PICK m \in Methods, b \in Bodies : m = config.method /\ b = config.body
  BY DEF Check, PCInv, PCTypeOK
<1>2. PICK n : n = IF TriesPost(m, b) /\ Ours(site.post[b]) THEN "POST" ELSE m
  OBVIOUS
<1>3. config' = [method |-> n, body |-> b] /\ assured' = Challenged(m, b) /\ site' = site
  <2>1. config \in [method : Methods \cup {Unsaid}, body : Bodies]
    BY DEF PCInv, PCTypeOK
  <2>2. config' = [config EXCEPT !.method = n]
    BY <1>1, <1>2 DEF Check
  <2>. QED BY <1>1, <2>1, <2>2 DEF Check
<1>4. n \in Methods
  BY <1>1, <1>2, ProbeConfigAssumption
<1>5. assured' \in BOOLEAN
  BY <1>3 DEF Challenged
<1>6. PCTypeOK'
  BY <1>1, <1>3, <1>4, <1>5 DEF PCInv, PCTypeOK, Sites
<1>7. Challenged(m, b) => Challenged(n, b)
  <2>1. SUFFICES ASSUME Challenged(m, b), n # m PROVE Challenged(n, b)
    OBVIOUS
  <2>2. n = "POST" /\ TriesPost(m, b)
    BY <1>2, <2>1
  <2>3. Promoted(m, b)
    BY <2>1, <2>2 DEF Challenged, Answer, TriesPost
  <2>. QED BY <2>1, <2>2, <2>3, MethodUsedAnswers DEF MethodUsed
<1>8. StoredConfigAnswers'
  <2>1. config'.method = n /\ config'.body = b
    BY <1>3
  <2>2. StoredConfigAnswers' <=> (assured' => Challenged(n, b))
    BY <1>3, <2>1 DEF StoredConfigAnswers, Challenged, Answer, Promoted, TriesPost, Fetched, Ours, Valid
  <2>. QED BY <1>3, <1>7, <2>2
<1>. QED BY <1>6, <1>8 DEF PCInv

LEMMA PCInitInv == PCInit => PCInv
<1>1. SUFFICES ASSUME PCInit PROVE PCInv
  OBVIOUS
<1>2. site \in Sites /\ config = NoConfig /\ assured = FALSE
  BY <1>1 DEF PCInit
<1>3. NoConfig \in [method : Methods \cup {Unsaid}, body : Bodies]
  BY DEF NoConfig, Bodies
<1>. QED BY <1>2, <1>3 DEF PCInv, PCTypeOK, StoredConfigAnswers

LEMMA PCNextInv == PCInv /\ [PCNext]_pcVars => PCInv'
<1>. SUFFICES ASSUME PCInv, [PCNext]_pcVars PROVE PCInv'
  OBVIOUS
<1>1. CASE UNCHANGED pcVars
  BY <1>1 DEF pcVars, PCInv, PCTypeOK, Sites, StoredConfigAnswers, Challenged, Answer, Promoted,
              TriesPost, Fetched, Ours, Valid
<1>2. ASSUME NEW method \in Methods, NEW body \in Bodies, CatalogWrites(method, body)
      PROVE  PCInv'
  BY <1>2 DEF CatalogWrites, PCInv, PCTypeOK, Sites, StoredConfigAnswers
<1>. QED BY <1>1, <1>2, CallRegisteredInv, CheckInv DEF PCNext

(* routes/api/register.js, health/checker.js: the call that is kept for an
   endpoint is one that finds the challenge, whatever led there, while the host
   answers as it did, outside the two cases of README, section 4. *)
THEOREM StoredCallsAnswer == PCSpec => []StoredConfigAnswers
<1>1. PCInv => StoredConfigAnswers
  BY DEF PCInv
<1>. QED BY <1>1, PCInitInv, PCNextInv, PTL DEF PCSpec

----------------------------------------------------------------------------
(* Embeddings and the search *)

(* The semaphore's count and its queue agree with what the callers hold, and a
   page holds only rows that match the text. *)
Held == {r \in Ids : job[r] \in {"calling", "missing"}}
Waiting == {r \in Ids : job[r] = "waiting"}

SemaphoreOK ==
  /\ SlotsCounted
  /\ \A r \in Ids : svc[r] = "new" => job[r] = "none"

Searches ==
  {Off}
  \cup [at : {"embedding"}, page : SUBSET Lit, quiet : BOOLEAN]
  \cup [at : {"shown"}, page : SUBSET Lit, near : SUBSET Ids, quiet : BOOLEAN,
        candidates : SUBSET Ids, total : Nat]

SearchOK == search \in Searches /\ TotalCountsOnce

VIInv == VITypeOK /\ SemaphoreOK /\ SearchOK

----------------------------------------------------------------------------
(* A queue without repetitions, with one more at its end or one less at its head. *)
LEMMA QueueAppended ==
  ASSUME NEW S, NEW q \in Seq(S), NEW e \in S, IsInjective(q), e \notin ToSet(q)
  PROVE  /\ Append(q, e) \in Seq(S) /\ Append(q, e) # <<>> /\ Len(Append(q, e)) = Len(q) + 1
         /\ ToSet(Append(q, e)) = ToSet(q) \cup {e} /\ IsInjective(Append(q, e))
<1>1. /\ Append(q, e) \in Seq(S) /\ Append(q, e) # <<>> /\ Len(Append(q, e)) = Len(q) + 1
      /\ DOMAIN Append(q, e) = 1..(Len(q) + 1) /\ DOMAIN q = 1..Len(q) /\ Len(q) \in Nat
      /\ \A i \in 1..Len(q) : Append(q, e)[i] = q[i]
      /\ Append(q, e)[Len(q) + 1] = e
  OBVIOUS
<1>2. ToSet(Append(q, e)) = ToSet(q) \cup {e}
  BY <1>1 DEF ToSet
<1>3. \A i \in 1..Len(q) : q[i] # e
  BY <1>1 DEF ToSet
<1>4. IsInjective(Append(q, e))
  BY <1>1, <1>3 DEF IsInjective
<1>. QED BY <1>1, <1>2, <1>4

LEMMA QueueHeadless ==
  ASSUME NEW S, NEW q \in Seq(S), IsInjective(q), q # <<>>
  PROVE  /\ Head(q) \in S /\ Tail(q) \in Seq(S) /\ Len(Tail(q)) = Len(q) - 1
         /\ Head(q) \in ToSet(q) /\ ToSet(Tail(q)) = ToSet(q) \ {Head(q)}
         /\ IsInjective(Tail(q))
<1>1. /\ Tail(q) \in Seq(S) /\ Len(Tail(q)) = Len(q) - 1 /\ Len(q) \in Nat \ {0}
      /\ DOMAIN q = 1..Len(q) /\ DOMAIN Tail(q) = 1..(Len(q) - 1)
      /\ \A i \in 1..(Len(q) - 1) : Tail(q)[i] = q[i + 1]
      /\ Head(q) = q[1] /\ Head(q) \in S
  OBVIOUS
<1>2. Head(q) \in ToSet(q)
  BY <1>1 DEF ToSet
<1>3. IsInjective(Tail(q))
  BY <1>1 DEF IsInjective
<1>4. ToSet(Tail(q)) = ToSet(q) \ {Head(q)}
  <2>1. ASSUME NEW x \in ToSet(Tail(q)) PROVE x \in ToSet(q) /\ x # Head(q)
    <3>1. PICK i \in 1..(Len(q) - 1) : x = q[i + 1]
      BY <1>1, <2>1 DEF ToSet
    <3>. QED BY <1>1, <3>1 DEF ToSet, IsInjective
  <2>2. ASSUME NEW x \in ToSet(q), x # Head(q) PROVE x \in ToSet(Tail(q))
    <3>1. PICK i \in 1..Len(q) : x = q[i]
      BY <1>1 DEF ToSet
    <3>2. i - 1 \in 1..(Len(q) - 1) /\ Tail(q)[i - 1] = x
      BY <1>1, <2>2, <3>1
    <3>. QED BY <1>1, <3>2 DEF ToSet
  <2>. QED BY <2>1, <2>2
<1>. QED BY <1>1, <1>2, <1>3, <1>4

----------------------------------------------------------------------------
LEMMA SetsOfIds ==
  ASSUME NEW S \in SUBSET Ids
  PROVE  IsFiniteSet(S) /\ Cardinality(S) \in Nat
BY VectorIndexAssumption, FS_Subset, FS_CardinalityType

LEMMA VIInitInv == VIInit => VIInv
<1>1. SUFFICES ASSUME VIInit PROVE VIInv
  OBVIOUS
<1>2. VITypeOK
  BY <1>1, VectorIndexAssumption DEF VIInit, VITypeOK, Off
<1>3. {r \in Ids : job[r] \in {"calling", "missing"}} = {} /\ {r \in Ids : job[r] = "waiting"} = {}
  BY <1>1 DEF VIInit
<1>4. ToSet(pending) = {} /\ IsInjective(pending)
  BY <1>1 DEF VIInit, ToSet, IsInjective
<1>5. SemaphoreOK
  BY <1>1, <1>3, <1>4, FS_EmptySet DEF VIInit, SemaphoreOK, SlotsCounted
<1>6. SearchOK
  BY <1>1 DEF VIInit, SearchOK, Searches, TotalCountsOnce, Off
<1>. QED BY <1>2, <1>5, <1>6 DEF VIInv

(* A caller takes a free slot, joins the queue, or is turned away. *)
LEMMA AcquireSlotInv ==
  ASSUME VIInv, NEW r \in Ids, svc[r] = "new", AcquireSlot(r),
         svc' = [svc EXCEPT ![r] = "listed"]
  PROVE  SemaphoreOK' /\ job' \in [Ids -> {"none", "waiting", "calling", "missing"}]
         /\ pending' \in Seq(Ids) /\ Len(pending') <= MAX_PENDING /\ inflight' \in 0..MAX_CONCURRENT
<1>1. /\ job \in [Ids -> {"none", "waiting", "calling", "missing"}] /\ job[r] = "none"
      /\ pending \in Seq(Ids) /\ Len(pending) <= MAX_PENDING /\ inflight \in 0..MAX_CONCURRENT
      /\ MAX_CONCURRENT \in Nat \ {0} /\ MAX_PENDING \in Nat
      /\ svc \in [Ids -> {"new", "listed", "hidden", "gone"}]
      /\ inflight = Cardinality(Held) /\ (pending # <<>> => inflight = MAX_CONCURRENT)
      /\ Waiting = ToSet(pending) /\ IsInjective(pending)
  BY VectorIndexAssumption DEF VIInv, VITypeOK, SemaphoreOK, SlotsCounted, Held, Waiting
<1>2. r \notin Held /\ r \notin Waiting /\ IsFiniteSet(Held)
  BY <1>1, SetsOfIds DEF Held, Waiting
<1>3. SUFFICES /\ inflight' = Cardinality(Held') /\ (pending' # <<>> => inflight' = MAX_CONCURRENT)
               /\ Waiting' = ToSet(pending') /\ IsInjective(pending')
               /\ \A q \in Ids : svc'[q] = "new" => job'[q] = "none"
               /\ job' \in [Ids -> {"none", "waiting", "calling", "missing"}]
               /\ pending' \in Seq(Ids) /\ Len(pending') <= MAX_PENDING
               /\ inflight' \in 0..MAX_CONCURRENT
  BY DEF SemaphoreOK, SlotsCounted, Held, Waiting
<1>4. \A q \in Ids \ {r} : svc'[q] = svc[q] /\ (svc[q] = "new" => job[q] = "none")
  BY <1>1 DEF VIInv, SemaphoreOK
<1>5. svc'[r] = "listed"
  BY <1>1
<1>6. CASE inflight < MAX_CONCURRENT /\ inflight' = inflight + 1
           /\ job' = [job EXCEPT ![r] = "calling"] /\ UNCHANGED pending
  <2>1. Held' = Held \cup {r} /\ Waiting' = Waiting
    BY <1>1, <1>6 DEF Held, Waiting
  <2>2. Cardinality(Held') = Cardinality(Held) + 1
    BY <1>2, <2>1, FS_AddElement
  <2>. QED BY <1>1, <1>4, <1>5, <1>6, <2>1, <2>2
<1>7. CASE /\ inflight >= MAX_CONCURRENT /\ Len(pending) < MAX_PENDING
           /\ pending' = Append(pending, r) /\ job' = [job EXCEPT ![r] = "waiting"]
           /\ UNCHANGED inflight
  <2>1. Held' = Held /\ Waiting' = Waiting \cup {r}
    BY <1>1, <1>7 DEF Held, Waiting
  <2>2. /\ pending' \in Seq(Ids) /\ Len(pending') = Len(pending) + 1
        /\ ToSet(pending') = ToSet(pending) \cup {r} /\ IsInjective(pending')
    BY <1>1, <1>2, <1>7, QueueAppended
  <2>3. Len(pending) \in Nat /\ inflight = MAX_CONCURRENT
    BY <1>1, <1>7
  <2>. QED BY <1>1, <1>4, <1>5, <1>7, <2>1, <2>2, <2>3
<1>8. CASE UNCHANGED <<pending, job, inflight>>
  <2>1. Held' = Held /\ Waiting' = Waiting
    BY <1>8 DEF Held, Waiting
  <2>. QED BY <1>1, <1>4, <1>5, <1>8, <2>1
<1>. QED BY <1>6, <1>7, <1>8 DEF AcquireSlot

(* A caller that is done hands its slot to the oldest waiter, or frees it. *)
LEMMA ReleaseSlotInv ==
  ASSUME VIInv, NEW r \in Ids, job[r] \in {"calling", "missing"}, ReleaseSlot(r), UNCHANGED svc
  PROVE  SemaphoreOK' /\ job' \in [Ids -> {"none", "waiting", "calling", "missing"}]
         /\ pending' \in Seq(Ids) /\ Len(pending') <= MAX_PENDING /\ inflight' \in 0..MAX_CONCURRENT
<1>1. /\ job \in [Ids -> {"none", "waiting", "calling", "missing"}]
      /\ pending \in Seq(Ids) /\ Len(pending) <= MAX_PENDING /\ inflight \in 0..MAX_CONCURRENT
      /\ MAX_CONCURRENT \in Nat \ {0} /\ MAX_PENDING \in Nat
      /\ inflight = Cardinality(Held) /\ (pending # <<>> => inflight = MAX_CONCURRENT)
      /\ Waiting = ToSet(pending) /\ IsInjective(pending)
      /\ \A q \in Ids : svc[q] = "new" => job[q] = "none"
  BY VectorIndexAssumption DEF VIInv, VITypeOK, SemaphoreOK, SlotsCounted, Held, Waiting
<1>2. r \in Held /\ r \notin Waiting /\ IsFiniteSet(Held)
  BY <1>1, SetsOfIds DEF Held, Waiting
<1>3. SUFFICES /\ inflight' = Cardinality(Held') /\ (pending' # <<>> => inflight' = MAX_CONCURRENT)
               /\ Waiting' = ToSet(pending') /\ IsInjective(pending')
               /\ \A q \in Ids : svc[q] = "new" => job'[q] = "none"
               /\ job' \in [Ids -> {"none", "waiting", "calling", "missing"}]
               /\ pending' \in Seq(Ids) /\ Len(pending') <= MAX_PENDING
               /\ inflight' \in 0..MAX_CONCURRENT
  BY DEF SemaphoreOK, SlotsCounted, Held, Waiting
<1>4. Cardinality(Held \ {r}) = Cardinality(Held) - 1 /\ IsFiniteSet(Held \ {r})
      /\ Cardinality(Held \ {r}) \in Nat
  BY <1>2, FS_RemoveElement, FS_CardinalityType
<1>5. CASE pending # <<>>
  <2>1. PICK h : h = Head(pending)
    OBVIOUS
  <2>2. /\ h \in Ids /\ pending' = Tail(pending) /\ pending' \in Seq(Ids)
        /\ Len(pending') = Len(pending) - 1 /\ h \in ToSet(pending)
        /\ ToSet(pending') = ToSet(pending) \ {h} /\ IsInjective(pending')
    <3>1. /\ Head(pending) \in Ids /\ Tail(pending) \in Seq(Ids) /\ Len(Tail(pending)) = Len(pending) - 1
          /\ Head(pending) \in ToSet(pending) /\ ToSet(Tail(pending)) = ToSet(pending) \ {Head(pending)}
          /\ IsInjective(Tail(pending))
      BY <1>1, <1>5, QueueHeadless
    <3>2. pending' = Tail(pending)
      BY <1>5 DEF ReleaseSlot
    <3>. QED BY <2>1, <3>1, <3>2
  <2>3. h # r /\ job[h] = "waiting" /\ h \notin Held
    BY <1>1, <1>2, <2>2 DEF Waiting, Held
  <2>4. PICK given \in {"calling", "missing"} : job' = [job EXCEPT ![r] = "none", ![h] = given]
    BY <1>5, <2>1 DEF ReleaseSlot
  <2>5. /\ job' \in [Ids -> {"none", "waiting", "calling", "missing"}]
        /\ job'[r] = "none" /\ job'[h] = given /\ \A q \in Ids \ {r, h} : job'[q] = job[q]
    BY <1>1, <2>2, <2>3, <2>4
  <2>6. Held' = (Held \ {r}) \cup {h} /\ Waiting' = Waiting \ {h}
    BY <2>2, <2>3, <2>4, <2>5, <1>2 DEF Held, Waiting
  <2>7. Cardinality(Held') = Cardinality(Held)
    <3>1. Cardinality((Held \ {r}) \cup {h}) = Cardinality(Held \ {r}) + 1
      BY <1>4, <2>3, FS_AddElement
    <3>. QED BY <1>1, <1>4, <2>6, <3>1
  <2>8. inflight' = inflight /\ inflight = MAX_CONCURRENT /\ Len(pending) \in Nat
    BY <1>1, <1>5 DEF ReleaseSlot
  <2>9. \A q \in Ids : svc[q] = "new" => job'[q] = "none"
    BY <1>1, <2>3, <2>5
  <2>. QED BY <1>1, <2>2, <2>5, <2>6, <2>7, <2>8, <2>9
<1>6. CASE pending = <<>>
  <2>1. inflight' = inflight - 1 /\ job' = [job EXCEPT ![r] = "none"] /\ pending' = pending
    BY <1>6 DEF ReleaseSlot
  <2>2. Held' = Held \ {r} /\ Waiting' = Waiting
    BY <1>1, <1>2, <2>1 DEF Held, Waiting
  <2>. QED BY <1>1, <1>4, <1>6, <2>1, <2>2
<1>. QED BY <1>5, <1>6

----------------------------------------------------------------------------
(* What a search holds *)

LEMMA MatchingPages == ASSUME VITypeOK PROVE Matching \subseteq Lit /\ Listed \subseteq Ids /\ Matching \subseteq Ids
BY VectorIndexAssumption DEF Matching, Listed

(* A search that is over has its total from the rows as they are. *)
SearchHolds(s) ==
  s.at = "shown" /\ s.quiet => s.total = Cardinality(Matching \cup (Listed \cap s.near))

LEMMA DisturbedOK ==
  ASSUME SearchOK, Disturbed
  PROVE  SearchOK'
<1>1. search \in Searches
  BY DEF SearchOK
<1>2. CASE search.at = "embedding"
  <2>1. PICK s \in [at : {"embedding"}, page : SUBSET Lit, quiet : BOOLEAN] : s = search
    BY <1>1, <1>2 DEF Searches, Off
  <2>2. search' = [s EXCEPT !.quiet = FALSE]
    BY <1>2, <2>1 DEF Disturbed
  <2>3. search' \in [at : {"embedding"}, page : SUBSET Lit, quiet : BOOLEAN]
    BY <2>1, <2>2
  <2>. QED BY <2>3 DEF SearchOK, Searches, TotalCountsOnce
<1>3. CASE search.at # "embedding"
  BY <1>3 DEF Disturbed, SearchOK, Searches, TotalCountsOnce, Off
<1>. QED BY <1>2, <1>3

LEMMA SearchStartsOK ==
  ASSUME VITypeOK, NEW page \in SUBSET Matching, SearchStarts(page)
  PROVE  SearchOK'
<1>1. page \in SUBSET Lit
  BY MatchingPages
<1>2. search' \in [at : {"embedding"}, page : SUBSET Lit, quiet : BOOLEAN]
  BY <1>1 DEF SearchStarts
<1>. QED BY <1>2 DEF SearchOK, Searches, TotalCountsOnce

(* The rows counted for the text and those counted for their vectors are apart,
   and together the rows that match or are near. *)
LEMMA TotalIsOfUnion ==
  ASSUME VITypeOK, NEW near \in SUBSET vec, NEW page \in SUBSET Lit
  PROVE  ShownTotal(near, page) = Cardinality(Matching \cup (Listed \cap near))
         /\ ShownTotal(near, page) \in Nat
<1>1. PICK S : S = Matching
  OBVIOUS
<1>2. PICK T : T = SemanticOnly(near, page)
  OBVIOUS
<1>3. IsFiniteSet(S) /\ IsFiniteSet(T) /\ Cardinality(S) \in Nat /\ Cardinality(T) \in Nat
  BY <1>1, <1>2, SetsOfIds, MatchingPages DEF SemanticOnly, VITypeOK
<1>4. Matching \cup (Listed \cap near) = S \cup T /\ S \cap T = {}
  BY <1>1, <1>2 DEF Matching, SemanticOnly
<1>5. Cardinality(S \cup T) = Cardinality(S) + Cardinality(T)
  <2>1. Cardinality(S \cup T) = Cardinality(S) + Cardinality(T) - Cardinality(S \cap T)
    BY <1>3, FS_Union
  <2>2. Cardinality(S \cap T) = 0
    BY <1>4, FS_EmptySet
  <2>. QED BY <1>3, <2>1, <2>2
<1>6. ShownTotal(near, page) = Cardinality(S) + Cardinality(T)
  BY <1>1, <1>2 DEF ShownTotal
<1>7. Cardinality(Matching \cup (Listed \cap near)) = Cardinality(S \cup T)
  BY <1>4
<1>. QED BY <1>3, <1>5, <1>6, <1>7

LEMMA SearchEndsOK ==
  ASSUME VITypeOK, SearchOK, NEW near \in SUBSET vec, SearchEnds(near)
  PROVE  SearchOK'
<1>1. PICK s \in [at : {"embedding"}, page : SUBSET Lit, quiet : BOOLEAN] : s = search
  BY DEF SearchOK, Searches, SearchEnds, Off
<1>2. PICK t : t = ShownTotal(near, s.page)
  OBVIOUS
<1>3. t = Cardinality(Matching \cup (Listed \cap near)) /\ t \in Nat
  BY <1>1, <1>2, TotalIsOfUnion
<1>4. s.page \cup SemanticOnly(near, s.page) \in SUBSET Ids /\ near \in SUBSET Ids
  BY VectorIndexAssumption, MatchingPages DEF SemanticOnly, VITypeOK
<1>5. search' = [at |-> "shown", page |-> s.page, near |-> near, quiet |-> s.quiet,
                 candidates |-> s.page \cup SemanticOnly(near, s.page), total |-> t]
  BY <1>1, <1>2 DEF SearchEnds
<1>6. search' \in Searches
  BY <1>3, <1>4, <1>5 DEF Searches
<1>7. Matching' = Matching /\ Listed' = Listed
  BY DEF SearchEnds, Matching, Listed
<1>8. TotalCountsOnce'
  BY <1>3, <1>5, <1>7 DEF TotalCountsOnce
<1>. QED BY <1>6, <1>8 DEF SearchOK

LEMMA SearchDegradesOK ==
  ASSUME VITypeOK, SearchOK, SearchDegrades
  PROVE  SearchOK'
<1>1. PICK s \in [at : {"embedding"}, page : SUBSET Lit, quiet : BOOLEAN] : s = search
  BY DEF SearchOK, Searches, SearchDegrades, Off
<1>2. PICK t : t = Cardinality(Matching)
  OBVIOUS
<1>3. t \in Nat /\ s.page \in SUBSET Ids
  BY <1>2, MatchingPages, SetsOfIds, VectorIndexAssumption
<1>4. search' = [at |-> "shown", page |-> s.page, near |-> {}, quiet |-> s.quiet,
                 candidates |-> s.page, total |-> t]
  BY <1>1, <1>2 DEF SearchDegrades
<1>5. search' \in Searches
  BY <1>3, <1>4 DEF Searches
<1>6. Matching' = Matching /\ Listed' = Listed
  BY DEF SearchDegrades, Matching, Listed
<1>7. Matching \cup (Listed \cap {}) = Matching
  OBVIOUS
<1>8. TotalCountsOnce'
  BY <1>2, <1>4, <1>6, <1>7 DEF TotalCountsOnce
<1>. QED BY <1>5, <1>8 DEF SearchOK

(* Nothing that a search read or counted has changed. *)
LEMMA SearchUndisturbed ==
  ASSUME SearchOK, UNCHANGED <<svc, search>>
  PROVE  SearchOK'
BY DEF SearchOK, Searches, TotalCountsOnce, Matching, Listed

LEMMA SearchAtKnown == ASSUME SearchOK PROVE search.at \in {"off", "embedding", "shown"}
BY DEF SearchOK, Searches, Off

----------------------------------------------------------------------------
(* The semaphore is left alone, and no row is new again. *)
LEMMA SemaphoreKept ==
  ASSUME VIInv, UNCHANGED <<job, pending, inflight>>,
         \A r \in Ids : svc'[r] = "new" => svc[r] = "new"
  PROVE  SemaphoreOK'
BY DEF VIInv, SemaphoreOK, SlotsCounted

LEMMA RowsStep ==
  ASSUME VIInv, NEW r \in Ids, Insert(r) \/ Hide(r) \/ Restore(r) \/ AdminDelete(r)
  PROVE  VIInv'
<1>1. svc \in [Ids -> {"new", "listed", "hidden", "gone"}] /\ VITypeOK /\ SearchOK
  BY DEF VIInv, VITypeOK
<1>2. Disturbed /\ UNCHANGED <<vec, script>>
  BY DEF Insert, Hide, Restore, AdminDelete
<1>3. SearchOK'
  BY <1>1, <1>2, DisturbedOK
<1>4. search'.at \in {"off", "embedding", "shown"}
  BY <1>3 DEF SearchOK, Searches, Off
<1>5. PICK state \in {"listed", "hidden", "gone"} : svc' = [svc EXCEPT ![r] = state]
  BY DEF Insert, Hide, Restore, AdminDelete
<1>6. svc' \in [Ids -> {"new", "listed", "hidden", "gone"}]
      /\ \A q \in Ids : svc'[q] = "new" => svc[q] = "new"
  BY <1>1, <1>5
<1>7. CASE Insert(r)
  <2>1. /\ SemaphoreOK' /\ job' \in [Ids -> {"none", "waiting", "calling", "missing"}]
        /\ pending' \in Seq(Ids) /\ Len(pending') <= MAX_PENDING /\ inflight' \in 0..MAX_CONCURRENT
    BY <1>7, AcquireSlotInv DEF Insert
  <2>2. VITypeOK'
    BY <1>1, <1>2, <1>4, <1>6, <2>1 DEF VITypeOK
  <2>. QED BY <1>3, <2>1, <2>2 DEF VIInv
<1>8. CASE ~Insert(r)
  <2>1. UNCHANGED <<job, pending, inflight>>
    BY <1>8 DEF Hide, Restore, AdminDelete
  <2>2. SemaphoreOK'
    BY <1>6, <2>1, SemaphoreKept
  <2>3. VITypeOK'
    BY <1>1, <1>2, <1>4, <1>6, <2>1 DEF VITypeOK
  <2>. QED BY <1>3, <2>2, <2>3 DEF VIInv
<1>. QED BY <1>7, <1>8

LEMMA EmbeddingStep ==
  ASSUME VIInv, NEW r \in Ids, EmbeddingStored(r) \/ EmbeddingSkipped(r)
  PROVE  VIInv'
<1>1. VITypeOK /\ SearchOK
  BY DEF VIInv
<1>2. /\ job[r] \in {"calling", "missing"} /\ ReleaseSlot(r) /\ UNCHANGED <<svc, script>>
      /\ vec' \in SUBSET Ids /\ (Disturbed \/ UNCHANGED search)
  BY <1>1 DEF EmbeddingStored, EmbeddingSkipped, VITypeOK
<1>3. SearchOK'
  BY <1>1, <1>2, DisturbedOK, SearchUndisturbed
<1>4. search'.at \in {"off", "embedding", "shown"}
  BY <1>3 DEF SearchOK, Searches, Off
<1>5. /\ SemaphoreOK' /\ job' \in [Ids -> {"none", "waiting", "calling", "missing"}]
      /\ pending' \in Seq(Ids) /\ Len(pending') <= MAX_PENDING /\ inflight' \in 0..MAX_CONCURRENT
  BY <1>2, ReleaseSlotInv
<1>6. VITypeOK'
  BY <1>1, <1>2, <1>4, <1>5 DEF VITypeOK
<1>. QED BY <1>3, <1>5, <1>6 DEF VIInv

(* The backfill, the purge and the search leave the semaphore alone. *)
LEMMA OtherProcessStep ==
  ASSUME VIInv,
         \/ \E r \in Ids, ok \in BOOLEAN : BackfillEmbeds(r, ok)
         \/ \E doomed \in SUBSET Ids : PurgeSoftDeleted(doomed)
         \/ \E force \in BOOLEAN : BackfillStarts(force)
         \/ BackfillEnds \/ BackfillKilled
  PROVE  VIInv'
<1>1. VITypeOK /\ SearchOK
  BY DEF VIInv
<1>2. /\ UNCHANGED <<job, pending, inflight>> /\ vec' \in SUBSET Ids
      /\ Disturbed \/ UNCHANGED <<svc, search>>
      /\ svc' \in [Ids -> {"new", "listed", "hidden", "gone"}]
      /\ \A q \in Ids : svc'[q] = "new" => svc[q] = "new"
  BY <1>1 DEF BackfillEmbeds, PurgeSoftDeleted, BackfillStarts, BackfillEnds, BackfillKilled, VITypeOK
<1>3. script' \in {Off} \cup [at : {"embedding"}, todo : SUBSET Ids]
  <2>1. CASE \E r \in Ids, ok \in BOOLEAN : BackfillEmbeds(r, ok)
    BY <1>1, <2>1 DEF BackfillEmbeds, VITypeOK, Off
  <2>2. CASE \E force \in BOOLEAN : BackfillStarts(force)
    BY <2>2 DEF BackfillStarts
  <2>3. CASE BackfillEnds \/ BackfillKilled \/ \E doomed \in SUBSET Ids : PurgeSoftDeleted(doomed)
    BY <1>1, <2>3 DEF BackfillEnds, BackfillKilled, PurgeSoftDeleted, VITypeOK
  <2>. QED BY <2>1, <2>2, <2>3
<1>4. SearchOK'
  BY <1>1, <1>2, DisturbedOK, SearchUndisturbed
<1>5. search'.at \in {"off", "embedding", "shown"}
  BY <1>4 DEF SearchOK, Searches, Off
<1>6. VITypeOK'
  BY <1>1, <1>2, <1>3, <1>5 DEF VITypeOK
<1>. QED BY <1>2, <1>4, <1>6, SemaphoreKept DEF VIInv

LEMMA SearchStep ==
  ASSUME VIInv,
         \/ \E page \in SUBSET Matching : SearchStarts(page)
         \/ \E near \in SUBSET vec : SearchEnds(near)
         \/ SearchDegrades
  PROVE  VIInv'
<1>1. VITypeOK /\ SearchOK
  BY DEF VIInv
<1>2. UNCHANGED <<svc, vec, job, pending, inflight, script>>
  BY DEF SearchStarts, SearchEnds, SearchDegrades
<1>3. SearchOK'
  BY <1>1, SearchStartsOK, SearchEndsOK, SearchDegradesOK
<1>4. search'.at \in {"off", "embedding", "shown"}
  BY <1>3 DEF SearchOK, Searches, Off
<1>5. VITypeOK'
  BY <1>1, <1>2, <1>4 DEF VITypeOK
<1>. QED BY <1>2, <1>3, <1>5, SemaphoreKept DEF VIInv

LEMMA ServerDiesInv ==
  ASSUME VIInv, ServerDies
  PROVE  VIInv'
<1>1. VITypeOK'
  BY VectorIndexAssumption DEF VIInv, VITypeOK, ServerDies, Off
<1>2. {r \in Ids : job'[r] \in {"calling", "missing"}} = {} /\ {r \in Ids : job'[r] = "waiting"} = {}
  BY DEF ServerDies
<1>3. ToSet(pending') = {} /\ IsInjective(pending')
  BY DEF ServerDies, ToSet, IsInjective
<1>4. SemaphoreOK'
  BY <1>2, <1>3, FS_EmptySet DEF ServerDies, SemaphoreOK, SlotsCounted
<1>5. SearchOK'
  BY DEF ServerDies, SearchOK, Searches, TotalCountsOnce, Off
<1>. QED BY <1>1, <1>4, <1>5 DEF VIInv

LEMMA VINextInv == VIInv /\ [VINext]_viVars => VIInv'
<1>. SUFFICES ASSUME VIInv, [VINext]_viVars PROVE VIInv'
  OBVIOUS
<1>1. CASE UNCHANGED viVars
  <2>1. UNCHANGED <<svc, vec, job, pending, inflight, script, search>>
    BY <1>1 DEF viVars
  <2>2. VITypeOK' /\ SearchOK'
    BY <2>1, SearchUndisturbed DEF VIInv, VITypeOK
  <2>. QED BY <2>1, <2>2, SemaphoreKept DEF VIInv
<1>2. CASE VINext
  BY <1>2, RowsStep, EmbeddingStep, OtherProcessStep, SearchStep, ServerDiesInv DEF VINext
<1>. QED BY <1>1, <1>2

(* services/embeddings.js: the count of calls out is the number of callers that
   hold a slot, and a slot is never free while a caller waits, whatever ends a
   call, for any limits and rows. *)
THEOREM SlotsAreCounted == VISpec => []SlotsCounted
<1>1. VIInv => SlotsCounted
  BY DEF VIInv, SemaphoreOK
<1>. QED BY <1>1, VIInitInv, VINextInv, PTL DEF VISpec

(* queries/services.js: a search during which nothing was written counts every
   listed row that matches or is near exactly once, whatever the caps. *)
THEOREM TotalsCountOnce == VISpec => []TotalCountsOnce
<1>1. VIInv => TotalCountsOnce
  BY DEF VIInv, SearchOK
<1>. QED BY <1>1, VIInitInv, VINextInv, PTL DEF VISpec

----------------------------------------------------------------------------
(* Intake: a row names a source *)

SourcesNamed == \A k \in Keys : Stored(k) => entry[k].source # {}
InTyped == WindowInv /\ SourcesNamed

LEMMA PollNames ==
  ASSUME InTyped, NEW c \in Catalogs, NEW seen \in SUBSET Keys, NEW done \in SUBSET seen, NEW swept \in BOOLEAN,
         Poll(c, seen, done, swept)
  PROVE  SourcesNamed'
<1>. DEFINE rows == AfterUpserts(c, done)
            stale == IF swept THEN Stale(c, rows, seen) ELSE {}
<1>1. entry' = [k \in Keys |-> IF k \in stale THEN [rows[k] EXCEPT !.deleted = TRUE] ELSE rows[k]]
  BY DEF Poll
<1>2. RowTypes /\ done \in SUBSET Keys
  BY DEF InTyped, WindowInv, InInv
<1>3. SUFFICES ASSUME NEW k \in Keys, entry'[k].is = "row" PROVE entry'[k].source # {}
  BY DEF SourcesNamed, Stored
<1>4. PICK new : new = rows[k]
  OBVIOUS
<1>5. CASE k \notin Writes(c, done)
  <2>1. new = entry[k]
    BY <1>2, <1>4, <1>5, UpsertedRow
  <2>2. CASE k \in stale
    <3>1. new.is = "row" /\ entry'[k] = [new EXCEPT !.deleted = TRUE]
      BY <1>1, <1>4, <2>2 DEF Stale
    <3>2. new \in Rows
      BY <1>2, <2>1, <3>1, StoredIsRow DEF Stored
    <3>3. entry'[k].source = new.source
      BY <3>1, <3>2 DEF Rows
    <3>. QED BY <2>1, <3>1, <3>3 DEF InTyped, SourcesNamed, Stored
  <2>3. CASE k \notin stale
    <3>1. entry'[k] = entry[k]
      BY <1>1, <1>4, <2>1, <2>3
    <3>. QED BY <1>3, <3>1 DEF InTyped, SourcesNamed, Stored
  <2>. QED BY <2>2, <2>3
<1>6. CASE k \in Writes(c, done)
  <2>1. new \in Rows /\ (Stored(k) => entry[k].source \subseteq new.source)
    BY <1>2, <1>4, <1>6, UpsertedRow
  <2>2. new.source # {}
    <3>1. CASE Stored(k)
      BY <2>1, <3>1 DEF InTyped, SourcesNamed
    <3>2. CASE ~Stored(k)
      <4>1. new = Fresh({c}, FALSE)
        BY <1>4, <1>6, <3>2 DEF AfterUpserts
      <4>. QED BY <4>1 DEF Fresh
    <3>. QED BY <3>1, <3>2
  <2>3. entry'[k].source = new.source
    <3>1. entry'[k] = [new EXCEPT !.deleted = TRUE] \/ entry'[k] = new
      BY <1>1, <1>4
    <3>. QED BY <2>1, <3>1 DEF Rows
  <2>. QED BY <2>2, <2>3
<1>. QED BY <1>5, <1>6

LEMMA HandsName ==
  ASSUME InTyped, NEW k \in Keys,
         ApproveChange(k) \/ OwnerDeletes(k) \/ AdminRestores(k) \/ RowDeleted(k) \/ HourPasses(k)
  PROVE  SourcesNamed'
<1>1. entry \in [Keys -> {NoEntry} \cup Rows] /\ (Stored(k) => entry[k] \in Rows)
  BY StoredIsRow DEF InTyped, WindowInv, InInv, RowTypes
<1>2. SUFFICES ASSUME NEW j \in Keys, entry'[j].is = "row" PROVE entry'[j].source # {}
  BY DEF SourcesNamed, Stored
<1>3. CASE j # k
  <2>1. entry'[j] = entry[j]
    BY <1>1, <1>3 DEF ApproveChange, OwnerDeletes, AdminRestores, RowDeleted, HourPasses
  <2>. QED BY <1>2, <2>1 DEF InTyped, SourcesNamed, Stored
<1>4. CASE j = k /\ Stored(k)
  <2>1. PICK g \in Rows : g = entry[k] /\ g.source # {}
    BY <1>1, <1>4 DEF InTyped, SourcesNamed
  <2>2. \/ entry'[k] = [g EXCEPT !.source = {Change}]
        \/ \E d \in BOOLEAN : entry'[k] = [g EXCEPT !.deleted = d]
        \/ entry'[k] = [g EXCEPT !.recent = FALSE]
        \/ entry'[k] = NoEntry
    BY <1>1, <1>4, <2>1 DEF ApproveChange, OwnerDeletes, AdminRestores, RowDeleted, HourPasses
  <2>3. NoEntry.is # "row"
    BY DEF NoEntry
  <2>. QED BY <1>2, <1>4, <2>1, <2>2, <2>3 DEF Rows
<1>5. CASE j = k /\ ~Stored(k)
  <2>1. ApproveChange(k)
    BY <1>5 DEF OwnerDeletes, AdminRestores, RowDeleted, HourPasses, Shown, Hidden
  <2>2. entry'[k] = Fresh({Change}, TRUE)
    BY <1>1, <1>5, <2>1 DEF ApproveChange
  <2>. QED BY <1>5, <2>2 DEF Fresh
<1>. QED BY <1>3, <1>4, <1>5

LEMMA InTypedInit == InInit => InTyped
<1>1. InInit => Registrations = {}
  BY DEF InInit, Registrations, Stored, NoEntry
<1>2. InInit => DomainWindow
  BY <1>1, CountIsNat, FS_EmptySet DEF DomainWindow
<1>3. InInit => ClaimIsRemembered
  BY DEF InInit, ClaimIsRemembered
<1>4. InInit => SourcesNamed
  BY DEF InInit, SourcesNamed, Stored, NoEntry
<1>. QED BY <1>2, <1>3, <1>4, InInitInv DEF InTyped, WindowInv

LEMMA InTypedNext == InTyped /\ [InNext]_inVars => InTyped'
<1>. SUFFICES ASSUME InTyped, [InNext]_inVars PROVE SourcesNamed'
  BY WindowNext DEF InTyped
<1>1. CASE UNCHANGED inVars
  BY <1>1 DEF inVars, InTyped, SourcesNamed, Stored
<1>2. ASSUME NEW k \in Keys, NEW found, RegisterRow(k, found) PROVE SourcesNamed'
  <2>1. PICK keys : entry' = Upserted(keys)
    BY <1>2 DEF RegisterRow
  <2>2. \A j \in Keys : entry'[j] = entry[j] \/ entry'[j] = Fresh({Self}, TRUE)
    BY <2>1 DEF Upserted
  <2>. QED BY <2>2 DEF InTyped, SourcesNamed, Stored, Fresh
<1>3. ASSUME NEW k \in Keys,
             ApproveChange(k) \/ OwnerDeletes(k) \/ AdminRestores(k) \/ RowDeleted(k) \/ HourPasses(k)
      PROVE  SourcesNamed'
  BY <1>3, HandsName
<1>4. ASSUME NEW c, Snapshot(c) PROVE SourcesNamed'
  <2>1. PICK seen \in OfHost(c), swept \in BOOLEAN : \E done \in SUBSET seen : Poll(c, seen, done, swept)
    BY <1>4 DEF Snapshot
  <2>2. c \in Catalogs /\ seen \in SUBSET Keys
    BY <1>4 DEF Snapshot, OfHost
  <2>. QED BY <2>1, <2>2, PollNames
<1>5. ASSUME NEW c, Additions(c) PROVE SourcesNamed'
  <2>1. PICK done \in OfHost(c) : Poll(c, done, done, FALSE)
    BY <1>5 DEF Additions
  <2>2. c \in Catalogs /\ done \in SUBSET Keys
    BY <1>5 DEF Additions, OfHost
  <2>. QED BY <2>1, <2>2, PollNames
<1>6. CASE ClaimTurns
  BY <1>6 DEF ClaimTurns, InTyped, SourcesNamed, Stored
<1>. QED BY <1>1, <1>2, <1>3, <1>4, <1>5, <1>6
     DEF InNext, PollMPP, PollMppscan, PollL402Apps, PollL402Directory, PollSponge, PollSatring, LoadListings

----------------------------------------------------------------------------
(* The circuit of the searches.  A call that is out saw the circuit closed or half
   open; what it saw tells whether the flag of the trial is its own. *)

QETyped ==
  /\ read \in [Reads -> {NotReading} \cup
       [at : {"calling"}, text : Texts, saw : {"closed", "half-open"}, hit : BOOLEAN]]
  /\ circuit \in {"closed", "open", "half-open"}
  /\ failures \in 0..CIRCUIT_OPEN_THRESHOLD
  /\ trial \in BOOLEAN /\ up \in BOOLEAN

(* The circuit is closed until the threshold is reached, and from the next
   success on: so a trial that fails opens it again at once. *)
CircuitTells == circuit = "closed" <=> failures < CIRCUIT_OPEN_THRESHOLD

(* While it is half open only the trial is out. *)
OnlyTrialIsOut == circuit = "half-open" => \A s \in Reads : Out(s) => read[s].saw = "half-open"

QEInv == QETyped /\ CircuitTells /\ OnlyTrialIsOut /\ OneTrial

LEMMA QEInitInv == ASSUME QEInit PROVE QEInv
<1>1. NotReading.at # "calling"
  BY DEF NotReading
<1>2. \A s \in Reads : ~Out(s)
  BY <1>1 DEF QEInit, Out
<1>3. QETyped /\ circuit = "closed" /\ failures < CIRCUIT_OPEN_THRESHOLD /\ ~trial
  <2>1. /\ read = [s \in Reads |-> NotReading] /\ circuit = "closed" /\ failures = 0
        /\ ~trial /\ trial \in BOOLEAN /\ up \in BOOLEAN
    BY DEF QEInit
  <2>. QED BY <2>1, QueryEmbeddingAssumption DEF QETyped
<1>. QED BY <1>2, <1>3 DEF QEInv, CircuitTells, OnlyTrialIsOut, OneTrial

(* A step that leaves the calls, the circuit and the flag alone. *)
LEMMA QERests ==
  ASSUME QEInv, UNCHANGED <<circuit, failures, trial>>, QETyped',
         \A s \in Reads : read'[s].at = read[s].at /\ (Out(s) => read'[s].saw = read[s].saw)
  PROVE  QEInv'
<1>1. \A s \in Reads : Out(s)' <=> Out(s)
  BY DEF Out
<1>. QED BY <1>1 DEF QEInv, CircuitTells, OnlyTrialIsOut, OneTrial

LEMMA QECalls ==
  ASSUME QEInv, NEW s \in Reads, NEW t \in Texts, ReadCalls(s, t)
  PROVE  QEInv'
<1>1. /\ UNCHANGED <<circuit, failures, up>> /\ circuit \in {"closed", "half-open"}
      /\ (circuit = "half-open" => trial = FALSE) /\ (trial' <=> trial \/ circuit = "half-open")
  BY DEF ReadCalls, QEInv, QETyped
<1>2. /\ read' = [read EXCEPT ![s] = Calling(t, circuit)] /\ ~Out(s)
  BY DEF ReadCalls, Out
<1>3. Calling(t, circuit) \in [at : {"calling"}, text : Texts, saw : {"closed", "half-open"}, hit : BOOLEAN]
  BY <1>1 DEF Calling, QEInv, QETyped
<1>4. QETyped'
  <2>1. trial' \in BOOLEAN
    BY DEF ReadCalls, QEInv, QETyped
  <2>. QED BY <1>1, <1>2, <1>3, <2>1 DEF QEInv, QETyped
<1>5. Out(s)' /\ read'[s].saw = circuit
  BY <1>2, <1>3 DEF Out, Calling, QEInv, QETyped
<1>6. \A r \in Reads : r # s => (Out(r)' <=> Out(r)) /\ read'[r] = read[r]
  BY <1>2 DEF Out, QEInv, QETyped
<1>7. circuit = "half-open" => \A r \in Reads : ~Out(r)
  BY <1>1 DEF QEInv, OnlyTrialIsOut, OneTrial
<1>8. CircuitTells'
  BY <1>1 DEF CircuitTells, QEInv
<1>9. OnlyTrialIsOut'
  BY <1>1, <1>5, <1>6, <1>7 DEF OnlyTrialIsOut
<1>10. OneTrial'
  BY <1>1, <1>5, <1>6, <1>7 DEF OneTrial, QEInv
<1>. QED BY <1>4, <1>8, <1>9, <1>10 DEF QEInv

(* A call that is over: it takes the flag of the trial with it when it was the
   trial, and leaves it otherwise. *)
LEMMA QEEnds ==
  ASSUME QEInv, NEW s \in Reads, Out(s), ReadAnswered(s) \/ ReadFailed(s)
  PROVE  QEInv'
<1>1. /\ read' = [read EXCEPT ![s] = NotReading] /\ UNCHANGED up
      /\ trial' = TrialOver(s)
  BY DEF ReadAnswered, ReadFailed
<1>2. QETyped /\ CIRCUIT_OPEN_THRESHOLD \in Nat \ {0} /\ failures \in Nat /\ failures <= CIRCUIT_OPEN_THRESHOLD
  BY QueryEmbeddingAssumption DEF QEInv, QETyped
<1>3. /\ circuit' \in {"closed", "open", "half-open"} /\ failures' \in 0..CIRCUIT_OPEN_THRESHOLD
      /\ CircuitTells' /\ circuit' # "half-open"
  <2>1. CASE RecordSuccess
    BY <1>2, <2>1 DEF RecordSuccess, CircuitTells
  <2>2. CASE RecordFailure
    <3>1. circuit = "closed" <=> failures < CIRCUIT_OPEN_THRESHOLD
      BY DEF QEInv, CircuitTells
    <3>2. CASE failures + 1 < CIRCUIT_OPEN_THRESHOLD
      <4>1. failures' = failures + 1 /\ circuit' = circuit /\ circuit = "closed"
        BY <1>2, <2>2, <3>1, <3>2 DEF RecordFailure
      <4>. QED BY <1>2, <3>2, <4>1 DEF CircuitTells
    <3>3. CASE ~(failures + 1 < CIRCUIT_OPEN_THRESHOLD)
      <4>1. failures' = CIRCUIT_OPEN_THRESHOLD /\ circuit' = "open"
        BY <1>2, <2>2, <3>3 DEF RecordFailure
      <4>. QED BY <1>2, <4>1 DEF CircuitTells
    <3>. QED BY <3>2, <3>3
  <2>. QED BY <2>1, <2>2 DEF ReadAnswered, ReadFailed
<1>4. /\ ~Out(s)' /\ \A r \in Reads : r # s => (Out(r)' <=> Out(r)) /\ read'[r] = read[r]
  BY <1>1, <1>2 DEF Out, NotReading, QETyped
<1>5. trial' = FALSE /\ \A r \in Reads : ~(Out(r)' /\ read'[r].saw = "half-open")
  <2>1. CASE read[s].saw = "half-open"
    <3>1. \A r \in Reads : Out(r) => r = s
      BY <2>1 DEF QEInv, OneTrial
    <3>. QED BY <1>1, <1>4, <2>1, <3>1 DEF TrialOver
  <2>2. CASE read[s].saw # "half-open"
    <3>1. circuit # "half-open"
      BY <2>2 DEF QEInv, OnlyTrialIsOut
    <3>2. ~trial /\ \A r \in Reads : ~(Out(r) /\ read[r].saw = "half-open")
      BY <3>1 DEF QEInv, OneTrial
    <3>3. trial' = trial /\ trial \in BOOLEAN
      BY <1>1, <1>2, <2>2 DEF TrialOver, QETyped
    <3>. QED BY <1>4, <3>2, <3>3
  <2>. QED BY <2>1, <2>2
<1>6. QETyped'
  <2>1. read' \in [Reads -> {NotReading} \cup
          [at : {"calling"}, text : Texts, saw : {"closed", "half-open"}, hit : BOOLEAN]]
    BY <1>1, <1>2 DEF QETyped
  <2>. QED BY <1>1, <1>2, <1>3, <1>5, <2>1 DEF QETyped
<1>7. OnlyTrialIsOut'
  BY <1>3 DEF OnlyTrialIsOut
<1>8. OneTrial'
  BY <1>3, <1>5 DEF OneTrial
<1>. QED BY <1>3, <1>6, <1>7, <1>8 DEF QEInv

LEMMA QECools == ASSUME QEInv, CoolsDown PROVE QEInv'
<1>1. circuit = "open" /\ circuit' = "half-open" /\ UNCHANGED <<read, failures, trial, up>>
  BY DEF CoolsDown
<1>2. \A s \in Reads : ~Out(s)
  BY DEF CoolsDown, Out
<1>3. QETyped'
  BY <1>1 DEF QEInv, QETyped
<1>4. CircuitTells'
  BY <1>1 DEF QEInv, CircuitTells
<1>5. \A s \in Reads : ~Out(s)'
  BY <1>1, <1>2 DEF Out
<1>6. OnlyTrialIsOut' /\ OneTrial'
  BY <1>1, <1>2, <1>5 DEF QEInv, OnlyTrialIsOut, OneTrial
<1>. QED BY <1>3, <1>4, <1>6 DEF QEInv

LEMMA QENextInv == ASSUME QEInv, [QENext]_qeVars PROVE QEInv'
<1>0. QETyped
  BY DEF QEInv
<1>1. CASE UNCHANGED <<read, circuit, failures, trial>> /\ up' \in BOOLEAN
  <2>1. QETyped'
    BY <1>0, <1>1 DEF QETyped
  <2>. QED BY <1>1, <2>1, QERests DEF Out
<1>2. CASE ServiceFails
  <2>1. /\ UNCHANGED <<circuit, failures, trial>> /\ up' = FALSE
        /\ read' = [r \in Reads |-> IF read[r].at = "idle" THEN read[r] ELSE [read[r] EXCEPT !.hit = TRUE]]
    BY <1>2 DEF ServiceFails
  <2>2. ASSUME NEW r \in Reads
        PROVE  /\ read'[r].at = read[r].at /\ (Out(r) => read'[r].saw = read[r].saw)
               /\ read'[r] \in {NotReading} \cup
                    [at : {"calling"}, text : Texts, saw : {"closed", "half-open"}, hit : BOOLEAN]
    <3>1. CASE read[r].at = "idle"
      BY <1>0, <2>1, <3>1 DEF QETyped, Out
    <3>2. CASE read[r].at # "idle"
      <4>1. read[r] \in [at : {"calling"}, text : Texts, saw : {"closed", "half-open"}, hit : BOOLEAN]
        BY <1>0, <3>2 DEF QETyped, NotReading
      <4>2. read'[r] = [read[r] EXCEPT !.hit = TRUE]
        BY <2>1, <3>2
      <4>. QED BY <4>1, <4>2
    <3>. QED BY <3>1, <3>2
  <2>3. QETyped'
    BY <1>0, <2>1, <2>2 DEF QETyped
  <2>. QED BY <2>1, <2>2, <2>3, QERests
<1>3. CASE UNCHANGED qeVars \/ (\E s \in Reads, t \in Texts : ReadCached(s, t)) \/ (\E t \in Texts : VectorExpires(t)) \/ ServiceReturns
  <2>1. UNCHANGED <<read, circuit, failures, trial>> /\ up' \in {up, TRUE}
    BY <1>3 DEF qeVars, ReadCached, VectorExpires, ServiceReturns
  <2>. QED BY <1>0, <1>1, <2>1 DEF QETyped
<1>4. ASSUME NEW s \in Reads, ReadAnswered(s) \/ ReadFailed(s) PROVE QEInv'
  <2>1. Out(s)
    BY <1>4 DEF ReadAnswered, ReadFailed, Out
  <2>. QED BY <1>4, <2>1, QEEnds
<1>. QED BY <1>2, <1>3, <1>4, QECalls, QECools DEF QENext

(* For any number of searches under way, any threshold and any outages: a half
   open circuit lets one call through, and the flag of the trial goes down with
   that call, never with one that began before the circuit opened. *)
THEOREM TrialsAreSingle == QESpec => []OneTrial
<1>1. QEInv => OneTrial
  BY DEF QEInv
<1>. QED BY <1>1, QEInitInv, QENextInv, PTL DEF QESpec

----------------------------------------------------------------------------
(* The components side by side *)

(* A behaviour of the run is one of each component: the one it is about takes
   steps, the others stutter. *)
LEMMA EachComponentSteps ==
  /\ ListingsInit => Init /\ InInit /\ PCInit /\ VIInit
  /\ [ListingsNext]_listingsVars => [Next]_vars /\ [InNext]_inVars /\ [PCNext]_pcVars /\ [VINext]_viVars
<1>1. ListingsInit => Init /\ InInit /\ PCInit /\ VIInit
  BY Zenon DEF ListingsInit
<1>2. ListingsNext => [Next]_vars /\ [InNext]_inVars /\ [PCNext]_pcVars /\ [VINext]_viVars
  BY Zenon DEF ListingsNext
<1>3. UNCHANGED listingsVars => UNCHANGED vars /\ UNCHANGED inVars /\ UNCHANGED pcVars /\ UNCHANGED viVars
  BY Zenon DEF listingsVars
<1>. QED BY <1>1, <1>2, <1>3

(* MCListings, and with it the components it composes: a behaviour of the
   composition is one of every component, so that what is proved of the
   components' specifications holds of it. *)
THEOREM ListingsAreComposed == ListingsSpec => Spec /\ InSpec /\ PCSpec /\ VISpec
BY EachComponentSteps, PTL DEF ListingsSpec, Spec, InSpec, PCSpec, VISpec

(* The columns, counters and lists that the polls, registrations, probes,
   embeddings and searches keep have their types in every state, whatever the
   component at work does. *)
THEOREM ListingsTypeCorrect == ListingsSpec => []ListingsTypeOK
<1>. DEFINE Inv == BZInv /\ InTyped /\ PCInv /\ VIInv
            Parts == part \in {"bazaar", "intake L402", "intake x402", "probe", "vectors"}
<1>1. ListingsInit => Inv /\ Parts
  BY EachComponentSteps, InitBZInv, InTypedInit, PCInitInv, VIInitInv DEF ListingsInit
<1>2. Inv /\ Parts /\ [ListingsNext]_listingsVars => Inv' /\ Parts'
  <2>1. [ListingsNext]_listingsVars => part' = part
    BY Zenon DEF ListingsNext, listingsVars
  <2>. QED BY <2>1, EachComponentSteps, BZNextInv, InTypedNext, PCNextInv, VINextInv
<1>3. InTyped => InTypeOK
  BY DEF InTyped, WindowInv, InInv, RowTypes, Rows, ClaimIsRemembered, SourcesNamed, InTypeOK
<1>4. Inv /\ Parts => ListingsTypeOK
  <2>1. Inv => TypeOK /\ InTypeOK /\ PCTypeOK /\ VITypeOK
    BY <1>3 DEF BZInv, PCInv, VIInv
  <2>. QED BY <2>1 DEF ListingsTypeOK
<1>. QED BY <1>1, <1>2, <1>4, PTL DEF ListingsSpec
============================================================================
