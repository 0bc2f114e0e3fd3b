----------------------------- MODULE SumLemmas -----------------------------
(***************************************************************************)
(* Sums over finite sets.  SumFunctionOnSet of the community modules folds *)
(* over the subsets of its index set in an order of its own choosing; the  *)
(* lemmas say that the order does not matter: a sum takes its elements out *)
(* one by one, is natural, grows with its set and depends only on the      *)
(* values it adds.  The induction over subsets is a minimal counterexample *)
(* in the well-founded order of the naturals.                              *)
(***************************************************************************)
EXTENDS Integers, Functions, FiniteSetTheorems, WellFoundedInduction, TLAPS

(* A nonempty set of naturals has a least element. *)
LEMMA LeastNatural ==
  ASSUME NEW B \in SUBSET Nat, B # {}
  PROVE  \E n \in B : \A m \in B : n <= m
<1>1. IsWellFoundedOn(OpToRel(<, Nat), Nat)
  BY NatLessThanWellFounded
<1>2. PICK n \in B : \A m \in B : ~(<<m, n>> \in OpToRel(<, Nat))
  BY <1>1, WFMin
<1>3. \A m \in B : ~(m < n)
  BY <1>2 DEF OpToRel
<1>4. ASSUME NEW m \in B
      PROVE  n <= m
  <2>1. n \in Nat /\ m \in Nat
    OBVIOUS
  <2> QED
    BY <1>3, <2>1
<1> QED
  BY <1>4

(* What a set of subsets contains whenever it contains every proper subset
   is all of them, when the base set is finite. *)
LEMMA SubsetInduction ==
  ASSUME NEW S, IsFiniteSet(S), NEW G,
         \A T \in SUBSET S : (\A U \in SUBSET T : U # T => U \in G) => T \in G
  PROVE  \A T \in SUBSET S : T \in G
<1> SUFFICES ASSUME NEW R \in SUBSET S, R \notin G
             PROVE  FALSE
  OBVIOUS
<1> DEFINE Bad == {T \in SUBSET S : T \notin G}
           Sizes == {Cardinality(T) : T \in Bad}
<1>1. \A T \in SUBSET S : IsFiniteSet(T) /\ Cardinality(T) \in Nat
  BY FS_Subset, FS_CardinalityType
<1>2. Sizes \subseteq Nat /\ Sizes # {}
  BY <1>1
<1>3. PICK n \in Sizes : \A m \in Sizes : n <= m
  <2> HIDE DEF Sizes
  <2> QED
    BY <1>2, LeastNatural
<1>4. PICK T \in Bad : n = Cardinality(T)
  OBVIOUS
<1>5. \A U \in SUBSET T : U # T => U \in G
  <2> SUFFICES ASSUME NEW U \in SUBSET T, U # T, U \notin G
               PROVE  FALSE
    OBVIOUS
  <2>1. Cardinality(U) \in Sizes
    OBVIOUS
  <2>2. Cardinality(U) < Cardinality(T)
    BY <1>1, FS_Subset
  <2>3. Cardinality(T) <= Cardinality(U)
    BY <1>3, <1>4, <2>1
  <2>4. Cardinality(T) \in Nat /\ Cardinality(U) \in Nat
    BY <1>1
  <2> QED
    BY <2>2, <2>3, <2>4
<1> QED
  BY <1>5

Pick(T) == CHOOSE x \in T : TRUE

Unfolds(sum, f, S) ==
  sum = [T \in SUBSET S |-> IF T = {} THEN 0 ELSE f[Pick(T)] + sum[T \ {Pick(T)}]]

(* The library's sum is the value at S of the function its fold chooses. *)
LEMMA SumIsChosen ==
  ASSUME NEW f, NEW S
  PROVE  SumFunctionOnSet(f, S) = (CHOOSE s : Unfolds(s, f, S))[S]
  BY DEF SumFunctionOnSet, FoldFunctionOnSet, MapThenFoldSet, Unfolds, Pick

LEMMA PickIsMember ==
  ASSUME NEW T, T # {}
  PROVE  Pick(T) \in T
  BY DEF Pick

(* On a finite set there is a function that unfolds the sum. *)
LEMMA SumUnfoldsSomehow ==
  ASSUME NEW S, IsFiniteSet(S), NEW f
  PROVE  \E sum : Unfolds(sum, f, S)
<1> DEFINE Once(g) == [T \in SUBSET S |-> IF T = {} THEN 0 ELSE f[Pick(T)] + g[T \ {Pick(T)}]]
           UpTo(g, n) == \A T \in SUBSET S : Cardinality(T) <= n => g[T] = Once(g)[T]
           Reached == {n \in Nat : \E g : UpTo(g, n)}
<1>1. \A T \in SUBSET S : IsFiniteSet(T) /\ Cardinality(T) \in Nat
  BY FS_Subset, FS_CardinalityType
<1>2. 0 \in Reached
  <2> DEFINE zero == [T \in SUBSET S |-> 0]
  <2>1. \A T \in SUBSET S : Cardinality(T) <= 0 => T = {}
    BY <1>1, FS_EmptySet
  <2>2. UpTo(zero, 0)
    BY <2>1
  <2> QED
    BY <2>2
<1>3. ASSUME NEW n \in Nat, n \in Reached
      PROVE  n + 1 \in Reached
  <2>1. PICK g : UpTo(g, n)
    BY <1>3
  <2>2. UpTo(Once(g), n + 1)
    <3> SUFFICES ASSUME NEW T \in SUBSET S, Cardinality(T) <= n + 1, T # {}
                 PROVE  Once(g)[T] = Once(Once(g))[T]
      OBVIOUS
    <3>1. Pick(T) \in T
      BY PickIsMember
    <3>2. PICK U \in SUBSET S : U = T \ {Pick(T)}
      OBVIOUS
    <3>3. Cardinality(U) = Cardinality(T) - 1
      BY <1>1, <3>1, <3>2, FS_RemoveElement
    <3>4. Cardinality(U) <= n
      BY <1>1, <3>3
    <3>5. g[U] = Once(g)[U]
      BY <2>1, <3>4
    <3> QED
      BY <3>2, <3>5
  <2>3. PICK h : h = Once(g)
    OBVIOUS
  <2>4. UpTo(h, n + 1)
    BY <2>2, <2>3
  <2> HIDE DEF UpTo, Once
  <2> QED
    BY <2>4
<1>4. \A n \in Nat : n \in Reached
  <2> HIDE DEF Reached
  <2> DEFINE Missed == {n \in Nat : n \notin Reached}
  <2> SUFFICES ASSUME Missed # {}
               PROVE  FALSE
    OBVIOUS
  <2>1. PICK n \in Missed : \A m \in Missed : n <= m
    BY LeastNatural
  <2>2. n # 0 /\ n \in Nat
    BY <1>2
  <2>3. n - 1 \in Nat /\ n - 1 \in Reached
    BY <2>1, <2>2
  <2> QED
    BY <1>3, <2>1, <2>2, <2>3
<1>5. PICK g : UpTo(g, Cardinality(S))
  BY <1>1, <1>4
<1>6. \A T \in SUBSET S : Cardinality(T) <= Cardinality(S)
  BY FS_Subset
<1>7. Unfolds(Once(g), f, S)
  <2>1. \A T \in SUBSET S : g[T] = Once(g)[T]
    BY <1>5, <1>6
  <2>2. ASSUME NEW T \in SUBSET S
        PROVE  Once(g)[T] = Once(Once(g))[T]
    <3>1. T \ {Pick(T)} \in SUBSET S
      OBVIOUS
    <3> QED
      BY <2>1, <3>1
  <2>3. Once(g) = Once(Once(g))
    BY <2>2
  <2> QED
    BY <2>3 DEF Unfolds
<1> QED
  BY <1>7

(* Two unfoldings agree on the sets both have. *)
LEMMA UnfoldingsAgree ==
  ASSUME NEW S, IsFiniteSet(S), NEW R \in SUBSET S, NEW f,
         NEW sum, Unfolds(sum, f, S), NEW part, Unfolds(part, f, R)
  PROVE  part[R] = sum[R]
<1> DEFINE G == {T \in SUBSET R : part[T] = sum[T]}
<1>1. IsFiniteSet(R)
  BY FS_Subset
<1>2. ASSUME NEW T \in SUBSET R, \A U \in SUBSET T : U # T => U \in G
      PROVE  T \in G
  <2>1. CASE T = {}
    BY <2>1 DEF Unfolds
  <2>2. CASE T # {}
    <3>1. Pick(T) \in T
      BY <2>2, PickIsMember
    <3>2. PICK U \in SUBSET T : U = T \ {Pick(T)}
      OBVIOUS
    <3>3. part[U] = sum[U]
      BY <1>2, <3>1, <3>2
    <3>4. part[T] = f[Pick(T)] + part[U] /\ sum[T] = f[Pick(T)] + sum[U]
      BY <2>2, <3>2 DEF Unfolds
    <3> QED
      BY <3>3, <3>4
  <2> QED
    BY <2>1, <2>2
<1> HIDE DEF G
<1>3. R \in G
  BY <1>1, <1>2, SubsetInduction
<1> QED
  BY <1>3 DEF G

(* The empty sum; any other takes out the element its fold picks. *)
LEMMA SumUnfolds ==
  ASSUME NEW f
  PROVE  /\ SumFunctionOnSet(f, {}) = 0
         /\ \A S : IsFiniteSet(S) /\ S # {} =>
              SumFunctionOnSet(f, S) = f[Pick(S)] + SumFunctionOnSet(f, S \ {Pick(S)})
<1>1. ASSUME NEW S, IsFiniteSet(S)
      PROVE  \E sum : Unfolds(sum, f, S) /\ SumFunctionOnSet(f, S) = sum[S]
  <2>1. Unfolds(CHOOSE s : Unfolds(s, f, S), f, S)
    BY <1>1, SumUnfoldsSomehow
  <2> QED
    BY <2>1, SumIsChosen
<1>2. SumFunctionOnSet(f, {}) = 0
  <2>1. IsFiniteSet({})
    BY FS_EmptySet
  <2>2. PICK sum : Unfolds(sum, f, {}) /\ SumFunctionOnSet(f, {}) = sum[{}]
    BY <1>1, <2>1
  <2> QED
    BY <2>2 DEF Unfolds
<1>3. ASSUME NEW S, IsFiniteSet(S), S # {}
      PROVE  SumFunctionOnSet(f, S) = f[Pick(S)] + SumFunctionOnSet(f, S \ {Pick(S)})
  <2>1. PICK R \in SUBSET S : R = S \ {Pick(S)}
    OBVIOUS
  <2>2. IsFiniteSet(R)
    BY <1>3, FS_Subset
  <2>3. PICK sum : Unfolds(sum, f, S) /\ SumFunctionOnSet(f, S) = sum[S]
    BY <1>1, <1>3
  <2>4. PICK part : Unfolds(part, f, R) /\ SumFunctionOnSet(f, R) = part[R]
    BY <1>1, <2>2
  <2>5. part[R] = sum[R]
    BY <1>3, <2>3, <2>4, UnfoldingsAgree
  <2>6. sum[S] = f[Pick(S)] + sum[R]
    BY <1>3, <2>1, <2>3 DEF Unfolds
  <2> QED
    BY <2>1, <2>3, <2>4, <2>5, <2>6
<1> QED
  BY <1>2, <1>3

(* A sum of naturals is natural. *)
LEMMA SumIsNatural ==
  ASSUME NEW S, IsFiniteSet(S), NEW f, \A x \in S : f[x] \in Nat
  PROVE  SumFunctionOnSet(f, S) \in Nat
<1> DEFINE G == {T \in SUBSET S : SumFunctionOnSet(f, T) \in Nat}
<1>1. ASSUME NEW T \in SUBSET S, \A U \in SUBSET T : U # T => U \in G
      PROVE  T \in G
  <2>1. CASE T = {}
    BY <2>1, SumUnfolds
  <2>2. CASE T # {}
    <3>1. Pick(T) \in T /\ IsFiniteSet(T)
      BY <2>2, PickIsMember, FS_Subset
    <3>2. SumFunctionOnSet(f, T) = f[Pick(T)] + SumFunctionOnSet(f, T \ {Pick(T)})
      BY <2>2, <3>1, SumUnfolds
    <3>3. SumFunctionOnSet(f, T \ {Pick(T)}) \in Nat
      BY <1>1, <3>1
    <3> QED
      BY <3>1, <3>2, <3>3
  <2> QED
    BY <2>1, <2>2
<1> HIDE DEF G
<1>2. S \in G
  BY <1>1, SubsetInduction
<1> QED
  BY <1>2 DEF G

(* Any element can be taken out first. *)
LEMMA SumTakesOut ==
  ASSUME NEW S, IsFiniteSet(S), NEW f, \A x \in S : f[x] \in Nat, NEW x \in S
  PROVE  SumFunctionOnSet(f, S) = f[x] + SumFunctionOnSet(f, S \ {x})
<1> DEFINE Sum(T) == SumFunctionOnSet(f, T)
           G == {T \in SUBSET S : \A y \in T : Sum(T) = f[y] + Sum(T \ {y})}
<1>0. \A T \in SUBSET S : IsFiniteSet(T) /\ Sum(T) \in Nat
  <2> SUFFICES ASSUME NEW T \in SUBSET S
               PROVE  IsFiniteSet(T) /\ Sum(T) \in Nat
    OBVIOUS
  <2>1. IsFiniteSet(T)
    BY FS_Subset
  <2> QED
    BY <2>1, SumIsNatural
<1>1. ASSUME NEW T \in SUBSET S, \A U \in SUBSET T : U # T => U \in G
      PROVE  T \in G
  <2> SUFFICES ASSUME NEW y \in T
               PROVE  Sum(T) = f[y] + Sum(T \ {y})
    OBVIOUS
  <2>1. PICK p : p = Pick(T)
    OBVIOUS
  <2>2. p \in T /\ Sum(T) = f[p] + Sum(T \ {p})
    BY <1>0, <2>1, PickIsMember, SumUnfolds
  <2>3. CASE y = p
    BY <2>2, <2>3
  <2>4. CASE y # p
    <3>1. T \ {p} \in G /\ T \ {y} \in G
      BY <1>1, <2>2
    <3>2. Sum(T \ {p}) = f[y] + Sum((T \ {p}) \ {y})
      BY <2>2, <2>4, <3>1
    <3>3. Sum(T \ {y}) = f[p] + Sum((T \ {y}) \ {p})
      BY <2>2, <2>4, <3>1
    <3>4. PICK U \in SUBSET S : U = (T \ {p}) \ {y} /\ U = (T \ {y}) \ {p}
      OBVIOUS
    <3>5. Sum(U) \in Nat /\ f[p] \in Nat /\ f[y] \in Nat
      BY <1>0, <2>2
    <3> HIDE DEF Sum
    <3> QED
      BY <2>2, <3>2, <3>3, <3>4, <3>5
  <2> QED
    BY <2>3, <2>4
<1> HIDE DEF G
<1>2. S \in G
  BY <1>1, SubsetInduction
<1> QED
  BY <1>2 DEF G

(* A sum grows with its set. *)
LEMMA SumGrows ==
  ASSUME NEW S, IsFiniteSet(S), NEW f, \A x \in S : f[x] \in Nat, NEW R \in SUBSET S
  PROVE  SumFunctionOnSet(f, R) <= SumFunctionOnSet(f, S)
<1> DEFINE Sum(T) == SumFunctionOnSet(f, T)
           G == {T \in SUBSET S : \A U \in SUBSET T : Sum(U) <= Sum(T)}
<1>0. \A T \in SUBSET S : IsFiniteSet(T) /\ Sum(T) \in Nat
  <2> SUFFICES ASSUME NEW T \in SUBSET S
               PROVE  IsFiniteSet(T) /\ Sum(T) \in Nat
    OBVIOUS
  <2>1. IsFiniteSet(T)
    BY FS_Subset
  <2> QED
    BY <2>1, SumIsNatural
<1>1. ASSUME NEW T \in SUBSET S, \A U \in SUBSET T : U # T => U \in G
      PROVE  T \in G
  <2> SUFFICES ASSUME NEW U \in SUBSET T
               PROVE  Sum(U) <= Sum(T)
    OBVIOUS
  <2>1. CASE U = T
    BY <1>0, <2>1
  <2>2. CASE U # T
    <3>1. PICK y \in T : y \notin U
      BY <2>2
    <3>2. T \ {y} \in G /\ U \in SUBSET (T \ {y})
      BY <1>1, <3>1
    <3>3. Sum(U) <= Sum(T \ {y})
      BY <3>2
    <3>4. Sum(T) = f[y] + Sum(T \ {y})
      BY <1>0, SumTakesOut
    <3>5. Sum(U) \in Nat /\ Sum(T \ {y}) \in Nat /\ f[y] \in Nat
      BY <1>0
    <3> HIDE DEF Sum
    <3> QED
      BY <3>3, <3>4, <3>5
  <2> QED
    BY <2>1, <2>2
<1> HIDE DEF G
<1>2. S \in G
  BY <1>1, SubsetInduction
<1> QED
  BY <1>2 DEF G

(* Only the values at the members count. *)
LEMMA SumDependsOnValues ==
  ASSUME NEW S, IsFiniteSet(S), NEW f, NEW g, \A x \in S : f[x] = g[x]
  PROVE  SumFunctionOnSet(f, S) = SumFunctionOnSet(g, S)
<1> DEFINE G == {T \in SUBSET S : SumFunctionOnSet(f, T) = SumFunctionOnSet(g, T)}
<1>1. ASSUME NEW T \in SUBSET S, \A U \in SUBSET T : U # T => U \in G
      PROVE  T \in G
  <2>1. CASE T = {}
    BY <2>1, SumUnfolds
  <2>2. CASE T # {}
    <3>1. Pick(T) \in T /\ IsFiniteSet(T)
      BY <2>2, PickIsMember, FS_Subset
    <3>2. SumFunctionOnSet(f, T) = f[Pick(T)] + SumFunctionOnSet(f, T \ {Pick(T)})
      BY <2>2, <3>1, SumUnfolds
    <3>3. SumFunctionOnSet(g, T) = g[Pick(T)] + SumFunctionOnSet(g, T \ {Pick(T)})
      BY <2>2, <3>1, SumUnfolds
    <3>4. SumFunctionOnSet(f, T \ {Pick(T)}) = SumFunctionOnSet(g, T \ {Pick(T)})
      BY <1>1, <3>1
    <3> QED
      BY <3>1, <3>2, <3>3, <3>4
  <2> QED
    BY <2>1, <2>2
<1> HIDE DEF G
<1>2. S \in G
  BY <1>1, SubsetInduction
<1> QED
  BY <1>2 DEF G
============================================================================
