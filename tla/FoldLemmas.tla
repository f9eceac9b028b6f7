----------------------------- MODULE FoldLemmas -----------------------------
(***************************************************************************)
(* Lemmas about the folds of the community modules over finite sets and    *)
(* over sequences, for the proofs about the daily quota, the bill and the  *)
(* renamed tokens.                                                         *)
(*                                                                         *)
(* A fold over a set takes its elements in an order nothing is known of.   *)
(* SumIsSize makes a sum a cardinality, the number of pairs of an element  *)
(* and one of its units; what a step does to the sum is then a fact about  *)
(* sets.                                                                   *)
(***************************************************************************)
EXTENDS Integers, FiniteSetsExt, FiniteSetTheorems, WellFoundedInduction, TLAPS

-----------------------------------------------------------------------------
\* Induction.  The library's induction theorems quantify over predicates; these
\* two do it over sets.

LessThan == {ss \in Nat \X Nat : ss[1] < ss[2]}

\* A set of natural numbers that is not empty has a least element.
LEMMA LeastNatural ==
    ASSUME NEW T \in SUBSET Nat, T # {}
    PROVE  \E m \in T : \A n \in T : m <= n
  <1>1. IsWellFoundedOn(LessThan, Nat)
    BY NatLessThanWellFounded DEF OpToRel, LessThan
  <1>2. PICK x \in T : \A y \in T : ~ (<<y, x>> \in LessThan)
    BY <1>1, WFMin
  <1>3. ASSUME NEW y \in T PROVE x <= y
    <2>1. x \in Nat /\ y \in Nat /\ <<y, x>> \notin LessThan
      BY <1>2
    <2>2. ~ (y < x)
      BY <2>1 DEF LessThan
    <2> QED BY <2>1, <2>2
  <1> QED BY <1>3

\* A family of subsets of a finite set that contains every set it contains all
\* the smaller ones of contains them all.
LEMMA SubsetInduction ==
    ASSUME NEW S, IsFiniteSet(S), NEW T,
           \A X \in SUBSET S : (\A x \in X : X \ {x} \in T) => X \in T
    PROVE  \A X \in SUBSET S : X \in T
  <1> DEFINE Bad == (SUBSET S) \ T
  <1> SUFFICES ASSUME Bad # {} PROVE FALSE
    OBVIOUS
  <1>1. IsWellFoundedOn(StrictSubsetOrdering(S), SUBSET S)
    <2>1. FiniteSubsetsOf(S) = SUBSET S
      BY FS_FiniteSubsetsOfFinite
    <2>2. IsWellFoundedOn(StrictSubsetOrdering(S), FiniteSubsetsOf(S))
      BY FS_StrictSubsetOrderingWellFounded
    <2> QED BY <2>1, <2>2
  <1>2. PICK X \in Bad : \A Y \in Bad : ~ (<<Y, X>> \in StrictSubsetOrdering(S))
    BY <1>1, WFMin
  <1>3. ASSUME NEW x \in X PROVE X \ {x} \in T
    <2>1. X \ {x} \in SUBSET S /\ X \in SUBSET S
      OBVIOUS
    <2>2. <<X \ {x}, X>> \in StrictSubsetOrdering(S)
      BY <2>1 DEF StrictSubsetOrdering
    <2> QED BY <1>2, <2>1, <2>2
  <1> QED BY <1>2, <1>3

-----------------------------------------------------------------------------
\* Sums of charges.

\* A nano-unit of a run: the run and a number up to its total.
Units(total, S) == {u \in S \X Nat : u[2] \in 1..total[u[1]]}

LEMMA UnitsOfOneMore ==
    ASSUME NEW S, NEW x \in S, NEW total, \A r \in S : total[r] \in Nat,
           IsFiniteSet(Units(total, S \ {x}))
    PROVE  /\ IsFiniteSet(Units(total, S))
           /\ Cardinality(Units(total, S))
                  = total[x] + Cardinality(Units(total, S \ {x}))
  <1> DEFINE own  == {x} \X (1..total[x])
             rest == Units(total, S \ {x})
  <1>1. /\ IsFiniteSet(own)
        /\ Cardinality(own) = total[x]
    <2>1. IsFiniteSet(1..total[x]) /\ Cardinality(1..total[x]) = total[x]
      <3>1. total[x] \in Nat /\ total[x] \in Int /\ 1 \in Int
        OBVIOUS
      <3> QED BY <3>1, FS_Interval
    <2>2. IsFiniteSet({x}) /\ Cardinality({x}) = 1
      BY FS_Singleton
    <2>3. /\ IsFiniteSet(own)
          /\ Cardinality(own) = Cardinality({x}) * Cardinality(1..total[x])
      BY <2>1, <2>2, FS_Product
    <2> QED BY <2>1, <2>2, <2>3
  <1>2. own \cap rest = {}
    BY DEF Units
  <1>3. Units(total, S) = own \cup rest
    <2>1. ASSUME NEW u \in Units(total, S) PROVE u \in own \cup rest
      <3>1. CASE u[1] = x
        BY <2>1, <3>1 DEF Units
      <3>2. CASE u[1] # x
        BY <2>1, <3>2 DEF Units
      <3> QED BY <3>1, <3>2
    <2>2. own \cup rest \subseteq Units(total, S)
      BY DEF Units
    <2> QED BY <2>1, <2>2
  <1>4. /\ IsFiniteSet(own \cup rest)
        /\ Cardinality(own \cup rest)
               = Cardinality(own) + Cardinality(rest) - Cardinality(own \cap rest)
    BY <1>1, FS_Union
  <1>5. Cardinality(own \cap rest) = 0 /\ Cardinality(rest) \in Nat
    BY <1>2, FS_EmptySet, FS_CardinalityType
  <1> QED BY <1>1, <1>3, <1>4, <1>5

LEMMA UnitsOfNone ==
    ASSUME NEW total
    PROVE  /\ Units(total, {}) = {}
           /\ IsFiniteSet(Units(total, {}))
           /\ Cardinality(Units(total, {})) = 0
  BY FS_EmptySet DEF Units

LEMMA UnitsFinite ==
    ASSUME NEW S, IsFiniteSet(S), NEW total, \A r \in S : total[r] \in Nat
    PROVE  IsFiniteSet(Units(total, S))
  <1> DEFINE T == {X \in SUBSET S : IsFiniteSet(Units(total, X))}
  <1>1. ASSUME NEW X \in SUBSET S, \A x \in X : X \ {x} \in T
        PROVE  X \in T
    <2>1. CASE X = {}
      BY <2>1, UnitsOfNone
    <2>2. CASE X # {}
      <3>1. PICK x \in X : TRUE
        BY <2>2
      <3>2. IsFiniteSet(Units(total, X \ {x})) /\ \A r \in X : total[r] \in Nat
        BY <1>1
      <3>3. IsFiniteSet(Units(total, X))
        BY <3>2, UnitsOfOneMore
      <3> QED BY <3>3
    <2> QED BY <2>1, <2>2
  <1> HIDE DEF T
  <1>2. \A X \in SUBSET S : (\A x \in X : X \ {x} \in T) => X \in T
    BY <1>1
  <1>3. \A X \in SUBSET S : X \in T
    BY <1>2, SubsetInduction
  <1>4. S \in T
    BY <1>3
  <1> QED BY <1>4 DEF T

\* What the fold of MapThenSumSet computes for the subsets of S.
IsSum(sum, total, S) ==
    sum = [s \in SUBSET S |->
               IF s = {} THEN 0
               ELSE LET x == CHOOSE x \in s : TRUE
                    IN  total[x] + sum[s \ {x}]]

LEMMA SumIsSize ==
    ASSUME NEW S, IsFiniteSet(S), NEW total, \A r \in S : total[r] \in Nat,
           NEW sum, IsSum(sum, total, S)
    PROVE  sum[S] = Cardinality(Units(total, S))
  <1> DEFINE T == {X \in SUBSET S : sum[X] = Cardinality(Units(total, X))}
  <1>1. ASSUME NEW X \in SUBSET S, \A x \in X : X \ {x} \in T
        PROVE  X \in T
    <2>1. CASE X = {}
      BY <2>1, UnitsOfNone DEF IsSum
    <2>2. CASE X # {}
      <3> DEFINE x == CHOOSE x \in X : TRUE
      <3>1. x \in X
        BY <2>2
      <3>2. sum[X] = total[x] + sum[X \ {x}]
        BY <2>2 DEF IsSum
      <3>3. sum[X \ {x}] = Cardinality(Units(total, X \ {x}))
        BY <1>1, <3>1
      <3>4. IsFiniteSet(X \ {x}) /\ \A r \in X : total[r] \in Nat
        BY FS_Subset
      <3>5. IsFiniteSet(Units(total, X \ {x}))
        BY <3>4, UnitsFinite
      <3>6. Cardinality(Units(total, X))
                = total[x] + Cardinality(Units(total, X \ {x}))
        BY <3>1, <3>4, <3>5, UnitsOfOneMore
      <3> QED BY <3>2, <3>3, <3>6
    <2> QED BY <2>1, <2>2
  <1> HIDE DEF T
  <1>2. \A X \in SUBSET S : (\A x \in X : X \ {x} \in T) => X \in T
    BY <1>1
  <1>3. \A X \in SUBSET S : X \in T
    BY <1>2, SubsetInduction
  <1>4. S \in T
    BY <1>3
  <1> QED BY <1>4 DEF T

LEMMA SumExists ==
    ASSUME NEW S, IsFiniteSet(S), NEW total, \A r \in S : total[r] \in Nat
    PROVE  \E sum : IsSum(sum, total, S)
  <1> DEFINE size == [X \in SUBSET S |-> Cardinality(Units(total, X))]
  <1>1. ASSUME NEW X \in SUBSET S
        PROVE  size[X] = IF X = {} THEN 0
                         ELSE LET x == CHOOSE x \in X : TRUE
                              IN  total[x] + size[X \ {x}]
    <2>1. CASE X = {}
      BY <2>1, UnitsOfNone
    <2>2. CASE X # {}
      <3> DEFINE x == CHOOSE x \in X : TRUE
      <3>1. x \in X
        BY <2>2
      <3>2. IsFiniteSet(X \ {x}) /\ \A r \in X : total[r] \in Nat
        BY FS_Subset
      <3>3. IsFiniteSet(Units(total, X \ {x}))
        BY <3>2, UnitsFinite
      <3>4. Cardinality(Units(total, X))
                = total[x] + Cardinality(Units(total, X \ {x}))
        BY <3>1, <3>2, <3>3, UnitsOfOneMore
      <3> QED BY <2>2, <3>4
    <2> QED BY <2>1, <2>2
  <1>2. size = [X \in SUBSET S |->
                    IF X = {} THEN 0
                    ELSE LET x == CHOOSE x \in X : TRUE
                         IN  total[x] + size[X \ {x}]]
    BY <1>1
  <1>3. IsSum(size, total, S)
    BY <1>2 DEF IsSum
  <1> QED BY <1>3

-----------------------------------------------------------------------------
\* Folds from left to right.  FoldLeft takes the indices of a sequence away
\* from the greatest down.

\* A finite set of natural numbers that is not empty has a greatest element.
LEMMA GreatestNatural ==
    ASSUME NEW S \in SUBSET Nat, IsFiniteSet(S), S # {}
    PROVE  Max(S) \in S /\ \A y \in S : Max(S) >= y
  <1> DEFINE T == {X \in SUBSET S : X # {} => \E m \in X : \A y \in X : m >= y}
  <1>1. ASSUME NEW X \in SUBSET S, \A x \in X : X \ {x} \in T
        PROVE  X \in T
    <2> SUFFICES ASSUME X # {} PROVE \E m \in X : \A y \in X : m >= y
      OBVIOUS
    <2>1. PICK x \in X : TRUE
      OBVIOUS
    <2>2. CASE X \ {x} = {}
      BY <2>1, <2>2
    <2>3. CASE X \ {x} # {}
      <3>1. PICK m \in X \ {x} : \A y \in X \ {x} : m >= y
        BY <1>1, <2>1, <2>3
      <3>2. x \in Nat /\ m \in Nat /\ X \subseteq Nat
        OBVIOUS
      <3>3. CASE m >= x
        BY <3>1, <3>3
      <3>4. CASE x > m
        <4>1. \A y \in X : x >= y
          BY <3>1, <3>2, <3>4
        <4> QED BY <4>1
      <3> QED BY <3>2, <3>3, <3>4
    <2> QED BY <2>2, <2>3
  <1> HIDE DEF T
  <1>2. \A X \in SUBSET S : X \in T
    BY <1>1, SubsetInduction
  <1>3. \E m \in S : \A y \in S : m >= y
    BY <1>2 DEF T
  <1> QED BY <1>3 DEF Max

\* What the fold of FoldLeft computes for the subsets of the indices S, for a
\* step that takes what was folded and the next index.
IsFold(fold, step, base, S) ==
    fold = [s \in SUBSET S |->
                IF s = {} THEN base
                ELSE LET x == Max(s) IN step[<<fold[s \ {x}], x>>]]

\* There is one, and its values are where the steps stay.
LEMMA FoldExists ==
    ASSUME NEW S \in SUBSET Nat, IsFiniteSet(S), NEW V, NEW base \in V,
           NEW step \in [V \X S -> V]
    PROVE  \E fold \in [SUBSET S -> V] : IsFold(fold, step, base, S)
  <1> DEFINE T == {X \in SUBSET S :
                      \E fold \in [SUBSET X -> V] : IsFold(fold, step, base, X)}
  <1>1. ASSUME NEW X \in SUBSET S, \A x \in X : X \ {x} \in T
        PROVE  X \in T
    <2>1. CASE X = {}
      <3> DEFINE fold == [s \in SUBSET X |-> base]
      <3>1. fold \in [SUBSET X -> V]
        OBVIOUS
      <3>2. \A s \in SUBSET X : s = {}
        BY <2>1
      <3>3. IsFold(fold, step, base, X)
        BY <3>2 DEF IsFold
      <3> QED BY <3>1, <3>3
    <2>2. CASE X # {}
      <3> DEFINE m == Max(X)
      <3>1. m \in X /\ \A y \in X : m >= y
        BY <2>2, FS_Subset, GreatestNatural
      <3>2. PICK g \in [SUBSET (X \ {m}) -> V] : IsFold(g, step, base, X \ {m})
        BY <1>1, <3>1
      <3> DEFINE fold == [s \in SUBSET X |->
                             IF m \in s THEN step[<<g[s \ {m}], m>>] ELSE g[s]]
      <3> HIDE DEF m
      <3>3. \A s \in SUBSET X : s \ {m} \in SUBSET (X \ {m})
        OBVIOUS
      <3>4. fold \in [SUBSET X -> V]
        BY <3>1, <3>3
      <3>5. ASSUME NEW s \in SUBSET X
            PROVE  fold[s] = IF s = {} THEN base
                             ELSE LET x == Max(s) IN step[<<fold[s \ {x}], x>>]
        <4>1. CASE s = {}
          BY <3>2, <4>1 DEF IsFold
        <4>2. CASE m \in s
          <5>1. Max(s) \in s /\ \A y \in s : Max(s) >= y
            BY <4>2, FS_Subset, GreatestNatural
          <5>2. Max(s) = m
            <6>1. Max(s) >= m /\ m >= Max(s) /\ Max(s) \in Nat /\ m \in Nat
              BY <3>1, <4>2, <5>1
            <6> QED BY <6>1
          <5>3. fold[s \ {m}] = g[s \ {m}]
            OBVIOUS
          <5> QED BY <4>2, <5>2, <5>3
        <4>3. CASE s # {} /\ m \notin s
          <5>1. Max(s) \in s
            BY <4>3, FS_Subset, GreatestNatural
          <5> DEFINE x == Max(s)
          <5>2. s \in SUBSET (X \ {m}) /\ s \ {x} \in SUBSET (X \ {m})
            BY <4>3
          <5>3. fold[s] = g[s] /\ fold[s \ {x}] = g[s \ {x}]
            BY <4>3, <5>2
          <5>4. g[s] = step[<<g[s \ {x}], x>>]
            BY <3>2, <4>3, <5>2 DEF IsFold
          <5> QED BY <4>3, <5>3, <5>4
        <4> QED BY <4>1, <4>2, <4>3
      <3>6. IsFold(fold, step, base, X)
        <4> HIDE DEF fold
        <4>1. fold = [s \in SUBSET X |-> fold[s]]
          BY <3>4
        <4>2. fold = [s \in SUBSET X |->
                         IF s = {} THEN base
                         ELSE LET x == Max(s) IN step[<<fold[s \ {x}], x>>]]
          BY <3>5, <4>1
        <4> QED BY <4>2 DEF IsFold
      <3> QED BY <3>4, <3>6
    <2> QED BY <2>1, <2>2
  <1> HIDE DEF T
  <1>2. \A X \in SUBSET S : X \in T
    BY <1>1, SubsetInduction
  <1> QED BY <1>2 DEF T
=============================================================================
