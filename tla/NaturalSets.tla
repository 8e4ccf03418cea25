-------------------------------- MODULE NaturalSets -------------------------------
(***********************************************************************************)
(* Sets of natural numbers, for the proofs that count: the least element, and      *)
(* induction for a statement that is written as a set.                             *)
(***********************************************************************************)
EXTENDS Naturals, FiniteSets, FiniteSetsExt, FiniteSetTheorems, WellFoundedInduction, TLAPS

\* A set of numbers has a least one: a set inclusion is well-founded on the intervals below them.
LEMMA LeastExists ==
    ASSUME NEW S \in SUBSET Nat, S # {}
    PROVE  Min(S) \in S /\ \A n \in S : Min(S) <= n
<1> DEFINE below(k) == 0 .. k
           R == StrictSubsetOrdering(Nat)
           T == {below(k) : k \in S}
<1>1. PICK m \in S : \A n \in S : m <= n
  <2>1. T \subseteq FiniteSubsetsOf(Nat) /\ T # {}
    <3>1. \A k \in Nat : below(k) \in SUBSET Nat /\ IsFiniteSet(below(k))
      BY FS_Interval
    <3>2. QED
      BY <3>1 DEF FiniteSubsetsOf
  <2>2. IsWellFoundedOn(R, FiniteSubsetsOf(Nat))
    BY FS_StrictSubsetOrderingWellFounded
  <2>3. PICK x \in T : \A y \in T : <<y, x>> \notin R
    <3> HIDE DEF T, R
    <3>1. QED
      BY <2>1, <2>2, WFMin
  <2>4. PICK m \in S : x = below(m)
    BY <2>3
  <2>5. ASSUME NEW n \in S, n < m PROVE FALSE
    <3>1. below(n) \in T
      OBVIOUS
    <3>2. below(n) \subseteq below(m) /\ below(n) # below(m)
      <4>1. m \in below(m) /\ m \notin below(n)
        BY <2>5
      <4>2. QED
        BY <2>5, <4>1
    <3>3. <<below(n), below(m)>> \in R
      <4> DEFINE pair == <<below(n), below(m)>>
      <4>1. pair[1] = below(n) /\ pair[2] = below(m)
        OBVIOUS
      <4>2. below(n) \in SUBSET Nat /\ below(m) \in SUBSET Nat
        OBVIOUS
      <4>3. pair \in (SUBSET Nat) \X (SUBSET Nat)
        BY <4>2
      <4> HIDE DEF pair, below
      <4>4. pair \in R
        BY <3>2, <4>1, <4>3 DEF StrictSubsetOrdering
      <4>5. QED
        BY <4>4 DEF pair
    <3>4. QED
      BY <2>3, <2>4, <3>1, <3>3
  <2>6. QED
    BY <2>5
<1>2. QED
  BY <1>1 DEF Min

\* A set of numbers that has 0 and every successor is all of them: induction for a statement
\* that is written as a set.
LEMMA CountingUp ==
    ASSUME NEW S \in SUBSET Nat, 0 \in S, \A n \in S : n + 1 \in S
    PROVE  S = Nat
<1> SUFFICES ASSUME Nat \ S # {} PROVE FALSE
  OBVIOUS
<1> DEFINE m == Min(Nat \ S)
<1>1. m \in Nat \ S /\ \A n \in Nat \ S : m <= n
  BY LeastExists
<1> HIDE DEF m
<1>2. m # 0 /\ m - 1 \in Nat /\ m - 1 \notin Nat \ S
  BY <1>1
<1>3. m - 1 + 1 \in S
  BY <1>2
<1>4. QED
  BY <1>1, <1>3
===================================================================================
