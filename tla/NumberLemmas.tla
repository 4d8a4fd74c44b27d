---------------------------- MODULE NumberLemmas ----------------------------
(* Extreme elements of sets of numbers.                                    *)
EXTENDS Integers, FiniteSetTheorems, WellFoundedInduction, TLAPS

\* A set of numbers that is not empty has a smallest element: the initial
\* segments of its members are finite sets, ordered by strict inclusion.
LEMMA SmallestNumber ==
    ASSUME NEW T, T \subseteq Nat, T # {}
    PROVE  \E x \in T : \A y \in T : x <= y
<1> DEFINE Segments == {0..x : x \in T}
<1>1. Segments \subseteq FiniteSubsetsOf(Nat) /\ Segments # {}
  <2>1. ASSUME NEW x \in T
        PROVE  0..x \in FiniteSubsetsOf(Nat)
    <3>1. x \in Int /\ 0 \in Int /\ 0..x \subseteq Nat
      OBVIOUS
    <3> QED
      BY <3>1, FS_Interval DEF FiniteSubsetsOf
  <2> QED
    BY <2>1
<1>2. PICK X \in Segments :
        \A Y \in Segments : <<Y, X>> \notin StrictSubsetOrdering(Nat)
  BY <1>1, FS_StrictSubsetOrderingWellFounded, WFMin
<1>3. PICK x \in T : X = 0..x
  BY <1>2
<1>4. ASSUME NEW y \in T, y < x
      PROVE  FALSE
  <2>1. 0..y \subseteq 0..x /\ x \in 0..x /\ x \notin 0..y
    BY <1>4
  <2>2. 0..y \in SUBSET Nat /\ 0..x \in SUBSET Nat
    OBVIOUS
  <2>3. <<0..y, 0..x>> \in StrictSubsetOrdering(Nat)
    BY <2>1, <2>2 DEF StrictSubsetOrdering
  <2> QED
    BY <1>2, <1>3, <2>3
<1> QED
  BY <1>4

\* A bounded set of numbers that is not empty has a largest element.
LEMMA LargestNumber ==
    ASSUME NEW N \in Nat, NEW T, T \subseteq 1..N, T # {}
    PROVE  \E x \in T : \A y \in T : y <= x
<1> DEFINE Below == {N - x : x \in T}
<1>1. Below \subseteq Nat /\ Below # {}
  OBVIOUS
<1>2. PICK b \in Below : \A c \in Below : b <= c
  BY <1>1, SmallestNumber
<1>3. PICK x \in T : b = N - x
  BY <1>2
<1>4. ASSUME NEW y \in T
      PROVE  y <= x
  <2>1. N - x <= N - y
    BY <1>2, <1>3
  <2>2. x \in Int /\ y \in Int
    OBVIOUS
  <2> QED
    BY <2>1, <2>2
<1> QED
  BY <1>4
=============================================================================
