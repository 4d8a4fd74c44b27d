------------------------ MODULE WaveAssignmentProofs ------------------------
(***************************************************************************)
(* What assign_waves guarantees for every fleet and every plan whose       *)
(* listener references can be layered, that is, contain no cycle.  What it *)
(* does with cycles is left to TLC: it rests on reachability, which would  *)
(* need an induction over paths.                                           *)
(***************************************************************************)
EXTENDS WaveAssignment, NumberLemmas

\* FirstOf picks a member: the Vec's first element exists and is its own.
LEMMA FirstOfIn ==
    ASSUME NEW S \in SUBSET Node, S # {}
    PROVE  FirstOf(S) \in S
<1> DEFINE T == {Rank[n] : n \in S}
<1>1. T \subseteq Nat /\ T # {}
  BY NodeAssumption
<1>2. PICK x \in T : \A y \in T : x <= y
  BY <1>1, SmallestNumber
<1>3. \E n \in S : \A m \in S : Rank[n] <= Rank[m]
  BY <1>2
<1> QED
  BY <1>3 DEF FirstOf

\* While references can be layered, some remaining target waits for nobody.
LEMMA ReadyExists ==
    ASSUME NEW R \in SUBSET Node, R # {}, NEW level \in [Node -> Nat],
           \A e \in requires : level[e[2]] < level[e[1]]
    PROVE  Ready(R, requires) # {}
<1> DEFINE T == {level[n] : n \in R}
<1>1. T \subseteq Nat /\ T # {}
  OBVIOUS
<1>2. PICK x \in T : \A y \in T : x <= y
  BY <1>1, SmallestNumber
<1>3. PICK n \in R : \A m \in R : level[n] <= level[m]
  BY <1>2
<1>4. ASSUME NEW p \in R, <<n, p>> \in requires
      PROVE  FALSE
  <2>1. level[p] < level[n]
    BY <1>4
  <2>2. level[n] \in Nat /\ level[p] \in Nat /\ level[n] <= level[p]
    BY <1>3
  <2> QED
    BY <2>1, <2>2
<1> QED
  BY <1>3, <1>4 DEF Ready

\* With something ready, the next wave holds ready targets only, at least one
\* of them; a destructive disable is alone, and so is the canary.
LEMMA SelectedReady ==
    ASSUME TypeOK, Ready(remaining, requires) # {},
           NEW S, S = Selected(remaining, canary, high, requires)
    PROVE  /\ S # {} /\ S \subseteq Ready(remaining, requires)
           /\ \A m, n \in S : n \in high => m = n
           /\ \A m, n \in S : canary => m = n
<1> DEFINE ready   == Ready(remaining, requires)
           regular == ready \ high
<1>1. ready \subseteq Node /\ regular \subseteq Node /\ ready \subseteq remaining
  BY DEF Ready, TypeOK, Ordered
<1>2. FirstOf(ready) \in ready
  BY <1>1, FirstOfIn
<1>3. CASE regular = {}
  <2>1. S = {FirstOf(ready)}
    BY <1>3 DEF Selected
  <2> QED
    BY <2>1, <1>2
<1>4. CASE regular # {} /\ canary
  <2>1. FirstOf(regular) \in regular
    BY <1>1, <1>4, FirstOfIn
  <2>2. S = {FirstOf(regular)}
    BY <1>4 DEF Selected
  <2> QED
    BY <2>1, <2>2
<1>5. CASE regular # {} /\ ~canary
  <2>1. S = regular
    BY <1>5 DEF Selected
  <2> QED
    BY <2>1, <1>5
<1> QED
  BY <1>3, <1>4, <1>5

\* A wave takes only targets that have none, when a cycle must be broken too.
LEMMA SelectedRemaining ==
    ASSUME TypeOK
    PROVE  Selected(remaining, canary, high, requires) \subseteq remaining
<1>1. CASE Ready(remaining, requires) = {}
  BY <1>1 DEF Selected, SourceDependencyComponent, ComponentOf
<1>2. CASE Ready(remaining, requires) # {}
  BY <1>2, SelectedReady DEF Ready
<1> QED
  BY <1>1, <1>2
----------------------------------------------------------------------------
(* The invariants are not inductive alone: a new wave must be above every  *)
(* wave given so far, and the canary flag must tell what has been given.   *)

WavesPast == \A n \in Assigned : wave[n] < next

CanaryExact == canary <=> apply \cap Assigned = {}

ApplyInOrder ==
    \A m, n \in apply \cap Assigned :
        m # n /\ wave[m] = wave[n] => \E c \in apply \cap Assigned : wave[c] < wave[m]

DisablesAlone ==
    \A n \in high \cap Assigned, m \in Assigned : wave[m] = wave[n] => m = n

Ordering == \A e \in requires : e[1] \in Assigned
                => e[2] \in Assigned /\ wave[e[2]] < wave[e[1]]

IInv == /\ TypeOK
        /\ WavesPast
        /\ CanaryExact
        /\ Layered => Ordering /\ ApplyInOrder /\ DisablesAlone

LEMMA InitIInv == Init => IInv
<1> SUFFICES ASSUME Init PROVE IInv
  OBVIOUS
<1>1. TypeOK
  BY DEF Init, TypeOK, Ordered
<1>2. Assigned = {}
  BY DEF Init, Assigned
<1> QED
  BY <1>1, <1>2 DEF Init, IInv, WavesPast, CanaryExact, Ordering, ApplyInOrder,
                    DisablesAlone

LEMMA StepIInv == IInv /\ [AssignWave]_vars => IInv'
<1> SUFFICES ASSUME IInv, [AssignWave]_vars
             PROVE  IInv'
  OBVIOUS
<1>1. CASE UNCHANGED vars
  BY <1>1 DEF IInv, TypeOK, WavesPast, CanaryExact, Layered, Ordering, ApplyInOrder,
              DisablesAlone, Assigned, Ordered, vars, plan
<1>2. CASE AssignWave
  <2> DEFINE S == Selected(remaining, canary, high, requires)
  <2>1. /\ apply' = apply /\ high' = high /\ requires' = requires
        /\ remaining # {}
        /\ remaining' = remaining \ S
        /\ canary' = (canary /\ S \cap apply = {})
        /\ wave' = [n \in Node |-> IF n \in S THEN next ELSE wave[n]]
        /\ next' = next + 1
    BY <1>2 DEF AssignWave, plan
  <2>2. TypeOK /\ S \subseteq remaining
    BY SelectedRemaining DEF IInv
  <2>3. ASSUME Layered
        PROVE  /\ S \subseteq Ready(remaining, requires)
               /\ \A m, n \in S : n \in high => m = n
               /\ \A m, n \in S : canary => m = n
    <3>1. PICK level \in [Node -> 0..Cardinality(Node)] :
                  \A e \in requires : level[e[2]] < level[e[1]]
      BY <2>3 DEF Layered
    <3>2. level \in [Node -> Nat] /\ remaining \in SUBSET Node
      BY <2>2 DEF TypeOK, Ordered
    <3>3. Ready(remaining, requires) # {}
      BY <2>1, <3>1, <3>2, ReadyExists
    <3> QED
      BY <2>2, <3>3, SelectedReady
  <2> HIDE DEF S
  <2>4. /\ Ordered' = Ordered /\ Layered' = Layered
        /\ Assigned' = Assigned \cup S /\ S \cap Assigned = {}
    BY <2>1, <2>2 DEF Assigned, Ordered, Layered, TypeOK
  <2>5. TypeOK'
    BY <2>1, <2>2 DEF TypeOK, Ordered
  <2>6. /\ \A n \in S : n \in Node /\ wave'[n] = next
        /\ \A n \in Assigned : n \in Node /\ wave'[n] = wave[n] /\ wave[n] < next
        /\ next \in Nat /\ wave \in [Node -> Nat]
    BY <2>1, <2>2, <2>4 DEF IInv, TypeOK, WavesPast, Assigned, Ordered
  <2>7. WavesPast'
    BY <2>1, <2>4, <2>6 DEF WavesPast
  <2>8. CanaryExact'
    BY <2>1, <2>2, <2>4 DEF IInv, CanaryExact, TypeOK
  <2>9. ASSUME Layered
        PROVE  Ordering'
    <3> SUFFICES ASSUME NEW e \in requires, e[1] \in Assigned'
                 PROVE  e[2] \in Assigned' /\ wave'[e[2]] < wave'[e[1]]
      BY <2>1 DEF Ordering
    <3>1. CASE e[1] \in Assigned
      BY <2>9, <3>1, <2>4, <2>6 DEF IInv, Ordering
    <3>2. CASE e[1] \in S
      <4>1. e = <<e[1], e[2]>> /\ e[2] \in Ordered
        BY <2>2 DEF TypeOK
      <4>2. e[2] \in Assigned
        BY <2>3, <2>9, <3>2, <4>1 DEF Ready, Assigned
      <4> QED
        BY <3>2, <4>2, <2>4, <2>6
    <3> QED
      BY <2>4, <3>1, <3>2
  <2>10. ASSUME Layered
         PROVE  ApplyInOrder'
    <3> SUFFICES ASSUME NEW m \in apply \cap Assigned', NEW n \in apply \cap Assigned',
                        m # n, wave'[m] = wave'[n]
                 PROVE  \E c \in apply \cap Assigned' : wave'[c] < wave'[m]
      BY <2>1 DEF ApplyInOrder
    <3>1. CASE m \in Assigned
      <4>1. n \in Assigned
        BY <3>1, <2>4, <2>6
      <4>2. PICK c \in apply \cap Assigned : wave[c] < wave[m]
        BY <2>10, <3>1, <4>1, <2>6 DEF IInv, ApplyInOrder
      <4> QED
        BY <3>1, <4>2, <2>4, <2>6
    <3>2. CASE m \in S
      <4>1. n \in S
        BY <3>2, <2>4, <2>6
      <4>2. ~canary
        BY <2>3, <2>10, <3>2, <4>1
      <4>3. PICK c \in apply \cap Assigned : TRUE
        BY <4>2 DEF IInv, CanaryExact
      <4> QED
        BY <3>2, <4>3, <2>4, <2>6
    <3> QED
      BY <2>4, <3>1, <3>2
  <2>11. ASSUME Layered
         PROVE  DisablesAlone'
    <3> SUFFICES ASSUME NEW n \in high \cap Assigned', NEW m \in Assigned',
                        wave'[m] = wave'[n]
                 PROVE  m = n
      BY <2>1 DEF DisablesAlone
    <3>1. CASE n \in S
      <4>1. m \in S
        BY <3>1, <2>4, <2>6
      <4> QED
        BY <2>3, <2>11, <3>1, <4>1
    <3>2. CASE n \in Assigned
      <4>1. m \in Assigned
        BY <3>2, <2>4, <2>6
      <4> QED
        BY <2>11, <3>2, <4>1, <2>6 DEF IInv, DisablesAlone
    <3> QED
      BY <2>4, <3>1, <3>2
  <2> QED
    BY <2>4, <2>5, <2>7, <2>8, <2>9, <2>10, <2>11 DEF IInv
<1> QED
  BY <1>1, <1>2

LEMMA Invariance == Spec => []IInv
<1> QED
  BY InitIInv, StepIInv, PTL DEF Spec
----------------------------------------------------------------------------
\* The loop's variables keep their types, for every fleet and plan.
THEOREM TypeCorrect == Spec => []TypeOK
<1>1. IInv => TypeOK
  BY DEF IInv
<1> QED
  BY <1>1, Invariance, PTL

\* assign_waves gives every caller a later wave than the listeners it dials,
\* for every fleet and every acyclic set of references.
THEOREM ListenersGoFirst == Spec => []ListenersFirst
<1>1. IInv => ListenersFirst
  BY DEF IInv, Ordering, ListenersFirst
<1> QED
  BY <1>1, Invariance, PTL

\* Without cycles the first wave that replaces Xray holds one machine.
THEOREM CanaryGoesAlone == Spec => [](Layered => CanaryAlone)
<1>1. IInv => (Layered => CanaryAlone)
  BY DEF IInv, ApplyInOrder, CanaryAlone
<1> QED
  BY <1>1, Invariance, PTL

\* Without cycles a destructive disable shares its wave with nothing.
THEOREM DisableGoesAlone == Spec => [](Layered => DestructiveAlone)
<1>1. IInv => (Layered => DestructiveAlone)
  BY DEF IInv, DisablesAlone, DestructiveAlone
<1> QED
  BY <1>1, Invariance, PTL

\* Without cycles every iteration of the loop gives some target its wave.
THEOREM LoopAdvances == Spec => [][Layered => remaining' # remaining]_vars
<1>1. ASSUME IInv, [AssignWave]_vars
      PROVE  [Layered => remaining' # remaining]_vars
  <2> SUFFICES ASSUME AssignWave, Layered
               PROVE  remaining' # remaining
    BY <1>1
  <2> DEFINE S == Selected(remaining, canary, high, requires)
  <2>1. PICK level \in [Node -> 0..Cardinality(Node)] :
                \A e \in requires : level[e[2]] < level[e[1]]
    BY DEF Layered
  <2>2. /\ level \in [Node -> Nat] /\ remaining \in SUBSET Node /\ remaining # {}
        /\ TypeOK
    BY <1>1 DEF IInv, TypeOK, Ordered, AssignWave
  <2>3. S # {} /\ S \subseteq remaining
    BY <2>1, <2>2, ReadyExists, SelectedReady, SelectedRemaining
  <2>4. remaining' = remaining \ S
    BY DEF AssignWave
  <2> QED
    BY <2>3, <2>4
<1> QED
  BY <1>1, Invariance, PTL DEF Spec
=============================================================================
