------------------------------- MODULE Waves -------------------------------
(***************************************************************************)
(* assign_waves of brocade-deployment/src/plan.rs: the pure algorithm that *)
(* orders the Xray changes of one configuration release into waves.        *)
(*                                                                         *)
(* A plan is abstracted to three things: apply, the machines whose Xray is *)
(* replaced; high, the machines with a disruptive disable; and requires,   *)
(* the pairs <<dependent, prerequisite>> that                              *)
(* assign_listener_reference_prerequisites derived.  Everything else stays *)
(* in wave zero.                                                           *)
(***************************************************************************)
EXTENDS Integers, FiniteSets

CONSTANTS Node,   \* the machines of the fleet
          Rank    \* plan.targets is sorted by node id: Rank is that order

ASSUME NodeAssumption ==
    /\ IsFiniteSet(Node)
    /\ Rank \in [Node -> Nat]
    /\ \A m, n \in Node : Rank[m] = Rank[n] => m = n

FirstOf(S) == CHOOSE n \in S : \A m \in S : Rank[n] <= Rank[m]

\* Mutant of Ready: prerequisites are ignored.
ReadyAnyway(remaining, requires) == remaining

\* Targets all of whose prerequisites have already been given a wave.
Ready(remaining, requires) ==
    {n \in remaining : \A p \in remaining : <<n, p>> \notin requires}

\* Everything start can reach by walking from prerequisite to dependent.
ReachedFrom(start, remaining, requires) ==
    LET seen[k \in 0..Cardinality(remaining)] ==
            IF k = 0 THEN {start}
            ELSE LET near == seen[k - 1]
                 IN  near \cup {m \in remaining : \E p \in near : <<m, p>> \in requires}
    IN  seen[Cardinality(remaining)]

ComponentOf(n, remaining, requires) ==
    {m \in remaining : /\ m \in ReachedFrom(n, remaining, requires)
                       /\ n \in ReachedFrom(m, remaining, requires)}

\* Mutant of SourceDependencyComponent: a cycle releases everything at once.
EverythingLeft(remaining, requires) == remaining

\* The first strongly connected component that waits for nothing outside it.
SourceDependencyComponent(remaining, requires) ==
    LET source(n) == LET c == ComponentOf(n, remaining, requires)
                     IN  \A m \in c, p \in remaining \ c : <<m, p>> \notin requires
    IN  ComponentOf(FirstOf({n \in remaining : source(n)}), remaining, requires)

\* Mutants of Selected: no canary, destructive disables batched.
SelectedWithoutCanary(remaining, canary, high, requires) ==
    LET ready   == Ready(remaining, requires)
        regular == ready \ high
    IN  IF ready = {}  THEN SourceDependencyComponent(remaining, requires)
        ELSE IF regular = {} THEN {FirstOf(ready)}
        ELSE regular

SelectedInBatches(remaining, canary, high, requires) ==
    LET ready   == Ready(remaining, requires)
        regular == ready \ high
    IN  IF ready = {}  THEN SourceDependencyComponent(remaining, requires)
        ELSE IF regular = {} THEN ready
        ELSE IF canary THEN {FirstOf(regular)}
        ELSE regular

\* One iteration of the loop: which targets go into the next wave.
Selected(remaining, canary, high, requires) ==
    LET ready   == Ready(remaining, requires)
        regular == ready \ high
    IN  IF ready = {}  THEN SourceDependencyComponent(remaining, requires)
        ELSE IF regular = {} THEN {FirstOf(ready)}
        ELSE IF canary THEN {FirstOf(regular)}
        ELSE regular

\* The whole loop.  The canary is over once any Xray has been replaced, and one
\* wave per machine is always enough.
AssignWaves(apply, high, requires) ==
    LET ordered == apply \cup high
        left[w \in 0..Cardinality(Node)] ==
            IF w = 0 THEN ordered
            ELSE left[w - 1] \ Selected(left[w - 1], apply \subseteq left[w - 1],
                                        high, requires)
    IN  [n \in Node |-> IF n \notin ordered THEN 0
                        ELSE CHOOSE w \in 1..Cardinality(Node) :
                                n \in left[w - 1] \ left[w]]
=============================================================================
