--------------------------- MODULE WaveAssignment ---------------------------
(***************************************************************************)
(* The loop of assign_waves as a state machine: the plan is chosen in the  *)
(* initial state, every step is one iteration of the loop.                 *)
(***************************************************************************)
EXTENDS Waves

VARIABLES
    apply,      \* xray_apply_targets
    high,       \* high_risk_targets
    requires,   \* incoming, as pairs <<dependent, prerequisite>>
    remaining,  \* ordered targets without a wave
    canary,     \* no Xray has been replaced yet
    wave,       \* the wave of every target, zero while it has none
    next        \* the loop's wave

plan == <<apply, high, requires>>
vars == <<plan, remaining, canary, wave, next>>

Ordered == apply \cup high

\* Mutant of Init: prerequisites that need no wave of their own are kept.
InitUnfiltered ==
    /\ apply \in SUBSET Node
    /\ high \in SUBSET Node
    /\ requires \in SUBSET {e \in Node \X Node : e[1] # e[2]}
    /\ remaining = Ordered
    /\ canary = TRUE
    /\ wave = [n \in Node |-> 0]
    /\ next = 1

Init ==
    /\ apply \in SUBSET Node
    /\ high \in SUBSET Node
    /\ requires \in SUBSET {e \in Ordered \X Ordered : e[1] # e[2]}
    /\ remaining = Ordered
    /\ canary = TRUE
    /\ wave = [n \in Node |-> 0]
    /\ next = 1

\* Mutant of AssignWave: the first wave ends the canary even if it replaced nothing.
AssignWaveOnce ==
    /\ remaining # {}
    /\ LET selected == Selected(remaining, canary, high, requires)
       IN  /\ remaining' = remaining \ selected
           /\ wave' = [n \in Node |-> IF n \in selected THEN next ELSE wave[n]]
    /\ canary' = FALSE
    /\ next' = next + 1
    /\ UNCHANGED plan

AssignWave ==
    /\ remaining # {}
    /\ LET selected == Selected(remaining, canary, high, requires)
       IN  /\ remaining' = remaining \ selected
           /\ canary' = (canary /\ selected \cap apply = {})
           /\ wave' = [n \in Node |-> IF n \in selected THEN next ELSE wave[n]]
    /\ next' = next + 1
    /\ UNCHANGED plan

Spec == Init /\ [][AssignWave]_vars
----------------------------------------------------------------------------
Assigned == Ordered \ remaining

\* The loop's variables are well typed.
TypeOK ==
    /\ apply \subseteq Node /\ high \subseteq Node
    /\ requires \subseteq Ordered \X Ordered
    /\ remaining \subseteq Ordered
    /\ canary \in BOOLEAN
    /\ wave \in [Node -> Nat]
    /\ next \in Nat \ {0}

\* References between machines that can be layered contain no cycle.
Layered ==
    \E level \in [Node -> 0..Cardinality(Node)] :
        \A e \in requires : level[e[2]] < level[e[1]]

\* Without reference cycles a machine's wave comes strictly after the waves of
\* every machine whose listener it dials, destructive disables included.
ListenersFirst ==
    Layered => \A e \in requires :
        e[1] \in Assigned => e[2] \in Assigned /\ wave[e[2]] < wave[e[1]]

\* Whether m and n wait for each other, directly or through other machines.
Entangled(m, n) == m \in ComponentOf(n, Ordered, requires)

\* With cycles, only machines of one cycle share a wave with what they wait
\* for: source_dependency_component never releases more, nor anything early.
OnlyCyclesTogether ==
    \A e \in requires : e[1] \in Assigned =>
        /\ e[2] \in Assigned
        /\ wave[e[2]] <= wave[e[1]]
        /\ wave[e[2]] = wave[e[1]] => Entangled(e[1], e[2])

\* The first wave that replaces Xray is a canary: one machine, unless a cycle
\* forces its whole component to move at once.
CanaryAlone ==
    \A m, n \in apply \cap Assigned :
        /\ m # n
        /\ wave[m] = wave[n]
        /\ ~Entangled(m, n)
        => \E c \in apply \cap Assigned : wave[c] < wave[m]

\* A destructive disable owns its wave, unless it is part of a cycle.
DestructiveAlone ==
    \A n \in high \cap Assigned, m \in Assigned :
        m # n /\ wave[m] = wave[n] => Entangled(m, n)

\* The loop computes the function the release planner uses.
ComputesAssignWaves ==
    remaining = {} => wave = AssignWaves(apply, high, requires)

=============================================================================
