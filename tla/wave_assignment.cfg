\* Every plan, every dependency graph over three machines.
CONSTANTS
    n1 = n1
    n2 = n2
    n3 = n3
    Node <- Machines
    Rank <- Order
SPECIFICATION Spec
\* The loop ends.
CHECK_DEADLOCK FALSE
INVARIANTS
    TypeOK
    ListenersFirst
    OnlyCyclesTogether
    CanaryAlone
    DestructiveAlone
    ComputesAssignWaves
