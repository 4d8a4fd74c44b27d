\* Waves on three machines: n1 dials n2, n3 is told without a restart.
CONSTANTS
    n1 = n1
    n2 = n2
    n3 = n3
    Node <- ThreeNodes
    Rank <- ThreeRanks
    Requires <- Reference
    HotSwap = {n3}
    Unattended = FALSE
    AtomicPlan = TRUE
    Commands = {"config", "edit", "fail", "retry", "retire", "halt"}
    MaxRev = 4
    MaxDep = 3
    MaxClaim = 1
SPECIFICATION Spec
\* Nothing obliges an operator to act, and the bounds end every run.
CHECK_DEADLOCK FALSE
INVARIANTS
    WaveOrder
    DisruptionConfirmed
    CallerWaits
PROPERTIES
    ServeWhatRuns
