\* Lifecycle changes of machines, isolated or owing debt too, cancel and re-plan what is open.
CONSTANTS
    n1 = n1
    n2 = n2
    n3 = n3
    Node <- TwoNodes
    Rank <- TwoRanks
    Requires <- NoReferences
    HotSwap = {}
    Unattended = FALSE
    AtomicPlan = TRUE
    Commands = {"config", "edit", "isolate", "retire", "reactivate", "repair", "abandon", "fail"}
    MaxRev = 3
    MaxDep = 3
    MaxClaim = 1
SPECIFICATION Spec
\* Nothing obliges an operator to act, and the bounds end every run.
CHECK_DEADLOCK FALSE
INVARIANTS
    RetiredMeansOff
