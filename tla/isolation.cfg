\* Isolation, its debt and the way back under every command and fault of a
\* release, with other transactions between a plan and its insertion.
CONSTANTS
    n1 = n1
    n2 = n2
    n3 = n3
    Node <- TwoNodes
    Rank <- TwoRanks
    Requires <- NoReferences
    HotSwap = {}
    Unattended = FALSE
    AtomicPlan = FALSE
    Commands = {"config", "edit", "isolate", "cancel", "halt", "crash", "fail", "retry", "lose"}
    MaxRev = 2
    MaxDep = 3
    MaxClaim = 2
SPECIFICATION Spec
\* Nothing obliges an operator to act, and the bounds end every run.
CHECK_DEADLOCK FALSE
INVARIANTS
    TypeOK
    SingleFlight
    Truthful
    OneDebt
    NoOrphanedDebt
    LedgerTruthful
