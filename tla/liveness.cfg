\* Releases and debts come to rest when agents keep polling; configuration and
\* permission orders side by side.
CONSTANTS
    n1 = n1
    n2 = n2
    n3 = n3
    Node <- TwoNodes
    Rank <- TwoRanks
    Requires <- NoReferences
    HotSwap = {}
    Unattended = TRUE
    AtomicPlan = TRUE
    Commands = {"config", "edit", "isolate", "permit", "grants", "lose"}
    MaxRev = 2
    MaxDep = 3
    MaxClaim = 1
SPECIFICATION FairSpec
\* Nothing obliges an operator to act, and the bounds end every run.
CHECK_DEADLOCK FALSE
INVARIANTS
    IsolatedNotBlocking
PROPERTIES
    ReleasesSettle
    DebtIsWorkedOff
