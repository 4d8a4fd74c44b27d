\* Quota enforcement beside an operator's edits, configuration and crashes of the
\* worker, while agents poll on.
CONSTANTS
    n1 = n1
    n2 = n2
    Node = {n1}
    Commands = {"quota", "operator", "config", "crash", "lose"}
    MaxEdits = 4
    MaxConfig = 1
SPECIFICATION FairSpec
\* Edits are bounded and everything may be at rest.
CHECK_DEADLOCK FALSE
PROPERTIES
    QuotaBites
