\* The permission line beside configuration orders, quotas, discards and crashes.
CONSTANTS
    n1 = n1
    n2 = n2
    Node <- Machines
    Commands = {"operator", "quota", "config", "cancel", "discard", "fail", "crash", "lose"}
    MaxEdits = 3
    MaxConfig = 1
SPECIFICATION Spec
SYMMETRY Interchangeable
\* Edits are bounded and everything may be at rest.
CHECK_DEADLOCK FALSE
INVARIANTS
    TypeOK
    OperatorOwnsDisable
    Remembered
PROPERTIES
    NeverBack
