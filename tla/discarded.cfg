\* A discard of the pending permission line.
CONSTANTS
    n1 = n1
    n2 = n2
    Node <- Machines
    Commands = {"operator", "discard", "config"}
    MaxEdits = 3
    MaxConfig = 1
SPECIFICATION Spec
CHECK_DEADLOCK FALSE
INVARIANTS
    BaselineStands
