\* A journaled counter under every fault.
CONSTANTS
    Journal = TRUE
    Depth = 2
    Commands = {"stop", "lose", "agent", "xray", "machine", "clock", "prune"}
    MaxBytes = 1
    MaxSkew = 0
    MaxTime = 3
    MaxSeq = 4
    MaxStarts = 2
    MaxFaults = 1
SPECIFICATION Spec
\* Traffic, time and sequences are bounded.
CHECK_DEADLOCK FALSE
INVARIANTS
    TypeOK
    BookedOnce
    OnlyExpiryOrClockBlocks
PROPERTIES
    ImplementsLedger
