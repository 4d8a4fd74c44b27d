\* Two handoffs of either kind, with two faults anywhere.
CONSTANTS
    Kinds = {"config", "binary"}
    Faults = {"rpc", "agent", "death", "silence", "reboot", "error"}
    MaxFaults = 2
    MaxHandoffs = 2
    MaxGen = 8
SPECIFICATION FairSpec
\* Handoffs are bounded: everything may be at rest.
CHECK_DEADLOCK FALSE
INVARIANTS
    TypeOK
    ServingMatchesDisk
    OneServes
    TruthfulReport
PROPERTIES
    SessionsDrain
    ServiceReturns
