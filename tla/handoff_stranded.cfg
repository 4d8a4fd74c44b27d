\* The machine restarts while a binary handoff is under way.
CONSTANTS
    Kinds = {"binary"}
    Faults = {"rpc", "death", "reboot"}
    MaxFaults = 1
    MaxHandoffs = 1
    MaxGen = 6
SPECIFICATION FairSpec
CHECK_DEADLOCK FALSE
PROPERTIES
    ServiceAlwaysReturns
