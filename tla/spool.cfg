\* The queues of the agent, with lost answers, refusals, overflow and crashes.
CONSTANTS
    Spools <- Kinds
    MaxItems = 4
    MaxCrash = 2
SPECIFICATION FairSpec
\* The producer may be done and the queue empty.
CHECK_DEADLOCK FALSE
INVARIANTS
    TypeOK
    LossIsCounted
PROPERTIES
    InOrder
    UnansweredStays
    QueueMoves
