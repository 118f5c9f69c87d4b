CONSTANTS
    Client = {c1}
    Term = {t1, t2}
    Hearing <- AllHearAll
    High = 1
    Low = 1
    OutboxMax = 4
    BatchMax = 1
    LineMax = 1
    TtyMax = 1
    OtherMax = 1
SPECIFICATION FairSpec
INVARIANTS
    NoLostWakeup
    PauseHasOwner
    BacklogBounded
PROPERTIES
    OutputFlows
    
CHECK_DEADLOCK FALSE
