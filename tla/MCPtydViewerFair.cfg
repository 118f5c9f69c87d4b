CONSTANTS
    Client = {c1}
    Term = {t1}
    NoTerm = none
    RingMax = 1
    OutboxMax = 3
    QueueMax = 1
    Sizes <- TwoSizes
    MaxSeq = 2
    MaxState = 3
    Guest = {}
    VtFails = TRUE
SPECIFICATION FairAppSpec
CHECK_DEADLOCK FALSE
INVARIANTS
    TruncationHonest
PROPERTIES
    CatchesUp
    RequestsAnswered
