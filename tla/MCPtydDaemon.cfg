CONSTANTS
    Client = {c1, c2}
    Term = {t1}
    NoTerm = none
    RingMax = 1
    OutboxMax = 1
    QueueMax = 1
    Sizes <- OneSize
    MaxSeq = 1
    MaxState = 2
    VtFails = TRUE
SPECIFICATION Spec
VIEW OwedOnly
SYMMETRY Interchangeable
CHECK_DEADLOCK FALSE
INVARIANTS
    HeardWhileLive
    ExitNeverMissed
    NoDeadSubscription
