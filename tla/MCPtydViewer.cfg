CONSTANTS
    Client = {c1, c2}
    Term = {t1}
    NoTerm = none
    RingMax = 1
    OutboxMax = 1
    QueueMax = 1
    Sizes <- OneSize
    MaxSeq = 2
    MaxState = 2
    Guest = {c2}
    VtFails = FALSE
SPECIFICATION AppSpec
VIEW Unobserved
CHECK_DEADLOCK FALSE
PROPERTIES
    ExactView
