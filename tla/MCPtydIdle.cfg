CONSTANTS
    Client = {c1, c2, c3}
    Term = {t1}
    IdleExit = 2
SPECIFICATION FairSpec
CHECK_DEADLOCK FALSE
INVARIANTS
    ClockHonest
PROPERTIES
    ExitsUnlessRaced
