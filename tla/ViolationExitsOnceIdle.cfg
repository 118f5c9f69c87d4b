CONSTANTS
    Client = {c1, c2}
    Term = {t1}
    IdleExit = 2
SPECIFICATION FairSpec
CHECK_DEADLOCK FALSE
PROPERTY
    ExitsOnceIdle
