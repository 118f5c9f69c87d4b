CONSTANTS
    Reader = {r1, r2}
    Term = {t1, t2}
SPECIFICATION FairSpec
CHECK_DEADLOCK FALSE
INVARIANTS
    NoOrphanShell
PROPERTIES
    SignalledGoes
