SPECIFICATION FairSpec
CONSTANTS
    Piece = {first, slash}
    Command = {slash}
    MaxQueue = 2
    MaxClicks = 4
INVARIANTS
    NothingVanishes
    SentOnce
    OneStart
    OneRollback
PROPERTIES
    RollbackEnds
    QueueDrains
