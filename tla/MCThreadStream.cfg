SPECIFICATION FairSpec
CONSTANTS
    parent = parent
    child = child
    Thread = {parent, child}
    NoThread = NoThread
    MaxSeq = 3
    Readable = {1, 3}
    PendingLimit = 2
    MaxAsked = 2
    MaxLate = 1
    MaxLoad = 2
    MaxRelated = 1
    Parent <- MCNoParent
    Mentions <- MCMentions
    SettledIn <- MCSettledIn
INVARIANTS
    OneRead
    GapPursued
    ScreenExact
PROPERTIES
    ScreenPromise
    CatchesUp
CHECK_DEADLOCK FALSE
