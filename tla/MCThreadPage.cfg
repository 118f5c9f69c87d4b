SPECIFICATION Spec
CONSTANTS
    parent = parent
    child = child
    Thread = {parent, child}
    NoThread = NoThread
    MaxSeq = 2
    Readable = {1, 2}
    PendingLimit = 2
    MaxAsked = 3
    MaxLate = 0
    MaxLoad = 1
    MaxRelated = 1
    Parent <- MCParent
    Mentions <- MCMentions
    SettledIn <- MCSettledIn
PROPERTIES
    CardsForward
CHECK_DEADLOCK FALSE
