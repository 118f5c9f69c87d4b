CONSTANTS
    Writer = {w1, w2}
    InputMax = 3
    Room = 2
    Sizes <- ChunkSizes
    MaxChunks = 4
SPECIFICATION FairSpec
CHECK_DEADLOCK FALSE
INVARIANTS
    AcceptedInOrder
    NoLostInput
PROPERTIES
    InputDelivered
