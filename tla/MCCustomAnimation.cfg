SPECIFICATION Spec
CONSTANTS
    TransferId = {0, 1}
    MaxChunks = 3
    Sizes = {1, 2}
    Capacity = 3
    QueueLength = 2
    Malformed <- MCMalformed
    MaxTransfers = 3
INVARIANTS
    TypeOK
    PlayedWhole
    PlayedOnceInOrder
    MixedOnlyIfStartMissed
CHECK_DEADLOCK FALSE
