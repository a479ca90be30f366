SPECIFICATION FairSpec
CONSTANTS
    Corr = {0, 1, 2}
    Opcode = {0, 2, 3, 5}
    Payload <- MCPayload
    Size <- MCSize
    MaxChunks = 2
    Capacity = 2
    Timeout = 0
    QueueLength = 1
    Asks = {2, 5}
    ChunksOf <- MCChunksOf
    FramesOf <- MCFramesOf
    MaxConn = 2
    MaxAsk = 2
    MaxOther = 0
    MaxCccd = 2
    MaxMtu = 0
    MaxFail = 2
    MaxBridge = 1
    MaxEvents = 2
    MaxTime = 0
INVARIANT
    FirstHasNoGap
PROPERTIES
    CleanConfirmation
    EverythingDrains
    EntitledIsAnswered
CHECK_DEADLOCK FALSE
