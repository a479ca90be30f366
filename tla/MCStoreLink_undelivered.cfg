SPECIFICATION Spec
CONSTANTS
    Corr = {0, 1, 2}
    Opcode = {0, 2, 3, 5}
    Payload <- MCPayload
    Size <- MCSize
    MaxChunks = 2
    Capacity = 2
    Timeout = 0
    QueueLength = 1
    Asks = {5}
    ChunksOf <- MCChunksOf
    FramesOf <- MCFramesOf
    MaxConn = 1
    MaxAsk = 1
    MaxOther = 0
    MaxCccd = 2
    MaxMtu = 0
    MaxFail = 1
    MaxBridge = 0
    MaxEvents = 2
    MaxTime = 0
PROPERTY
    PlaysOnlyDelivered
CHECK_DEADLOCK FALSE
