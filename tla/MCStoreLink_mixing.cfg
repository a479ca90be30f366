SPECIFICATION Spec
CONSTANTS
    Corr = {0, 1, 2}
    Opcode = {0, 2, 3, 5}
    Payload <- MCPayload
    Size <- MCSize
    MaxChunks = 2
    Capacity = 2
    Timeout = 0
    QueueLength = 1
    Asks = {3}
    ChunksOf <- MCChunksOf
    FramesOf <- MCFramesOf
    MaxConn = 2
    MaxAsk = 2
    MaxOther = 1
    MaxCccd = 2
    MaxMtu = 0
    MaxFail = 0
    MaxBridge = 0
    MaxEvents = 2
    MaxTime = 0
INVARIANT
    NoMixing
CHECK_DEADLOCK FALSE
