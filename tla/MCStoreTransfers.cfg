SPECIFICATION Spec
CONSTANTS
    Corr = {0, 1}
    Opcode = {0}
    Payload <- MCPayload
    Size <- MCSize
    MaxChunks = 3
    Capacity = 3
    Timeout = 1
    Inputs <- MCInputs
    MaxTime = 2
    MaxSeen = 3
INVARIANTS
    StoreTypeOK
    RegistersMatchHistory
PROPERTY
    RefinesPromise
