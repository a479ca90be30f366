SPECIFICATION Spec
CONSTANTS
    MaxPacket = 512
    MaxColors = 32
    LightingModes = 5
    None = None
    MaxQueued = 1
    Inputs <- MCInputs
    Garbage <- MCGarbage
INVARIANTS
    TypeOK
    NeverTorn
    Converges
PROPERTIES
    ReadsCalibration
CHECK_DEADLOCK FALSE
