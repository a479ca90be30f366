SPECIFICATION PlaybackSpec
CONSTANTS
    l = l
    r = r
    Channel <- MCChannel
    Inputs <- MCInputs
    Offsets <- MCOffsets
    MaxKeyframes = 3
    MaxAngle = 4
    Tick = 4
    RtosTick = 2
    MaxDelay = 3
    Word = 40
    Duty = 20
    Overshoot <- MCOvershoot
INVARIANTS
    PlaybackTypeOK
    Punctual
PROPERTIES
    NeverBack
    NoJump
CHECK_DEADLOCK FALSE
