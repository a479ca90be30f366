SPECIFICATION Spec
CONSTANTS
    SlotCount = 2
    Prefix = 1
    NameMax = 2
    FrameSize = 2
    MaxFrames = 2
    Id = {1, 2}
    Empty = Empty
    Inputs <- MCInputs
    Damage <- MCDamage
    MaxFaults = 2
INVARIANTS
    TypeOK
    OkIsKept
    StoredIsUsable
    SeenIsPlayable
    ListFits
