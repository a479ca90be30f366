SPECIFICATION FairSpec
CONSTANTS
    Addr = {a1, a2, a3}
    NULL = NULL
    MaxPolls = 2
    MaxCommands = 3
INVARIANTS
    TypeOK
    OneLedTask
    StopsForAReason
PROPERTIES
    RunsUntilStopped
    CommandEnds
CHECK_DEADLOCK FALSE
