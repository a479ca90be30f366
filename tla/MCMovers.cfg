SPECIFICATION Spec
CONSTANTS
    LastServo = 1
    Calibration = {c1}
    Zero = zero
    Frequency = {1, 2}
    MaxCommands = 3
    MaxFaults = 1
INVARIANTS
    TypeOK
    RunsAsSaved
    AtRest
CHECK_DEADLOCK FALSE
