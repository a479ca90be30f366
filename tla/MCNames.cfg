SPECIFICATION Spec
CONSTANTS
    Inputs <- MCInputs
    MinBytes = 1
    MaxBytes = 5
    After = 128
INVARIANTS
    TypeOK
    VerdictIsRight
CHECK_DEADLOCK FALSE
