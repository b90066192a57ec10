SPECIFICATION PulseSpec
CONSTANTS
    File <- MCFile
    Budget <- MCBudget
    Unbounded = 9
CHECK_DEADLOCK FALSE
INVARIANTS
    RowsInOrder
    RunRecorded
PROPERTY
    PulseEnds
