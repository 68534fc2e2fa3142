CONSTANTS
    Samples = 1
    Jobs = {j1}
    NoJob = NoJob
    MaxQueued = 1
    Callers = {c1}
    Sweeper = sweeper
    MaxGenerations = 2
    DeletesRequeued = TRUE
SPECIFICATION Spec
INVARIANT RowsDecode
CHECK_DEADLOCK FALSE
