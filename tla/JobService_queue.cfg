CONSTANTS
    Samples = 1
    Jobs = {j1, j2, j3}
    NoJob = NoJob
    MaxQueued = 1
    Callers = {}
    Sweeper = sweeper
    MaxGenerations = 2
    DeletesRequeued = FALSE
SPECIFICATION Spec
SYMMETRY Symmetry
PROPERTY LifecycleSpec
CHECK_DEADLOCK FALSE
