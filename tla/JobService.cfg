\* One job, a deleting client, the sweeper and the executor through three
\* processes that crash or shut down anywhere.
CONSTANTS
    Samples = 1
    Jobs = {j1}
    NoJob = NoJob
    MaxQueued = 1
    Callers = {c1}
    Sweeper = sweeper
    MaxGenerations = 3
    DeletesRequeued = FALSE
SPECIFICATION FairSpec
INVARIANTS RowsDecode StartupAccepts InputKept ResultKept FilesAccounted CrashBudget
PROPERTIES LifecycleSpec EveryJobEnds RecordsExpire
CHECK_DEADLOCK FALSE
