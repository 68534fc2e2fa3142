SPECIFICATION FairSpec
CONSTANTS
    Handlers = {"handler1", "handler2"}
    SafeSignals = TRUE
    MaxAttempts = 1
INVARIANTS
    NoSleepOverWork
    NoAttemptLost
    StopReportsErrors
PROPERTY
    StopReturns
