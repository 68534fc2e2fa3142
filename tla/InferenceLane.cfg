\* Three callers, and a model call that may never return.
CONSTANTS
    Threads = {t1, t2, t3}
    NoThread = NoThread
SPECIFICATION FairSpec
INVARIANT OvertakenAtMostOnce
PROPERTIES EveryCallEnds EscapesAHungLane
