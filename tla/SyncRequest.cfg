SPECIFICATION FairSpec
CONSTANTS
    MaxFaults = 3
    MaxCancels = 3
INVARIANTS
    ThreadsHaveFiles
    EndsClean
PROPERTIES
    RequestEnds
