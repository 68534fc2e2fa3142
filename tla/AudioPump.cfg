SPECIFICATION Spec
CONSTANTS
    Block = 2
    Capacity = 1
    MaxOut = 2
    MaxErr = 1
    OutputLimit = 1
    MaxFailures = 2
INVARIANTS
    NothingIsLeft
    NormalEndIsWhole
PROPERTIES
    EndsByItself
    StopsWhenTold
