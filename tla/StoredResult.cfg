SPECIFICATION StoredSpec
CONSTANTS
    Readers = {r1, r2}
    Deleters = {d1, d2, d3}
    Chunks = 2
    MaxUnlinkFailures = 2
INVARIANTS
    ResultOrNotFound
