SPECIFICATION Spec
CONSTANTS
    Ids = {i1, i2, i3}
    Requests = {r1, r2}
    Jobs = {j1}
    Keys = {k1, k2, k3}
    Known = {i1, i2}
    Times = {1, 2}
    MaxProfiles = 3
    MinSamples = 2
    MaxSamples = 2
    MaxFailures = 1
INVARIANTS
    NamesUnique
    SnapshotOfOneMoment
    SamplesReleased
