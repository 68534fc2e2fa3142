\* Three leases of at most two quanta each, one upload at a time, room on the
\* disk for five bytes above the floor where the leases ask for nine, one byte
\* held back by a file object, two failures.  The quota is out of reach: within
\* it the bytes would stay above the floor anyway.
CONSTANTS
    Uploads = {u1, u2}
    Artifacts = {a1}
    Quantum = 2
    MaxStorage = 12
    MaxActiveUploads = 1
    MinFree = 4
    Disk = 9
    Buffer = 1
    MaxSize = 3
    MaxFaults = 2
SPECIFICATION Spec
SYMMETRY LeaseSymmetry
INVARIANTS FloorKept BytesReserved EndsClean
