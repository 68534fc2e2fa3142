SPECIFICATION Spec
CONSTANTS
    Modes = {"direct", "vad", "diarize"}
    Block = 2
    AudioMax = 6
    DirectMax = 3
    BatchSegments = 2
    BatchPcm = 3
    BatchWall = 4
    EmbedBatch = 2
    MaxWindows = 3
    MaxEmitted = 2
    MaxRegions = 2
INVARIANTS
    SealedMeansComplete
    OneCallAfterCancel
    NothingRefused
