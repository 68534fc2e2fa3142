\* The segmenter: a detector that keeps to the latency the buffer is dimensioned
\* for; audio of five blocks, and segments of three and a half.
\* Diarization: every layout of at most three islands and three segments.
SPECIFICATION HalvesSpec
CONSTANTS
    Block = 32
    Frontend = 16
    Backtrack = 16
    Prepad = 16
    DirectMax = 112
    Faithful = TRUE
    Horizon = 160
    Lengths = {8, 32}
    MaxMarkers = 2
    WindowMax = 4
    WindowShift = 3
    RegionMax = 3
    Totals = {0, 7}
    MaxSpans = 3
    MaxClusters = 2
INVARIANTS
    PcmOnce
    NeverFails
    SpeechCollected
    WindowsHearSpeech
    RegionsPartitionSpeech
    NearestWindowSpeaks
