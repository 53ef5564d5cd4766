SPECIFICATION WrapsSpec
CONSTANTS
    W = 16
    MaxRead = 3
    Windows = {0, 1, 5, 12}
    Default = 5
    AudioSources = {sound}
    VideoSources = {v1, v2}
    Wrap = 3
    Modes <- MCModes
    MaxAttaches = 2
SYMMETRY Symmetry
CHECK_DEADLOCK FALSE
INVARIANTS
    AckedInTime
    SegmentsArePlayable
