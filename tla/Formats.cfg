SPECIFICATION FormatsSpec
CONSTANTS
    Readers = {r1, r2, r3}
    Bandwidths = {2, 4}
    MaxRead = 2
    MaxCount = 5
    Keys = {"a", "c"}
    MaxChanges = 3
    Streams <- MCStreams
    MaxStreams = 2
    Audio = {first, second}
    Video = video
    RtpMode = {"audio", "video"}
    Lengths = {0, 1, 3, 4}
    Rooms = {2, 3}
    MaxSN = 3
    AULimit = 4
    MaxID = 3
    MaxSources = 2
SYMMETRY Symmetry
CHECK_DEADLOCK FALSE
INVARIANTS
    BandwidthIsShared
    CommandsArriveAsSent
    PacketsAreTheTags
    FramesArriveWhole
