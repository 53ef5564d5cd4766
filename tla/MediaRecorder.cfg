SPECIFICATION FairSpec
CONSTANTS
    Users = {u1, u2}
    Media = media
    MaxRecursion = 3
    MaxCalls = 4
    MaxPackets = 2
    Nobody = Nobody
CHECK_DEADLOCK FALSE
INVARIANTS
    NoWriteAfterClose
    OneStopPerStart
PROPERTIES
    CallsReturn
