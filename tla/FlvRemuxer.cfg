SPECIFICATION Spec
CONSTANTS
    a1 = a1
    v1 = v1
    Tracks = {a1, v1}
    NoSource = NoSource
    Kind <- MCKind
    Remuxers = {r1}
    Publisher = publisher
    Nobody = Nobody
    Mode <- MCMode
    Modulus = 8
    MaxActs = 4
    MaxSources = 2
CHECK_DEADLOCK FALSE
INVARIANTS
    TrackIdsNeverReused
    StreamIsDecodable
    StampedFromStart
    AttachedToEveryTrack
    DetachedWhenClosed
    PanicsOnlyAfterRace
    CallsGoOn
