SPECIFICATION FairSessionSpec
CONSTANTS
    Closers = {c1, c2}
    Reader = Reader
    MaxReceived = 4
    NoOwner = NoOwner
CHECK_DEADLOCK FALSE
INVARIANTS
    EveryAcceptIsAnnounced
    StreamsAreClosed
    EndsClosed
PROPERTIES
    ServeReturns
