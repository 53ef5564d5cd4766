SPECIFICATION FairSpec
CONSTANTS
    Threads = {conn, a, b, c}
    Connector = conn
    HasResult = {conn, a, b}
    HasStatus = {a}
    None = None
CHECK_DEADLOCK FALSE
INVARIANTS
    AnswersReachTheirCall
PROPERTIES
    CallsAreAnswered
