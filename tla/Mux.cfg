SPECIFICATION Spec
CONSTANTS
    Names <- MCNames
    Slash = "/"
    Dot = "."
    DotDot = ".."
    Patterns <- MCPatterns
    Hosts <- MCHosts
    Requests <- MCRequests
    NoPattern = NoPattern
CHECK_DEADLOCK FALSE
INVARIANTS
    LongestWins
    RequestsReachTheirPattern
PROPERTIES
    RoutesStay
