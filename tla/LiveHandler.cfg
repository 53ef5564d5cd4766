SPECIFICATION Spec
CONSTANTS
    Clients = {c1, c2}
    ProxyEnabled = TRUE
    Recording = TRUE
    MaxCommands = 2
SYMMETRY Symmetry
CHECK_DEADLOCK FALSE
INVARIANTS
    OneFeedUnlessBlind
    NoGhosts
    EveryBeginIsEnded
