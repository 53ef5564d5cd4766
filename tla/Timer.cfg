SPECIFICATION FairTimerSpec
CONSTANTS
    Callers = {u1, u2}
    RepeatCounts = {0, 2}
    MaxStarts = 2
    MaxResets = 1
    MaxCount = 3
    NoTicker = NoTicker
    NoOwner = NoOwner
CHECK_DEADLOCK FALSE
INVARIANTS
    CompletesOncePerReset
PROPERTIES
    KeepsTicking
