SPECIFICATION FairSpec
CONSTANTS
    t1 = t1
    t2 = t2
    Threads <- MCThreads
    NoThread = NoThread
    Events = {connect}
    once = once
    always = always
    Listeners <- MCListeners
    NoListener = NoListener
    Limit <- MCLimit
    MaxRecursion = 2
    MaxCalls <- MCMaxCalls
INVARIANTS
    MutualExclusion
    FreeIsClean
    BoundedNesting
    RemovedIsQuiet
    OverrunBound
PROPERTIES
    ImplementsRegistry
    CallsReturn
