SPECIFICATION FairChunkSpec
CONSTANTS
    w1 = w1
    w2 = w2
    Writers <- MCWriters
    CSIDs = {video}
    Control = control
    Kinds <- MCKinds
    ExtTime = 10
    ChunkSizes = {1}
    FirstChunkSize = 2
    NoHeader = NoHeader
    NoJob = NoJob
    MaxMessages <- MCMaxMessages
INVARIANTS
    DeliveredAsSent
    EndsAgree
PROPERTIES
    EverythingArrives
