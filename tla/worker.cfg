SPECIFICATION FairWorker
CONSTANTS
    k1 = k1
    k2 = k2
    Keys = {k1, k2}
    Values = {d}
    Default = d
    NoVal = NoVal
    Kept = 1
    SeqLimit = 6
    MaxSeq = 3
    Capacity = 8
    Events = {"scan", "collect", "extract", "detach"}
    MaxEvents = 1
    Found <- TornFound
    Kinds = {"default", "demo", "load", "noop"}
    MayStop = FALSE
CHECK_DEADLOCK FALSE
PROPERTY AttachServed
PROPERTY WritesSaved
PROPERTY GarbageCollected
