SPECIFICATION WorkerSpec
CONSTANTS
    k1 = k1
    k2 = k2
    Keys = {k1}
    Values = {d, e}
    Default = d
    NoVal = NoVal
    Kept = 1
    SeqLimit = 6
    MaxSeq = 5
    Capacity = 16
    Events = {"scan", "collect", "extract", "detach"}
    MaxEvents = 2
    Found <- AnyFound
    Kinds = {"default"}
    MayStop = TRUE
PROPERTY StopFlushes
PROPERTY StopStores
CHECK_DEADLOCK FALSE
