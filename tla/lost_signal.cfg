SPECIFICATION FairWorker
CONSTANTS
    k1 = k1
    k2 = k2
    Keys = {k1, k2}
    Values = {d}
    Default = d
    NoVal = NoVal
    Kept = 1
    SeqLimit = 6
    MaxSeq = 1
    Capacity = 5
    Events = {}
    MaxEvents = 0
    Found <- NothingFound
    Kinds = {"default"}
    MayStop = FALSE
PROPERTY EveryAttachReturns
CHECK_DEADLOCK FALSE
