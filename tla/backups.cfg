SPECIFICATION FairSpec
CONSTANTS
    Keys = {k1}
    Values = {d, v}
    Default = d
    NoVal = NoVal
    Kept = 2
    SeqLimit = 6
    MaxSeq = 4
    Capacity = 11
    Events = {"crash", "collect", "extract", "schema", "reset", "detach"}
    MaxEvents = 2
INVARIANT ScanFindsNewest
PROPERTY BackupsKept
PROPERTY SavedInTheEnd
