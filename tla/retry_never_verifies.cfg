SPECIFICATION Spec
CONSTANTS
    Keys = {k1}
    Values = {d, v}
    Default = d
    NoVal = NoVal
    Kept = 2
    SeqLimit = 6
    MaxSeq = 3
    Capacity = 9
    Events = {"push"}
    MaxEvents = 1
INVARIANT StoredWritesVerify
