SPECIFICATION Spec
CONSTANTS
    Keys = {k1}
    Values = {d}
    Default = d
    NoVal = NoVal
    Kept = 4
    SeqLimit = 6
    MaxSeq = 4
    Capacity = 13
    Events = {"rot", "crash", "reset"}
    MaxEvents = 3
PROPERTY LastRecordKept
