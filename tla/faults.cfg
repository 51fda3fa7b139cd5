SPECIFICATION Spec
CONSTANTS
    Keys = {k1}
    Values = {d, v}
    Default = d
    NoVal = NoVal
    Kept = 2
    SeqLimit = 3
    MaxSeq = 3
    Capacity = 9
    Events = {"crash", "push", "verify", "badpush", "collect", "extract", "schema", "detach", "reset"}
    MaxEvents = 2
INVARIANT TypeOK
INVARIANT CacheOrdered
INVARIANT CacheGenuine
INVARIANT ReadsConsistent
PROPERTY NewestSurvives
PROPERTY ImagesAreWhole
