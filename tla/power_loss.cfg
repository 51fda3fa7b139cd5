SPECIFICATION Spec
CONSTANTS
    Keys = {k1, k2}
    Values = {d, v}
    Default = d
    NoVal = NoVal
    Kept = 2
    SeqLimit = 6
    MaxSeq = 2
    Capacity = 8
    Events = {"crash", "collect", "extract", "schema", "detach"}
    MaxEvents = 2
SYMMETRY KeySymmetry
PROPERTY NewestSurvives
PROPERTY ImplementsConfigStore
