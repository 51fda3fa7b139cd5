SPECIFICATION Spec
CONSTANTS
    n1 = n1
    n2 = n2
    n3 = n3
    Nodes = {n1}
    Lists = {l1}
    Tasks = {t1, t2}
    KeyOf <- TwoKeys
    None = None
    Gone = Gone
    MayDrop = TRUE
    MayFail = TRUE
INVARIANT TakenMeansLive
