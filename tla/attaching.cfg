SPECIFICATION FairSpec
CONSTANTS
    n1 = n1
    n2 = n2
    n3 = n3
    Nodes = {n1, n3}
    Lists = {l1, l2}
    Tasks = {t1, t2}
    KeyOf <- TwoKeys
    None = None
    Gone = Gone
    MayDrop = TRUE
    MayFail = FALSE
PROPERTY AttachReturns
CHECK_DEADLOCK FALSE
