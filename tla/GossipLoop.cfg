SPECIFICATION Spec
CONSTANTS
    n1 = n1
    n2 = n2
    n3 = n3
    n4 = n4
    t1 = t1
    t2 = t2
    Node = {n1, n2, n3}
    Networks <- OnlyTriangle
    Tx = {t1}
    Origin <- OneOrigin
    Needs <- OneAlone
    MaxQueue = 3
    MaxBreaks = 0
    MaxLossy = 0
    Nothing = Nothing
PROPERTY FloodEnds
CHECK_DEADLOCK FALSE
