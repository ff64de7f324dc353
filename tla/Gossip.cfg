SPECIFICATION Spec
CONSTANTS
    n1 = n1
    n2 = n2
    n3 = n3
    n4 = n4
    t1 = t1
    t2 = t2
    Node = {n1, n2, n3, n4}
    Networks <- StarAndRing
    Tx = {t1, t2}
    Origin <- Origins
    Needs <- Chained
    MaxQueue = 2
    MaxBreaks = 1
    MaxLossy = 1
    Nothing = Nothing
INVARIANTS UnderWayIsKnown
PROPERTIES RefusalIsFinal EveryoneApplies FloodEndsWithoutCycles
CHECK_DEADLOCK FALSE
