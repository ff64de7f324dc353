SPECIFICATION Spec
CONSTANTS
    TxId = {t1, t2, s1, s2, g1}
    FromSystem = {s1, s2}
    Genesis = {g1}
    MaxHeight = 3
    MaxCrashes = 2
    MaxMessages = 2
SYMMETRY Ids
INVARIANTS TypeOK ChainSurvivesCrash OutputsHaveTheirKey MovedOnceUnlessBlockCut
    RewardsPaidForMessages
CHECK_DEADLOCK FALSE
