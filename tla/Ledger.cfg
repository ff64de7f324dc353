SPECIFICATION Spec
CONSTANTS
    TxId = {t1, t2}
    Addr = {a1, a2}
    System = System
    NoAddr = NoAddr
    NoTx = NoTx
    Amounts = {2}
    GenesisGrant = 4
    GenesisLimit = 1
    MinDeposit = 2
    MaxBlocks = 4
SYMMETRY IdsAndAddresses
INVARIANTS TypeOK SetMirrorsStore OutputsAreKnown HeightsHaveNoGap
PROPERTIES SpentStaysSpent TransfersAreExact ImplementsTxLog
