SPECIFICATION Spec
CONSTANTS
    Node = {n1, n2}
    Addr = {a1, a2}
    NoAddr = NoAddr
    Grant = 2
    MaxGrants = 2
    MaxExchanges = 2
    MaxTransfers = 0
    MaxRestarts = 1
    MaxHolds = 1
    MaxOps = 4
SYMMETRY NodesAndAddresses
INVARIANT SyncTellsBalances
CHECK_DEADLOCK FALSE
