SPECIFICATION Spec
CONSTANTS
    Node = {n1, n2}
    Addr = {a1, a2}
    NoAddr = NoAddr
    Grant = 2
    MaxGrants = 1
    MaxExchanges = 2
    MaxTransfers = 2
    MaxRestarts = 1
    MaxHolds = 1
    MaxOps = 4
INVARIANT FiguresAreNotBehind
PROPERTIES FiguresTakeEffect RecordsAreNotLowered MessagesAreHandled
CHECK_DEADLOCK FALSE
