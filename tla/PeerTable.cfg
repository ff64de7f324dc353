SPECIFICATION FairSpec
CONSTANTS
    Conn = {c1, c2, c3}
    Bootstrap = {b1}
    Listed = {p1}
    Inbound = {i1}
    MaxPeers = 3
    MaxNewPeers = 2
    MaxOutages = 2
    CanStop = TRUE
    NoConn = NoConn
INVARIANTS TypeOK EntriesAreWatched OneConnectionPerAddress NoPanic
PROPERTY StaysBootstrapped
CHECK_DEADLOCK FALSE
