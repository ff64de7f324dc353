SPECIFICATION Spec
CONSTANTS
    cli = cli
    peer1 = peer1
    peer2 = peer2
    Goroutine = {cli, peer1, peer2}
    Menu <- AllCalls
INVARIANTS OnlyStoreCallersStarve NoCircularWait
PROPERTY CallsReturnUnlessStuck
CHECK_DEADLOCK FALSE
