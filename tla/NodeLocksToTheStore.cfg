SPECIFICATION Spec
CONSTANTS
    cli = cli
    peer1 = peer1
    peer2 = peer2
    Goroutine = {cli, peer1}
    Menu <- ToTheStore
PROPERTY CallsReturn
CHECK_DEADLOCK FALSE
