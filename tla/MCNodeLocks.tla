---------------------------- MODULE MCNodeLocks ------------------------------
\* Which goroutine makes which calls: the CLI loop and the readers of peers.
EXTENDS NodeLocks, TLC

CONSTANTS cli, peer1, peer2

\* The CLI makes all of its calls, those to the store too.
AllCalls ==
    cli :> {"SendCoins", "SyncBalances", "GetBalance", "IncreaseValidatorStake",
            "CanSendMessage", "printNodeStatus", "CreateNewWallet"}
    @@ peer1 :> {"ProcessTransaction", "UpdateBalance", "GetBalance", "ProcessReward"}
    @@ peer2 :> {"handleBlock", "GetBalance", "RemovePeer", "GetPendingRewards"}

\* What goes to the store directly, beside a peer's transactions.
ToTheStore ==
    cli :> {"printNodeStatus", "CreateNewWallet"} @@ peer1 :> {"ProcessTransaction"}
=============================================================================
