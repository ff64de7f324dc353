------------------------------ MODULE NodeLocks ------------------------------
(***************************************************************************)
(* The read-write locks of a node: bc.mu of core.Blockchain, s.mu of the   *)
(* LevelDB store, peersMutex of the p2p server and rt.mu of the reward     *)
(* tracker, and the calls of its goroutines as the sequences of lock       *)
(* operations they perform.  The locks are Go's sync.RWMutex: not          *)
(* reentrant, and a writer that waits keeps new readers out, so that a     *)
(* goroutine which takes a read lock it already holds can wait for a       *)
(* writer that waits for it.                                               *)
(***************************************************************************)
EXTENDS Integers, Sequences, SequencesExt, FiniteSets

CONSTANTS Goroutine,
          Menu          \* goroutine -> the names of the calls it makes

VARIABLES
    readers,   \* lock -> goroutine -> how many read locks it holds
    writer,    \* lock -> goroutines holding the write lock (at most one)
    waiting,   \* lock -> writers that have announced themselves
    call,      \* goroutine -> the call it is in
    pc         \* goroutine -> the next operation of the call, 0 outside calls

locks == <<readers, writer, waiting>>
vars == <<locks, call, pc>>

Lock == {"bc", "st", "peers", "rt"}

(***************************************************************************)
(* The calls                                                               *)
(***************************************************************************)
Op(kind, lock) == [kind |-> kind, lock |-> lock]
Reading(lock, body) == <<Op("RLock", lock)>> \o body \o <<Op("RUnlock", lock)>>
Writing(lock, body) == <<Op("Lock", lock)>> \o body \o <<Op("Unlock", lock)>>

\* The store: one lock operation around each access; GetBalance holds the
\* read lock while GetBalanceFromUTXOs takes it again, and IncrementNodeCount
\* holds the write lock while GetNodeCount takes the read lock.
Get == Reading("st", << >>)
Put == Writing("st", << >>)
StoreGetBalance == Reading("st", Get)
StoreIncrementNodeCount == Writing("st", Get)

\* Mutant: takes the blockchain's read lock again around the first read.
GetBalanceOpsTwice == Reading("bc", Reading("bc", Get) \o StoreGetBalance)

GetBalanceOps == Reading("bc", Get \o StoreGetBalance)

\* The broadcast is inside the blockchain's lock.
SendCoinsOps ==
    Writing("bc", Get \o Put \o StoreGetBalance \o Put \o Reading("peers", << >>))

\* handleTransaction: the forwarding is outside it.
ProcessTransactionOps ==
    Writing("bc", Get \o Put \o StoreGetBalance \o Put) \o Reading("peers", << >>)

\* Mutant: forgets the blockchain's lock.
UpdateBalanceOpsUnlocked == StoreGetBalance \o Get \o Put

UpdateBalanceOps == Writing("bc", StoreGetBalance \o Get \o Put)

SyncBalancesOps ==
    Reading("bc", Get) \o Reading("bc", Reading("st", Get)) \o Reading("peers", << >>)

RemovePeerOps == Writing("peers", << >>)

\* verifyBlock takes the read lock in between.
handleBlockOps ==
    Get \o Reading("bc", << >>)
    \o Writing("bc", Get \o StoreGetBalance \o Put) \o Reading("peers", << >>)

printNodeStatusOps == Get \o StoreGetBalance \o Reading("peers", << >>)

\* CreateNewWallet and ImportWallet: the CLI writes to the store itself.
CreateNewWalletOps ==
    Writing("bc", Put) \o Get \o StoreGetBalance \o Get \o Put \o Put
    \o StoreIncrementNodeCount

IncreaseValidatorStakeOps ==
    Writing("bc", Get \o Reading("bc", Get \o StoreGetBalance) \o Put \o Put)

\* The reward tracker, which no code of the repository calls: each method
\* under its lock, CanSendMessage with a call of IsMutuallyWhitelisted inside.
IsMutuallyWhitelisted == Reading("rt", << >>) \o Reading("rt", << >>)
CanSendMessageOps == Writing("rt", IsMutuallyWhitelisted)
ProcessRewardOps == Writing("rt", << >>)
GetPendingRewardsOps == Reading("rt", << >>)

Program ==
    [CanSendMessage |-> CanSendMessageOps, ProcessReward |-> ProcessRewardOps,
     GetPendingRewards |-> GetPendingRewardsOps,
     GetBalance |-> GetBalanceOps, SendCoins |-> SendCoinsOps,
     ProcessTransaction |-> ProcessTransactionOps, UpdateBalance |-> UpdateBalanceOps,
     SyncBalances |-> SyncBalancesOps, RemovePeer |-> RemovePeerOps,
     handleBlock |-> handleBlockOps, printNodeStatus |-> printNodeStatusOps,
     CreateNewWallet |-> CreateNewWalletOps,
     IncreaseValidatorStake |-> IncreaseValidatorStakeOps]

\* Those that go to the store beside core.Blockchain and its lock.
StoreCallers == {"printNodeStatus", "CreateNewWallet"}

\* Every call a goroutine makes is one of these.
ASSUME MenuAssumption == Menu \in [Goroutine -> SUBSET DOMAIN Program]

(***************************************************************************)
(* sync.RWMutex                                                            *)
(***************************************************************************)
Held(l) == \E g \in Goroutine : readers[l][g] > 0
NextOp(g) == Program[call[g]][pc[g]]
At(g, kind) == pc[g] > 0 /\ NextOp(g).kind = kind

Advance(g) ==
    pc' = [pc EXCEPT ![g] = IF @ = Len(Program[call[g]]) THEN 0 ELSE @ + 1]

Init ==
    /\ readers = [l \in Lock |-> [g \in Goroutine |-> 0]]
    /\ writer = [l \in Lock |-> {}]
    /\ waiting = [l \in Lock |-> {}]
    /\ call \in [Goroutine -> {"GetBalance"}]
    /\ pc = [g \in Goroutine |-> 0]

Call(g) ==
    /\ pc[g] = 0
    /\ \E name \in Menu[g] : call' = [call EXCEPT ![g] = name]
    /\ pc' = [pc EXCEPT ![g] = 1]
    /\ UNCHANGED locks

RLock(g) ==
    /\ At(g, "RLock")
    /\ LET l == NextOp(g).lock
       IN  /\ writer[l] = {} /\ waiting[l] = {}
           /\ readers' = [readers EXCEPT ![l][g] = @ + 1]
    /\ Advance(g)
    /\ UNCHANGED <<writer, waiting, call>>

RUnlock(g) ==
    /\ At(g, "RUnlock")
    /\ readers' = [readers EXCEPT ![NextOp(g).lock][g] = @ - 1]
    /\ Advance(g)
    /\ UNCHANGED <<writer, waiting, call>>

\* A writer first shuts new readers out, one writer at a time, and then waits
\* for the readers that are in.
AnnounceLock(g) ==
    /\ At(g, "Lock")
    /\ LET l == NextOp(g).lock
       IN  /\ waiting[l] = {} /\ writer[l] = {}
           /\ waiting' = [waiting EXCEPT ![l] = {g}]
    /\ UNCHANGED <<readers, writer, call, pc>>

AcquireLock(g) ==
    /\ At(g, "Lock")
    /\ LET l == NextOp(g).lock
       IN  /\ g \in waiting[l] /\ ~Held(l)
           /\ waiting' = [waiting EXCEPT ![l] = {}]
           /\ writer' = [writer EXCEPT ![l] = {g}]
    /\ Advance(g)
    /\ UNCHANGED <<readers, call>>

Unlock(g) ==
    /\ At(g, "Unlock")
    /\ writer' = [writer EXCEPT ![NextOp(g).lock] = {}]
    /\ Advance(g)
    /\ UNCHANGED <<readers, waiting, call>>

Step(g) == RLock(g) \/ RUnlock(g) \/ AnnounceLock(g) \/ AcquireLock(g) \/ Unlock(g)

Next == \E g \in Goroutine : Call(g) \/ Step(g)

\* RWMutex hands itself over: readers that waited for a writer go before the
\* next writer, writers queue; so a lock that is free again and again is got.
Spec == Init /\ [][Next]_vars /\ \A g \in Goroutine : SF_vars(Step(g))

(***************************************************************************)
(* Properties                                                              *)
(***************************************************************************)
\* One writer and one announced writer at most for each lock, and read locks
\* nest at most twice (storage.GetBalance).
TypeOK ==
    /\ \A l \in Lock : /\ Cardinality(writer[l]) <= 1
                       /\ Cardinality(waiting[l]) <= 1
                       /\ \A g \in Goroutine : readers[l][g] \in 0..2
    /\ \A g \in Goroutine : pc[g] \in 0..Len(Program[call[g]])

\* It reads what it holds the write lock of, and waits for itself.
Hung(g) == At(g, "RLock") /\ g \in writer[NextOp(g).lock]

\* Inside storage.GetBalance, it wants to read the store that it is reading,
\* and a writer that has announced itself in between waits for it.
Starved(g) ==
    /\ At(g, "RLock") /\ NextOp(g).lock = "st"
    /\ readers["st"][g] > 0 /\ waiting["st"] # {}

Stuck(g) == Hung(g) \/ Starved(g)

\* Whose lock, or announcement, keeps the next operation of g from happening.
WaitsFor(g) ==
    LET l == NextOp(g).lock
    IN  IF At(g, "RLock") THEN writer[l] \cup waiting[l]
        ELSE IF At(g, "Lock") THEN
            writer[l] \cup (waiting[l] \ {g}) \cup {h \in Goroutine : readers[l][h] > 0}
        ELSE {}

\* Goroutines that wait for one another, each for one of them, have among them
\* one that waits for itself, or one whose nested read of the store meets a
\* writer: there is no other cycle of waiting in bc.mu, s.mu, peersMutex and
\* rt.mu, whatever the calls.
NoCircularWait ==
    \A part \in (SUBSET Goroutine) \ {{}} :
        (\A g \in part : WaitsFor(g) \cap part # {}) => \E g \in part : Stuck(g)

\* The nested read of storage.GetBalance meets an announced writer only if one
\* of the two has gone to the store without bc.mu (printNodeStatus at the
\* start, CreateNewWallet and ImportWallet): among the methods of
\* core.Blockchain it never does.
OnlyStoreCallersStarve ==
    \A g \in Goroutine :
        Starved(g) => \E h \in {g} \cup waiting["st"] : call[h] \in StoreCallers

\* The chain of waiting from g leads to a goroutine that is stuck.
WaitsForStuck(g) ==
    \A part \in SUBSET Goroutine :
        g \in part /\ (\A h \in part : WaitsFor(h) \subseteq part)
            => \E h \in part : Stuck(h)

\* Every call returns, unless it waits, or the one it waits for waits, for a
\* goroutine that is stuck: one that reads what it holds the write lock of
\* (increasing a stake, counting a wallet, asking the reward tracker whether a
\* message may be sent), or one starved in the store.  Who needs no lock of a
\* stuck goroutine is not held up.
CallsReturnUnlessStuck ==
    \A g \in Goroutine : [](pc[g] > 0 => <>(pc[g] = 0 \/ WaitsForStuck(g)))

(***************************************************************************)
(* What a comment says and the code does not do                            *)
(***************************************************************************)
\* main.go:260 "printNodeStatus prints the status of the node": it returns.
CallsReturn == \A g \in Goroutine : [](pc[g] > 0 => <>(pc[g] = 0))
=============================================================================
