# A formal model of the DoucyA node

TLA+ specifications of the node in this repository, TLC configurations that
check them on small instances, and theorems about them checked with TLAPS.
Every definition is read off the Go source; `PROJECT.json` gives the lines of
each ("map"), the runs, the mutants that show each property can fail, and the
findings.

## 1. The system

A node is one process: a LevelDB store, `core.Blockchain` over it, a p2p server
with one reader goroutine per connection and two tickers, and a command line
(`cmd/cli.go`) that calls the core and, for new wallets, the store directly.

| Part | State | Operations | Interacts with |
|---|---|---|---|
| Store (`storage/leveldb.go`) | keys `block_<h>`, `last_block`, `tx_<id>`, `balance_<a>`, `utxo_<tx>_<i>`, `utxo_set`, validators, messages, groups, whitelists, pending rewards; `s.mu` | one or a few `Put`/`Get` each, never a batch | called by everything below |
| Ledger (`core/blockchain.go`, `models/`) | `currentBlock`, `pendingRewards`, `messageRates`, `whitelists`; `bc.mu` held from the first to the last line of every method | `SendCoins`, `ProcessTransaction`, `AddBlock`, `UpdateBalance`, `ConvertLegacyBalancesToUTXOs`, messages, validators, groups | store; broadcasts by `p2p` inside `bc.mu` |
| Peer table (`p2p/server.go`, `p2p/peer.go`) | `s.peers`, a socket and a quit channel per peer; `peersMutex` | `AddPeer`, `RemovePeer`, `acceptConnections`, `handlePeerList`, `ensureBootstrapConnections`, `Stop` | network, tickers, readers |
| Gossip (`handleTransaction`, `handleValidator`, `BroadcastTransaction`) | none but the ledger's `tx_` keys | process, then forward to all but the sender | ledgers of several nodes |
| Balance sync (`SyncBalancesWithPeers`, `handleSyncBalances`, `handleBalance`) | none | send all balances and the height; adopt differing figures | ledger |
| Command line (`cmd/cli.go`, `main.go`) | the goroutine's place in `CreateNewWallet` or `ImportWallet` | commands; a genesis grant for the first wallets | ledger, and the store without `bc.mu` |
| Rate limit, whitelists (`SendMessage`) | counters by minute; whitelist in memory and store | send, refuse, whitelist | clock |
| Validators (`core/blockchain.go`, `models/validator.go`) | `bc.validators` in memory, a record each in the store | register, unregister, monthly rewards, `SyncValidator` | balances of the ledger |
| Groups (`messaging/group.go`, `core`) | `Members`, `Admins`, `Creator`; `group_member_` keys | create, join, add, remove, promote, demote | store |
| Reward tracker (`messaging/rewards.go`) | counters, whitelists, pending rewards; `rt.mu` | one locked section per method, `CanSendMessage` with another inside | nothing calls it |
| Channels, PoS selection, block download, key handling, configuration | | not modelled, see section 7 | |

What is hard here: money is recorded in three places (legacy balances, single
output records, the set of outputs) which different operations read and write;
a transaction reaches a node by several paths; the CLI goes round `bc.mu`;
nothing groups the writes of a method; the set's keys are built in two ways;
dials outlive the call that started them; readers, dials and accepts compete
for an entry of the peer table; four read-write locks nest, three of them in
themselves; forwarding has no memory but the ledger's own duplicate check, a write that
takes five seconds is given up for good, and a connection that breaks takes what
is under way with it; balances are told to peers in several critical sections on
both sides, in between which they change; and three calls can hold a lock for good.

For each part, the properties that make it correct:

- ledger: an amount moves once; an output never changes, and never comes back
  after it is spent; the stores agree; stored blocks form a chain; sending
  conserves money;
- durability: after a stop at any write the node can start, and redelivery
  neither loses nor repeats what was begun;
- rate limit: holds in every hour, and always ends;
- peer table: one connection per address, every entry watched, no channel
  closed twice, bootstrap nodes connected again after an outage;
- gossip: a transaction reaches everyone and the flood ends; nodes agree;
- balance sync: figures come from nodes that are not behind, take effect, and
  take nothing away; all balances are told; all messages are handled;
- validators: a deposit comes back once and is never lost, a month is paid once;
- locks: every call returns;
- groups: admins are members, the creator stays admin, removals remove one.

### A remark on the commit

At this commit `p2p` does not type-check against `interfaces.Blockchain`
(`handleTransaction` passes a `*models.Transaction`, `handleValidator` a map,
to methods the interface declares otherwise or not at all). `main.go:93` hands
`core.Blockchain` to `p2p.NewServer`, so the calls are read as reaching the
methods of that name in `core.Blockchain`. The adapter in `adapters/` is a
placeholder that nothing uses.

## 2. Modules

| Module | Models | Its state and the code |
|---|---|---|
| `UtxoStore` | `models/utxo.go` and the output records of the store, as operators on functions from `<<txid, index>>` to records | `SaveAll`, `MarkSpent`, `OutputsOf` are `SaveUTXO`, `MarkUTXOSpent`, the loops over `tx.Outputs`; `DecimalKeys` is the key `fmt.Sprintf("%s:%d")`, and a key of the set has the code point `string(idx)` makes |
| `TxLog` | the abstract promise about transactions: learnt once, moved at most once, never forgotten | specification only |
| `Ledger` | one node: core, store, CLI | one action per method, since `bc.mu` covers each; `CreateNewWallet` is six actions, one per store call, in `cli.pc`; `Restart` keeps the store and reloads `currentBlock` |
| `CrashStore` | the same methods as sequences of LevelDB writes | `Program` lists the writes in the order of the code, `op.pc` walks them, `FirstPut` and `TakeInputs` skip those a transaction does not have, `CrashAndRestart` cuts anywhere |
| `RateLimit` | `SendMessage`'s limits and whitelists for one sender | counters by truncated minute, `lastCleanup`, a clock |
| `PeerTable` | the peer table and the life of each `Peer` | one action per critical section of `peersMutex`, per end of a dial, per close |
| `Gossip` | several nodes and their connections | `links`, chosen at the start from `Networks`, with a FIFO per direction; `Process` and `Forward` are the two halves of `handleTransaction`, between which other readers run; `SendOver` loses what is not written in time, `Break` ends a connection with a part of what is under way |
| `BalanceSync` | nodes telling and asking each other for balances | per address the legacy figure, the worth of its records and of its entries in the set; `cli` is between the two reads of `SyncBalancesWithPeers` or two store calls of `CreateNewWallet`, `reader[p]` between the `GetBalance` and the `UpdateBalance` of `handleSyncBalances`; ledgers change and nodes restart in between; `held` is the lock a call holds for good |
| `Validators` | the validators of one node, in memory and in the store, with stops | every method is its balance write and then `StoreRecord`; `op` is the method in between, `left` the validators the monthly walk has not come to |
| `NodeLocks` | `bc.mu`, `s.mu`, `peersMutex`, `rt.mu` as `sync.RWMutex`, and calls as lists of lock operations | a writer announces itself, shutting out new readers, and then waits for the readers that are in |
| `Group` | `messaging.Group`, `GroupManager` and the core's group methods | members and admins as sequences, since removal swaps with the last |

`Ledger` extends `UtxoStore` and is shown to implement `TxLog`. The others stand
alone, each abstracting what the others detail: `CrashStore` abstracts amounts
to counts of writes, `Gossip` abstracts a ledger to the sets of known and
applied transactions, `BalanceSync` to three numbers an address, `Validators` to
counts of balance writes, `NodeLocks` abstracts data away. `Ledger` and
`BalanceSync` share the actions of `UpdateBalance` and of the grant in two forms:
the one with every store of one node, the other with many nodes.

`MC...` modules hold the model values, network shapes, menus of calls and
symmetry sets for TLC; `...Proofs` hold the theorems.

### Abstractions

- Amounts are integers, in quarters of a DOU so that the rewards 0.75, 0.25 and
  1.5 are whole. Shares of 1.5 DOU are divided as integers. Float rounding is
  out of scope.
- Transaction ids are fresh model values (sha256 of the contents in the code).
  A peer's transaction carries at most one input and two outputs.
- A block's hash is its number (`Ledger`) or the sequence of its ancestors
  (`CrashStore`); `SaveBlock` overwrites a height as LevelDB does.
- Ledger methods are atomic in `Ledger`, whose interleavings, those of the CLI's
  wallet creation included, are of whole methods and store calls; they are cut at
  every write in `CrashStore`, which has no wallet creation.
- Amounts are positive (`AmountsAssumption`). The code checks none of what peers
  send: for an amount that is not positive `ProcessTransaction` writes the receiver
  no record (`core/blockchain.go:409`), and `FindSpendableUTXOs` returns one entry
  (`models/utxo.go:76`). Neither is modelled.
- In `CrashStore` an id is of a transaction of SYSTEM, of a genesis, or of neither.
  `AddBlock` debits no SYSTEM and moves nothing for a genesis; a peer's block may
  hold any of them, `ProcessTransaction` refuses the sender SYSTEM.
- Signatures and address formats are not modelled: they are checked before any
  state changes, or not at all.
- In `Gossip` a connection that breaks stays broken, as if for the time of the
  flood, and its readers finish what had arrived. The retry of
  `BroadcastTransaction` (three attempts to write) is one write. A write may fail at
  any time, with its message lost and the connection up: on `MaxLossy` connections
  for any reason, and on every connection when `MaxQueue` messages wait. `lossy` is
  not in the code: it remembers on which. Transactions have no inputs, the only
  kind a node refuses when its sender lacks coins there.
- In `BalanceSync` which of a transaction's inputs a node holds unspent, and the
  change they leave, is chosen freely (`TransferByInputs`), since nodes differ in
  it. A transaction the balance does not cover leaves its block on the disk
  (`RefuseTransfer`), which a restart then takes as the height. The field `read` of a message, and `mine` of a reader, are not in the code:
  they remember heights for the properties. A restart of a node empties its
  connections and its readers; the readers of others finish what they took. The
  locks are there only as far as one of them can be held for good
  (`IncrementNodeCount`, `IncreaseValidatorStake`, and `StarveStore` for the nested
  read of `storage.GetBalance`, which `NodeLocks` has in detail): whoever needs it
  stops until a restart. The writers of `ToAll` and `AnswerBalance` may fail to write.
- In `Validators` time passes in months and amounts are counts of writes. A peer's
  record may be of any time, before the start of the clock or after its end. The
  deposit is compared with a balance in the code; here it may always suffice.
- In `PeerTable` a connection is lost when the network is down: an outage stands
  for anything that ends connections, and lets a dial fail or outlast its two
  seconds. `Conn` is the set of `Peer` objects alive at a time.

## 3. What the runs check

Runs that pass:

| Run | Question | Bounds |
|---|---|---|
| `ledger` | the whole next-state relation: nothing moves twice, nothing spent comes back, a transfer moves its amount, the set mirrors the records, heights have no gap | 2 ids, 2 addresses, 4 blocks, amount 2, grant 4 |
| `crash_store` | a stop between any two writes | 5 ids (2 of users, 2 of SYSTEM, a genesis), height 3, 2 stops, 2 messages |
| `rate_limit` | limits over time | minute of 3 ticks, hour of 6, clock to 11, limits 3 and 2, 4 messages |
| `peer_table` | interleavings of dials, accepts, removals, and reconnection | 3 connections, an address of each kind, 2 outages, Stop at any time |
| `gossip` | flooding, refusals, failed writes, broken connections, and the end of the flood | a star and a ring of 4 nodes, 1 break, 1 connection that loses; 2 transactions, the second paid with the first; 2 waiting messages per connection |
| `node_locks` | which calls may wait for ever, and for whom, with the CLI's direct calls of the store and calls that hang | 3 goroutines, 13 calls |
| `balance_sync` | figures against changing ledgers and restarts | 2 nodes, 2 addresses, a grant of 2, 2 exchanges, 2 transfers, 1 restart, 1 lock held besides by counting a wallet, 4 of all these together (`MaxOps`) |
| `validators` | deposits and rewards against stops and peers' records | 2 addresses, 2 months, 2 deposits and 1 peer's record per address, of a month up to 1 before or after the clock's, 2 stops |
| `group` | every order of operations | 3 users, 2 groups, 1 group per user |

Why these bounds suffice for what is asked: a repeated move, a reset output or
a lost mirror needs one transaction to arrive twice with one other in between
(2 or 3 ids). A gap or a fork in the heights
needs one foreign block between the CLI's read and its write. A stop matters
at each write, and a second stop matters for what the first left behind. The
rounding of the rate limit shows at one minute boundary within one hour. In the
peer table two connections compete for an address and a third may come after
one of them is gone. An overtaking transaction needs two paths, which the ring
gives; when one of its connections breaks the flood goes on along the line that
is left, and a break of the star cuts it off, which `EveryoneApplies` leaves out; so
it does where a connection that fails a write is needed. The
`node_locks` run has the CLI and two readers, so that one goroutine can hold a
lock, one wait to write and one wait to read. Between a node's two reads, and
between its comparison and its update, one foreign step is enough to make them
disagree: another reader's figure, a grant, or the transfer. Two stops let one
method be cut and the next one be cut on what it left; two deposits let a
validator come back.

`CHECK_DEADLOCK FALSE` stands where the system may stop for good: in
`CrashStore`, `Validators`, `BalanceSync` and `Group` when the bounds on ids,
stops, exchanges or groups are used up, in
`PeerTable` after `Stop`, in `Gossip` when the flood is over, and in `NodeLocks`
when a goroutine hangs on its own lock and the others behind it, which is what
`CallsReturnUnlessStuck` makes an exception of. The runs of `Ledger` and
`RateLimit` do check for deadlock.

What the properties say, beyond types:

- `SpentStaysSpent`: no step changes an output's amount or owner or unspends it;
- `TransfersAreExact`: a transfer that does not go through the set takes its amount
  from what `GetBalance` says of the sender, adds it to the receiver's records and
  leaves every other balance alone, whether the sender's coins were records or a
  legacy figure; what `GetBalance` says of the receiver is another matter, since it
  reads no legacy figure where there are records;
- `OutputsAreKnown`: the duplicate check sees every transaction that left an
  output or a block;
- `SetMirrorsStore`: the set never holds an output the records do not;
- `HeightsHaveNoGap`: heights below the last are stored, whoever saved them;
- `ImplementsTxLog`: refinement of `TxLog`;
- `ChainSurvivesCrash`, `OutputsHaveTheirKey`, `MovedOnceUnlessBlockCut`,
  `RewardsPaidForMessages`: the order of the writes is right, save in `AddBlock`;
  nothing is credited without a debit but what SYSTEM sends;
- `LimitHoldsForAnHourLessAMinute`, `QuietSenderIsServed`, `CountersAgree`;
- `EntriesAreWatched`, `OneConnectionPerAddress`, `NoPanic`, `StaysBootstrapped`;
- `UnderWayIsKnown`, `RefusalIsFinal`, `EveryoneApplies` as long as the connections
  that never break nor fail a write connect the nodes, `FloodEndsWithoutCycles`, also if the cycle
  breaks while transactions go round it;
- `FiguresAreNotBehind`: the check of heights works although the height is sent
  from one moment, the figures from another, and both sides restart, perhaps lower;
  it is of the height at which figures are let in, not of one grown past it since;
  `FiguresTakeEffect`: after an update the address has the figure or more, though
  others changed it after the comparison; `RecordsAreNotLowered`: an old figure
  takes no outputs away; `MessagesAreHandled`;
- `DepositsReturnedOnce`, `DepositsAreKept`, `RewardsAreMonthly`: how far the two
  writes of each validator method keep its account right when only a stop between
  the two, and a record taken from a peer, are counted as excuses;
- `NoCircularWait`, `OnlyStoreCallersStarve`, `CallsReturnUnlessStuck`: two things stop
  a goroutine for good, reading what it holds the write lock of and the nested read
  of `storage.GetBalance` when a writer announces itself in between. The second is
  between methods of the core excluded by `bc.mu`; it takes one of the calls that go
  to the store without it (`printNodeStatus`, `CreateNewWallet` and `ImportWallet`,
  `StoreCallers`), whether that call reads or writes. Nobody else is held up than who
  needs a lock of a goroutine so stopped;
- `AdminsAreMembers`, `CreatorStaysAdmin`, `NobodyTwice`, `RemovalsAreExact`.

Each of them has a mutant in `PROJECT.json`: a plausible slip in one mapped
definition, defined next to it, under which TLC finds the property violated.

### What the source says and does not do

Three runs end in a counterexample: they check what a comment promises.

| Run | Promise | What happens |
|---|---|---|
| `balance_sync_tells_balances` | `core/blockchain.go:158` a map of all addresses and their balances | with one entry in the set, addresses without entries are left out, the new wallet for which `cmd/cli.go:385` recommends a sync among them |
| `gossip_loop` | `p2p/server.go:538`, in `handleValidator`, no endless loops | `handleTransaction` forwards in the same way: a known transaction is forwarded |
| `node_locks_to_the_store` | `main.go:260` prints the status | a nested read lock and a writer that waits in between: at the start, or in `CreateNewWallet` |

Other places where the source promises what its actions, as modelled, do not
do; they have no run of their own (`crash_store`, `rate_limit`, `peer_table`,
`gossip` and `validators` check how far the code does keep them):

- `core/blockchain.go:346`: inputs are marked as spent in the set; the set's keys
  use `string(idx)`, the look-up decimal digits, and the entry stays unspent;
- `core/blockchain.go:450`: coins go from one address to another; legacy balance
  and outputs are written side by side and one or the other is read, so that the
  two parties may hold more or less together than before;
- `core/blockchain.go:1624`: blocks connect; `cmd/cli.go:360` saves one on a last
  block read earlier, over the block of a peer;
- `cmd/cli.go:341`: the first 10 wallets; the count is never written
  (`storage/leveldb.go:760` waits for itself), and a restart counts 0;
- `core/blockchain.go:882`: the deposit comes back, but to the legacy balance,
  which an address with outputs does not read; it comes back twice after a stop
  between the balance and the record, and is lost by one while registering
  (`DepositsReturnedOnce`, `DepositsAreKept` say these are the only cases);
- `core/blockchain.go:917`: monthly rewards; the reward is paid before its time is
  stored, and a stop in between pays the month again;
- `core/blockchain.go:299`: already processed; the key is written before the
  funds are checked (`RefusalIsFinal`);
- `core/blockchain.go:1636`: skip what exists; a stop between credit and key
  repeats the credit (`MovedOnceUnlessBlockCut` says it is the only place);
- `README.md:13` of the repository: 200 messages an hour; rounding to minutes
  allows them in an hour less a minute (`LimitHoldsForAnHourLessAMinute`);
- `README.md:12`: mutual whitelisting; the sender's own list is asked;
- `core/blockchain.go:826`: whitelists go to the store, and no code loads them;
- `p2p/server.go:145`: cancel the connection; a late dial is not cancelled;
- `p2p/peer.go:213`: remove the peer on disconnect; a newer connection of the
  same address may be the one removed (`NoPanic`, `EntriesAreWatched` and
  `StaysBootstrapped` hold all the same);
- `p2p/server.go:1083`: no more peers than the maximum; counted once, then up to
  five are dialled;
- `p2p/server.go:96`: Stop closes all connections; their readers close them again;
- `storage/leveldb.go:754` and `core/blockchain.go:1543`: the counting of a node
  and the increase of a stake each wait for a lock they hold;
- `core/blockchain.go:974`: JoinGroup adds a member; `Members` is not touched.

## 4. Fairness

- `Ledger`, `CrashStore`, `Validators`, `RateLimit`, `Group`: none; only safety is
  asked.
- `PeerTable.FairSpec`: fairness of the bootstrap tickers (`periodicSync`), strong
  because the tickers need no free `Peer` object, whose number only the model
  bounds; weak fairness of the end of a dial (`DialTimeout` bounds it), of the
  registration that follows it, of a reader noticing that its socket is gone,
  and of an outage ending. No fairness of peer lists, accepts or outages
  beginning; the number of outages is bounded, so that "once the network stays
  up" is meaningful. That every dial is followed to its end is
  justified by Go's scheduler; that a dial in an outage fails rather than hangs
  by its time-out.
- `Gossip`: weak fairness of each reader's two halves, which are a goroutine per
  connection, and of the users who send. Writes end within five seconds, by failing
  if need be, so that no reader waits for another. Nothing is assumed of connections
  breaking or of writes failing; that no call hangs in the ledger is assumed, and is
  the subject of `BalanceSync` and `NodeLocks`.
- `BalanceSync`: weak fairness of each connection's reader, a goroutine of its own.
  Its actions are disabled while `bc.mu` or the store's lock is held for good, so
  fairness asks nothing of it then, and `MessagesAreHandled` excepts such a node
  until it restarts: by counting a wallet, by increasing a stake, or by a balance
  read that a writer cut in two. Otherwise every section of a lock ends, which is
  `CallsReturnUnlessStuck` of `NodeLocks`. Nothing is assumed of users.
- `NodeLocks`: strong fairness of each goroutine's next operation. Go's
  `RWMutex` queues writers and lets waiting readers in between two writers, so
  that a goroutine is not passed over for ever. No call need ever start.

## 5. What is proved

TLAPS checks these for every value of the constants, under the assumptions of the
modules, each named there: `Addr` is finite and `MinDeposit` a natural number,
amounts are positive integers (`Ledger`), an hour is several whole minutes and the limits are
not zero (`RateLimit`), the calls of a menu are among those of the module
(`NodeLocks`), there is an address and `NoConn` is no connection (`PeerTable`),
connections are in both directions and between different nodes (`Gossip`), grants
are positive (`BalanceSync`), the clock's bounds are natural numbers (`Validators`),
what SYSTEM sent and what is a genesis are transactions (`CrashStore`), and those at
the head of `Group`.

`LedgerProofs`:

- `LedgerTyping` (on `LedgerShape`): keys are keys, stored hashes were created,
  deposits are never negative, balances are integers;
- `LedgerOutputs`, `LedgerMirrors`: `OutputsAreKnown` and `SetMirrorsStore`;
- `LedgerHeights`: `HeightsHaveNoGap`;
- `LedgerSpent`, `LedgerTransfers`: the action properties `SpentStaysSpent` and
  `TransfersAreExact`;
- `LedgerImplementsTxLog`: the refinement.

It begins with lemmas about `SaveAll`, `MarkSpent` and `OutputsOf`: what they keep,
that writing records of unknown transactions only grows a store, and that two
stores written alike go on mirroring each other.

The argument: `SpentStaysSpent` and `ImplementsTxLog` are not inductive. A step
writes records only under a transaction id that has no `tx_` key; it overwrites
nothing if every record's id has one. So the invariant `IInv` says that every
output of either store, every stored block and every moved amount belongs to a
known id (`StoresOK`, `ChainOK`, `LogOK`), together with the shape of the
variables (`OthersOK`). One case is special: the CLI's grant is
known when its block is saved and moved two store calls later, so `LogOK` adds that while
the CLI is at "credit" its transaction is known and not yet moved; nobody else
can move it, since all others only take unknown ids. Each action then falls
under one of a few lemmas (`LearningStep`, `QuietStep`, ...), which conclude at
once the invariant, the growth of the records, and a step of `TxLog`.
`HeightsHaveNoGap` has an inductive invariant of its own, in which the height
the CLI remembers is also one that is stored.

What balances are worth needs sums over sets of outputs. `SumFunctionOnSet` folds
over a set by a recursive function, and no rule of induction can be cited for it;
but a set of subsets can be shown to hold all of them by taking a smallest one it
lacks (`SubsetInduction`, from the library's well-foundedness of the strict subset
ordering). From it: the recursion has exactly one solution
(`SumUnique`, `SumExists`), a sum of integers is one (`SumType`), it does not depend
on the order (`SumTakeAway`) nor on anything but its terms (`SumSame`). `AmountsOK`
says that both stores are finite with integer amounts and that the legacy balances
are integers; it is inductive beside `IInv`. A transfer then leaves the sender
with the change and no other record (`UnspentAfter`, `UnspentOfChange`), or
with none and the legacy figure zero, the receiver with one record more, and all
others with the records they had (`TransferExact`); that the id is fresh is needed,
since otherwise the new outputs would overwrite old ones.

`NodeLocksProofs`: `NodeLocksTyping`, `NodeLocksExclusion`, `NodeLocksStarvation` and
`NodeLocksNoCircularWait`, for any goroutines and menus, those with direct calls of
the store included. What a goroutine holds is a
function of its place in its call, so each call is annotated with the locks held
before each of its operations; since calls are put together by concatenation, so
are the annotations (`Segment`, `SegmentConcat`, `SegmentReading`, `SegmentWriting`).
`IInv` says that `readers` and `writer` are what the annotations say, that announced
writers stand before their lock, and that a writer is alone. The annotations are
legal and ordered: a lock is taken under `bc` or under none, but for a read lock under
one's own write lock, which hangs, and the second read lock of `storage.GetBalance`,
which starves if it meets an announced writer. Those of the calls that are not
`StoreCallers` are `Covered` besides: whoever nests reads of the store or writes it
holds `bc`, so that of two such calls one would hold `bc` with the other, which is
`NodeLocksStarvation`. So in a cycle of waiting whoever holds a lock holds `bc` and wants another;
but what he wants somebody in the cycle holds, and that is `bc`.

`MessagingProofs`, on the limit: `RateTyping`, `RateLimitHolds`, `RateQuietServed`,
`RateCountersAgree`, for any limits, clock and receivers. Counters and history meet
in one invariant (`RateInv`): for every minute of the last hour, as
many messages are counted from it on as were sent from it on, in total and to each
receiver; messages whitelisted meanwhile count like others. A window of an hour
less a minute begins in a minute that no cleanup has dropped yet, so what it holds
was counted when the limit was asked. Nothing older than an hour and a minute
survives the cleanup with which the check begins, whatever was counted.

`MessagingProofs`, on groups: `GroupTyping`, `GroupAdmins`, `GroupCreator`, `GroupNobodyTwice`,
and the action property `GroupRemovals`. The last needs that nobody is listed
twice: only then does swapping with the last element remove one person.

`CrashStoreProofs`: `CrashTyping`, `CrashChain`, `CrashKeys`, `CrashMovedOnce`,
`CrashRewards`, which are all the properties of `CrashStore`. None of them is
inductive, for a stop may come at each write. `IInv` says for each place in each
method what has been written: while `op.pc` is past the block's place, the block
is stored and extends the current chain (`ChainOK`); past the key's place, the key
is (`KeysOK`); a debit of `t` has an excuse in the key or in an `AddBlock` that has
not come to it, and a method that comes to a credit has more debits than credits,
or its transaction is of SYSTEM and its credits are counted as the debits are
(`CountsOK`); a message stored and not promised, or a promise erased and not paid,
is worth one reward more (`RewardsOK`). The lemma `Places` fixes the place of each
write, `Writing` what a write makes of `op`, and the `Quiet...` lemmas carry a part
of `IInv` over the writes that do not touch it.

`ValidatorsProofs`: `ValidatorsReturn`, `ValidatorsKeep`, `ValidatorsMonthly`. Each
account is bounded by what the record still allows: the deposit it holds, the
reward it is due. The bounds hold of both copies of the record, since a stop puts
the stored one in the place of the other; the stored one is allowed the slack of
the one method between its writes, which is what the stop then adds to `cuts`.

`BalanceSyncProofs`: `BalanceSyncTyping`, `BalanceSyncNotBehind`, and the action
properties `BalanceSyncRecords` and `BalanceSyncTakesEffect`. The second rests on
heights. A node's height may fall: `CreateNewWallet` saves its block at a height it
read before others saved theirs, and a restart then starts from `last_block`. But a
restart ends the CLI too, so that between its reads of the height and of the balances
the height only grows: what is sent under a height was read at that height or a
higher one, on a link and in a reader. The last needs no more than types: whatever
`GetBalance` says when the update comes, the update leaves the figure or more.

`GossipProofs`: `GossipKnown`, `GossipRefusals`, for every network and any number
of breaks and of failed writes: knowledge only grows, and what is sent is known
where it is sent from.

`PeerTableProofs`: `PeerTableTyping`, `PeerTableWatched`, `PeerTableOneConnection`,
`PeerTableNoPanic`, for any addresses and any number of connections. The
invariant ties entries and readers in both directions: an entry has its reader,
and an open connection that is read is its address's entry (the theorem also has dials
and accepts for one address, which the run keeps apart); and until `Stop`
everything that may still be closed has its quit channel open.

Only model-checked: liveness under fairness, which is beyond the prover and stays
with TLC: `StaysBootstrapped`, `EveryoneApplies`, `FloodEndsWithoutCycles`,
`MessagesAreHandled`, `CallsReturnUnlessStuck`, as do the counterexamples. The type
invariants of `Validators`, `BalanceSync` and `NodeLocks` are only proved: no run
checks them. Every other property of a passing run has its theorem.

## 6. Plan

Done: the core (ledger, durability), the network (peer table, gossip with broken
connections, balance sync), validators, the rate limit, the locks, the groups; the
theorems of every safety and action property a run checks.

Next, in this order:

1. `Broadcast`: `SendCoins` writing to peers with a five-second deadline inside
   `bc.mu`, two nodes doing so to each other.
2. Gossip composed with `PeerTable`'s removal and reconnection.
3. `CrashStore` with `SendCoins` from the set and the shares of validators.
4. Theorems: that `BalanceSync`'s three numbers an address are what `Ledger` does to
   an address, step by step; the other transfers (through the set, with inputs).

## 7. Not modelled, and why

- Block download and peer information: `handleGetBlocks` is a TODO, no code
  originates a block message, and versions and heights are only logged. A
  peer's block is still an input of `Ledger`, since the handler exists.
- Validator lists: asked for and answered with the messages that `Gossip` floods,
  nothing of them is stored (`handleGetValidators`, `handleValidatorList`).
- `messaging/rewards.go` beyond its locks: no caller, and `CanSendMessage`, the
  only reader of its counters, never returns.
- Channels: `CreateChannel` is one write that nothing reads back.
- `GenesisAllocation`, penalties: no caller in the repository.
  `ProcessMessageResponse`, `ProcessValidatorRewards`, `SyncValidator` have none
  either but are exported and are the only way rewards are paid and records
  exchanged, so they are modelled.
- Float64 rounding: amounts are integers.
- Message sizes: a line of more than 64 KB ends the receiver's `bufio.Scanner`; to
  the other components that is a connection that breaks.
- After `Stop`: every peer stays in the table, and its reader closes it again,
  which panics in a process that is ending.
- `consensus/pos.go` and the older types in `core/`: unused by the node.
- Encryption, signatures, keys, address strings, configuration, logging,
  display commands: no state the properties speak of.
- `JoinGroup` of an unknown group: `storage.GetGroup` returns nil without an
  error and the method dereferences it; a panic has no interesting next state.

## 8. Running

    tlc -workers 2 -config Ledger.cfg MCLedger
    tlapm LedgerProofs.tla

The runs take from a second to about a minute each; the proofs a few minutes.
