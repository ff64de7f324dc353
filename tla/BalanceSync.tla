----------------------------- MODULE BalanceSync -----------------------------
(***************************************************************************)
(* Nodes telling each other their balances.  A node reads its height and   *)
(* then its balances, in two sections of bc.mu, and sends both to every    *)
(* peer.  A reader drops what comes with a lower height than its own, and  *)
(* goes through the rest one address at a time: it compares, and where the *)
(* figures differ calls UpdateBalance, in separate sections of bc.mu, while*)
(* transactions and other readers change the balances in between.          *)
(*                                                                         *)
(* Of the ledger (module Ledger) this keeps what the exchange can tell:    *)
(* per address the legacy balance, the worth of the unspent records, and   *)
(* the worth of the set's entries, which no spend ever marks.  Messages of *)
(* a connection are in order, and one that is not written in five seconds  *)
(* is lost; a restart ends the node's connections.                         *)
(*                                                                         *)
(* Of the locks (module NodeLocks) it keeps that a goroutine of the node   *)
(* can come to hold bc.mu, or s.mu of the store, for good: until then all  *)
(* sections end, and after it nobody who needs the lock goes on.           *)
(***************************************************************************)
EXTENDS Integers, Sequences

CONSTANTS Node, Addr, NoAddr,
          Grant,         \* the grant of a new wallet
          MaxGrants,     \* bounds on what users do: wallets funded,
          MaxExchanges,  \*   balances told or asked for,
          MaxTransfers,  \*   transactions a node applies,
          MaxRestarts,   \*   restarts of nodes,
          MaxHolds,      \*   locks held for good besides the store by counting,
          MaxOps         \*   and all of these together

ASSUME GrantAssumption == Grant \in Nat \ {0}

VARIABLES
    legacy,    \* node -> address -> balance_<addr>, or NoFigure without that key
    records,   \* node -> address -> worth of its unspent records
    entries,   \* node -> address -> worth of its entries in the set
    height,    \* node -> height of bc.currentBlock
    last,      \* node -> last_block on the disk
    held,      \* node -> the lock that is held for good, or none
    cli,       \* node -> the CLI goroutine, with the height it read and its wallet
    link,      \* <<from, to>> -> messages on their way
    reader,    \* <<from, to>> -> the message that to's reader is handling
    used       \* history: how many of each bounded thing

ledger == <<legacy, records, entries, height, last>>
vars == <<ledger, held, cli, link, reader, used>>

NoFigure == -1
Figures == [Addr -> Nat \cup {NoFigure}]   \* what is known of some addresses
Message == [kind : {"sync"}, figures : Figures, height : Nat, read : Nat]
           \cup [kind : {"ask"}, addr : Addr]
           \cup [kind : {"balance"}, figures : Figures]

Pair == {p \in Node \X Node : p[1] # p[2]}
Nothing == [a \in Addr |-> NoFigure]
Idle == [pc |-> "idle", height |-> 0, addr |-> NoAddr]
Free == [figures |-> Nothing, due |-> NoAddr, mine |-> 0, read |-> 0]

Zero == [a \in Addr |-> 0]
Only(a, v) == [Nothing EXCEPT ![a] = v]
Without(f, a) == [f EXCEPT ![a] = NoFigure]
Told(figures) == {a \in Addr : figures[a] # NoFigure}

Init ==
    /\ legacy = [n \in Node |-> Nothing]
    /\ records = [n \in Node |-> Zero] /\ entries = [n \in Node |-> Zero]
    /\ height = [n \in Node |-> 0] /\ last = [n \in Node |-> 0]
    /\ held = [n \in Node |-> "none"]
    /\ cli = [n \in Node |-> Idle]
    /\ link = [p \in Pair |-> << >>]
    /\ reader = [p \in Pair |-> Free]
    /\ used = [grants |-> 0, exchanges |-> 0, transfers |-> 0, restarts |-> 0, holds |-> 0]

(***************************************************************************)
(* Reading a ledger                                                        *)
(***************************************************************************)
Legacy(n, a) == IF legacy[n][a] = NoFigure THEN 0 ELSE legacy[n][a]
GetBalance(n, a) == IF records[n][a] > 0 THEN records[n][a] ELSE Legacy(n, a)

\* The totals of the set if it has an unspent entry, else the legacy keys.
GetAllBalances(n) ==
    LET inSet == {a \in Addr : entries[n][a] > 0}
    IN  IF inSet = {} THEN legacy[n]
        ELSE [a \in Addr |-> IF a \in inSet THEN entries[n][a] ELSE NoFigure]

May(kind, bound) ==
    /\ used[kind] < bound
    /\ used.grants + used.exchanges + used.transfers + used.restarts + used.holds
         < MaxOps

CliIdle(n) == cli[n].pc = "idle"
LedgerFree(n) == held[n] = "none"    \* bc.mu and s.mu can be had
Hold(n, lock) == held' = [held EXCEPT ![n] = lock]

(***************************************************************************)
(* What changes a ledger besides                                           *)
(***************************************************************************)
\* CreateNewWallet and ImportWallet, one call of the store at a time.
CliAt(n, pc) == cli[n].pc = pc /\ LedgerFree(n)
CliGoes(n, pc) == cli' = [cli EXCEPT ![n].pc = pc]

\* AddWallet leaves the ledger alone; GetNodeCount is below ten, and the wallet
\* has no balance.
CreateNewWallet(n, a) ==
    /\ CliAt(n, "idle") /\ May("grants", MaxGrants)
    /\ GetBalance(n, a) = 0
    /\ cli' = [cli EXCEPT ![n] = [Idle EXCEPT !.pc = "read", !.addr = a]]
    /\ used' = [used EXCEPT !.grants = @ + 1]
    /\ UNCHANGED <<ledger, held, link, reader>>

ReadLastBlock(n) ==
    /\ CliAt(n, "read")
    /\ cli' = [cli EXCEPT ![n].pc = "save", ![n].height = last[n] + 1]
    /\ UNCHANGED <<ledger, held, link, reader, used>>

\* SaveBlock: to the disk, not to currentBlock, and on top of the block that was
\* the last one when it was read.
SaveGrant(n) ==
    /\ CliAt(n, "save")
    /\ last' = [last EXCEPT ![n] = cli[n].height]
    /\ cli' = [cli EXCEPT ![n].pc = "credit", ![n].height = 0]
    /\ UNCHANGED <<legacy, records, entries, height, held, link, reader, used>>

CreditGrant(n) ==
    /\ CliAt(n, "credit")
    /\ legacy' = [legacy EXCEPT ![n][cli[n].addr] = Grant]
    /\ cli' = [cli EXCEPT ![n] = [Idle EXCEPT !.pc = "count"]]
    /\ UNCHANGED <<records, entries, height, last, held, link, reader, used>>

\* IncrementNodeCount reads the count under s.mu, which it has locked.
IncrementNodeCount(n) ==
    /\ CliAt(n, "count")
    /\ Hold(n, "st")
    /\ UNCHANGED <<ledger, cli, link, reader, used>>

WalletCreation(n) ==
    \/ \E a \in Addr : CreateNewWallet(n, a)
    \/ ReadLastBlock(n) \/ SaveGrant(n) \/ CreditGrant(n) \/ IncrementNodeCount(n)

\* IncreaseValidatorStake reads the balance under bc.mu, which it has locked.
IncreaseValidatorStake(n) ==
    /\ CliAt(n, "idle") /\ May("holds", MaxHolds)
    /\ CliGoes(n, "stake") /\ Hold(n, "bc")
    /\ used' = [used EXCEPT !.holds = @ + 1]
    /\ UNCHANGED <<ledger, link, reader>>

\* storage.GetBalance takes its read lock twice, and a writer that announces
\* itself in between, who waits for the first, stops the second: main, which
\* prints the status some time after a start, or the CLI in CreateNewWallet reads
\* beside bc.mu while somebody writes, or it writes while somebody reads.
StarveStore(n) ==
    /\ LedgerFree(n) /\ May("holds", MaxHolds)
    /\ Hold(n, "st")
    /\ used' = [used EXCEPT !.holds = @ + 1]
    /\ UNCHANGED <<ledger, cli, link, reader>>

NewBlock(n) ==
    /\ height' = [height EXCEPT ![n] = @ + 1]
    /\ last' = [last EXCEPT ![n] = height[n] + 1]

\* A transaction with inputs: how much of them this node holds unspent, and what
\* change they leave, is open.  The set gets its outputs and loses nothing.
TransferByInputs(n, from, to, amount) ==
    \E change \in 0..1, spent \in 0..records[n][from] :
        LET made(a) == (IF a = to THEN amount ELSE 0) + (IF a = from THEN change ELSE 0)
        IN  /\ records' = [records EXCEPT ![n] =
                 [a \in Addr |-> @[a] + made(a) - IF a = from THEN spent ELSE 0]]
            /\ entries' = [entries EXCEPT ![n] = [a \in Addr |-> @[a] + made(a)]]
            /\ UNCHANGED legacy

\* One without, paid from the balance: all the sender's records are spent.
TransferByBalance(n, from, to, amount) ==
    LET rest == GetBalance(n, from) - amount
    IN  /\ rest >= 0
        /\ legacy' = [legacy EXCEPT ![n][from] = rest,
                                    ![n][to] = GetBalance(n, to) + amount]
        /\ records' = [records EXCEPT ![n][from] = rest, ![n][to] = @ + amount]
        /\ UNCHANGED entries

\* SendCoins, or ProcessTransaction of a peer's.
Transfer(n, from, to, amount) ==
    /\ LedgerFree(n) /\ from # to /\ May("transfers", MaxTransfers)
    /\ TransferByInputs(n, from, to, amount) \/ TransferByBalance(n, from, to, amount)
    /\ NewBlock(n)
    /\ used' = [used EXCEPT !.transfers = @ + 1]
    /\ UNCHANGED <<held, cli, link, reader>>

\* A transaction without inputs that the balance does not cover: its block is
\* saved before the balance is read, and currentBlock stays.
RefuseTransfer(n, from, amount) ==
    /\ LedgerFree(n) /\ May("transfers", MaxTransfers)
    /\ GetBalance(n, from) < amount
    /\ last' = [last EXCEPT ![n] = height[n] + 1]
    /\ used' = [used EXCEPT !.transfers = @ + 1]
    /\ UNCHANGED <<legacy, records, entries, height, held, cli, link, reader>>

\* The node stops and starts again; its connections and readers are new.
Restart(n) ==
    /\ May("restarts", MaxRestarts)
    /\ height' = [height EXCEPT ![n] = last[n]]
    /\ Hold(n, "none")
    /\ cli' = [cli EXCEPT ![n] = Idle]
    /\ link' = [p \in Pair |-> IF n \in {p[1], p[2]} THEN << >> ELSE link[p]]
    /\ reader' = [p \in Pair |-> IF n = p[2] THEN Free ELSE reader[p]]
    /\ used' = [used EXCEPT !.restarts = @ + 1]
    /\ UNCHANGED <<legacy, records, entries, last>>

(***************************************************************************)
(* Telling and asking                                                      *)
(***************************************************************************)
\* To every peer, except those to which it is not written in five seconds.
ToAll(n, message) ==
    \E written \in SUBSET {p \in Pair : p[1] = n} :
        link' = [p \in Pair |-> IF p \in written THEN Append(link[p], message) ELSE link[p]]

\* SyncBalancesWithPeers: the height first ...
ReadHeight(n) ==
    /\ CliIdle(n) /\ held[n] # "bc" /\ May("exchanges", MaxExchanges)
    /\ cli' = [cli EXCEPT ![n].pc = "balances", ![n].height = height[n]]
    /\ used' = [used EXCEPT !.exchanges = @ + 1]
    /\ UNCHANGED <<ledger, held, link, reader>>

\* Mutant: the number of blocks instead of the height of the last one.
SendBalancesCounted(n) ==
    /\ CliAt(n, "balances")
    /\ LET figures == GetAllBalances(n)
       IN  IF figures = Nothing THEN UNCHANGED link
           ELSE ToAll(n, [kind |-> "sync", figures |-> figures,
                          height |-> cli[n].height + 1, read |-> height[n]])
    /\ cli' = [cli EXCEPT ![n] = Idle]
    /\ UNCHANGED <<ledger, held, reader, used>>

\* ... then the balances, which are sent with it unless there are none.  The
\* field read is not sent: it is the height at which they were read.
SendBalances(n) ==
    /\ CliAt(n, "balances")
    /\ LET figures == GetAllBalances(n)
       IN  IF figures = Nothing THEN UNCHANGED link
           ELSE ToAll(n, [kind |-> "sync", figures |-> figures,
                          height |-> cli[n].height, read |-> height[n]])
    /\ cli' = [cli EXCEPT ![n] = Idle]
    /\ UNCHANGED <<ledger, held, reader, used>>

\* requestBalance asks every peer for one address.
AskBalance(n, a) ==
    /\ CliIdle(n) /\ May("exchanges", MaxExchanges)
    /\ ToAll(n, [kind |-> "ask", addr |-> a])
    /\ used' = [used EXCEPT !.exchanges = @ + 1]
    /\ UNCHANGED <<ledger, held, cli, reader>>

(***************************************************************************)
(* The reader of the connection p, at node p[2]                            *)
(***************************************************************************)
Arrived(p, kind) ==
    link[p] # << >> /\ Head(link[p]).kind = kind /\ reader[p] = Free

Popped(p) == [link EXCEPT ![p] = Tail(@)]

\* handleGetBalance.
AnswerBalance(p) ==
    LET a == Head(link[p]).addr
        back == <<p[2], p[1]>>
    IN  /\ Arrived(p, "ask") /\ LedgerFree(p[2])
        /\ \/ link' = [Popped(p) EXCEPT ![back] =
                         Append(@, [kind |-> "balance",
                                    figures |-> Only(a, GetBalance(p[2], a))])]
           \/ link' = Popped(p)    \* not written in five seconds
        /\ UNCHANGED <<ledger, held, cli, reader, used>>

\* handleBalance begins: no height is compared.
TakeBalance(p) ==
    /\ Arrived(p, "balance")
    /\ reader' = [reader EXCEPT ![p].figures = Head(link[p]).figures]
    /\ link' = Popped(p)
    /\ UNCHANGED <<ledger, held, cli, used>>

\* Mutant: one with a lower height waits for a better time.
TakeSyncLater(p) ==
    LET message == Head(link[p])
    IN  /\ Arrived(p, "sync") /\ held[p[2]] # "bc" /\ message.height >= height[p[2]]
        /\ reader' = [reader EXCEPT ![p] =
                        [Free EXCEPT !.figures = message.figures,
                                     !.mine = height[p[2]], !.read = message.read]]
        /\ link' = Popped(p)
        /\ UNCHANGED <<ledger, held, cli, used>>

\* handleSyncBalances begins: one with a lower height is ignored.
TakeSync(p) ==
    LET message == Head(link[p])
    IN  /\ Arrived(p, "sync") /\ held[p[2]] # "bc"
        /\ reader' = IF message.height < height[p[2]] THEN reader
                     ELSE [reader EXCEPT ![p] =
                             [Free EXCEPT !.figures = message.figures,
                                          !.mine = height[p[2]], !.read = message.read]]
        /\ link' = Popped(p)
        /\ UNCHANGED <<ledger, held, cli, used>>

\* The reader is done with one address of its message.
Done(p, a) ==
    LET rest == Without(reader[p].figures, a)
    IN  reader' = [reader EXCEPT ![p] =
                     IF rest = Nothing THEN Free
                     ELSE [reader[p] EXCEPT !.figures = rest, !.due = NoAddr]]

\* Mutant: compares with the legacy balance.
CompareLegacy(p, a) ==
    /\ a \in Told(reader[p].figures) /\ reader[p].due = NoAddr /\ LedgerFree(p[2])
    /\ IF Legacy(p[2], a) = reader[p].figures[a] THEN Done(p, a)
       ELSE reader' = [reader EXCEPT ![p].due = a]
    /\ UNCHANGED <<ledger, held, cli, link, used>>

\* The next address, in Go's arbitrary map order: GetBalance, and no more if
\* the figures are equal.
Compare(p, a) ==
    /\ a \in Told(reader[p].figures) /\ reader[p].due = NoAddr /\ LedgerFree(p[2])
    /\ IF GetBalance(p[2], a) = reader[p].figures[a] THEN Done(p, a)
       ELSE reader' = [reader EXCEPT ![p].due = a]
    /\ UNCHANGED <<ledger, held, cli, link, used>>

\* Mutant: the records of the address are spent whatever the figure.
UpdateBalanceAlways(n, a, figure) ==
    /\ records' = [records EXCEPT ![n][a] = figure]
    /\ entries' = [entries EXCEPT ![n][a] = @ + figure]
    /\ NewBlock(n)
    /\ legacy' = [legacy EXCEPT ![n][a] = figure]

\* UpdateBalance: a higher figure replaces the records of the address by one
\* of that worth, in a block of this node's; a lower one only the legacy key.
UpdateBalance(n, a, figure) ==
    /\ IF figure > GetBalance(n, a)
       THEN /\ records' = [records EXCEPT ![n][a] = figure]
            /\ entries' = [entries EXCEPT ![n][a] = @ + figure]
            /\ NewBlock(n)
       ELSE UNCHANGED <<records, entries, height, last>>
    /\ legacy' = [legacy EXCEPT ![n][a] = figure]

Update(p) ==
    LET a == reader[p].due
    IN  /\ a # NoAddr /\ LedgerFree(p[2])
        /\ UpdateBalance(p[2], a, reader[p].figures[a])
        /\ Done(p, a)
        /\ UNCHANGED <<held, cli, link, used>>

Read(p) == \/ AnswerBalance(p) \/ TakeBalance(p) \/ TakeSync(p)
           \/ \E a \in Addr : Compare(p, a)
           \/ Update(p)

User(n) == \/ WalletCreation(n) \/ IncreaseValidatorStake(n)
           \/ StarveStore(n)
           \/ \E a \in Addr : AskBalance(n, a)
           \/ \E from, to \in Addr : Transfer(n, from, to, 1)
           \/ \E from \in Addr : RefuseTransfer(n, from, 1)
           \/ ReadHeight(n) \/ SendBalances(n) \/ Restart(n)

Next == (\E n \in Node : User(n)) \/ (\E p \in Pair : Read(p))

\* A reader's section of bc.mu or s.mu is got and ends while neither lock is held
\* for good.
Spec == Init /\ [][Next]_vars /\ \A p \in Pair : WF_vars(Read(p))

(***************************************************************************)
(* Properties                                                              *)
(***************************************************************************)
\* Amounts are natural numbers, and a reader that owes an update owes it to
\* an address of its message.
TypeOK ==
    /\ legacy \in [Node -> Figures]
    /\ records \in [Node -> [Addr -> Nat]] /\ entries \in [Node -> [Addr -> Nat]]
    /\ height \in [Node -> Nat] /\ last \in [Node -> Nat]
    /\ held \in [Node -> {"none", "bc", "st"}]
    /\ cli \in [Node -> [pc : {"idle", "balances", "stake", "read", "save", "credit",
                               "count"},
                         height : Nat, addr : Addr \cup {NoAddr}]]
    /\ \A n \in Node : cli[n].pc \in {"read", "save", "credit"} => cli[n].addr \in Addr
    /\ link \in [Pair -> Seq(Message)]
    /\ reader \in [Pair -> [figures : Figures, due : Addr \cup {NoAddr},
                            mine : Nat, read : Nat]]
    /\ \A p \in Pair : reader[p].due \in Told(reader[p].figures) \cup {NoAddr}
    /\ used \in [grants : Nat, exchanges : Nat, transfers : Nat, restarts : Nat,
                holds : Nat]

\* While handleSyncBalances is at work, the figures it works with were read
\* by their node when that was at least as high as this one was when it let
\* them in, though the height was read before them, and both nodes restart at
\* heights that may be lower.
FiguresAreNotBehind ==
    \A p \in Pair :
        reader[p].figures # Nothing => reader[p].mine <= reader[p].read

\* Every step by which a reader is done with a figure leaves the address with
\* that figure or more, whatever came between its GetBalance and its
\* UpdateBalance.
FiguresTakeEffect ==
    [][\A p \in Pair : \A a \in Told(reader[p].figures) :
         a \notin Told(reader'[p].figures) /\ used'.restarts = used.restarts
           => GetBalance(p[2], a)' >= reader[p].figures[a]]_vars

\* A peer's figure, however old, takes nothing from an address whose balance
\* rests on records: UpdateBalance leaves them when the figure is lower.
RecordsAreNotLowered ==
    [][\A p \in Pair : \A a \in Addr :
         Update(p) /\ records[p[2]][a] > 0
           => records'[p[2]][a] >= records[p[2]][a]]_vars

\* A reader comes to the end of all messages there are, unless bc.mu or the
\* store of its node comes to be held for good: by counting a wallet, by
\* increasing a stake, or by a balance read that a writer has cut in two.
MessagesAreHandled ==
    \A p \in Pair :
        link[p] # << >> ~> (link[p] = << >> /\ reader[p] = Free) \/ ~LedgerFree(p[2])

(***************************************************************************)
(* What the source says and does not do                                    *)
(***************************************************************************)
\* core/blockchain.go:158 "GetAllBalances returns a map of all addresses and
\* their balances": what a node tells of an address is its balance there.
SyncTellsBalances ==
    \A n \in Node : \A a \in Addr :
        GetBalance(n, a) > 0 =>
            GetAllBalances(n)[a] = GetBalance(n, a)
=============================================================================
