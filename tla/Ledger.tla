------------------------------- MODULE Ledger --------------------------------
(***************************************************************************)
(* One node's ledger: core.Blockchain over the LevelDB store.  Every       *)
(* method of core.Blockchain holds bc.mu from its first to its last line,  *)
(* so it is one action here.  What is not atomic is the wallet creation of *)
(* cmd/cli.go, which writes blocks and balances straight to the store,     *)
(* call by call, while the network handlers go on calling core.Blockchain; *)
(* and the program may stop between two actions and start again from what  *)
(* the store holds.  (Stops inside a method are the subject of module      *)
(* CrashStore.)                                                            *)
(*                                                                         *)
(* Amounts are in quarters of a DOU, so that message rewards are integers. *)
(***************************************************************************)
EXTENDS UtxoStore, Sequences, FiniteSets

CONSTANTS Addr,          \* well-formed wallet addresses
          System,        \* the sender "SYSTEM" of credits made by a node
          NoAddr, NoTx,  \* no address, no transaction
          Amounts,       \* amounts sent, and balances told by peers
          GenesisGrant,  \* 15,000 DOU
          GenesisLimit,  \* 10 funded wallets
          MinDeposit,    \* 50 DOU
          MaxBlocks      \* bound: blocks ever created

ASSUME AddrAssumption == IsFiniteSet(Addr)
\* Positive amounts only: the code checks none of what peers send, and leaves the
\* receiver without a record when one is not (core/blockchain.go:409).
ASSUME AmountsAssumption == Amounts \subseteq Nat \ {0} /\ GenesisGrant \in Nat \ {0}
ASSUME MinDepositAssumption == MinDeposit \in Nat

SenderReward == 3
ReceiverReward == 1
ValidatorShare(n) == 6 \div n    \* 1.5 DOU among n validators

NoBlock == 0

VARIABLES
    balance,   \* balance_<addr>: the legacy balances
    utxos,     \* utxo_<txid>_<idx>: the individual output records
    utxoSet,   \* utxo_set: the set kept as one value
    txs,       \* the ids with a tx_<id> key
    blocks,    \* block_<height>: height -> [hash, prev, tx]
    last,      \* last_block: the height it names
    current,   \* bc.currentBlock: [height, hash]
    created,   \* how many blocks were ever made; a block's hash is its number
    deposit,   \* the validators' deposits, 0 for an address that is none
    pending,   \* pending_rewards: pairs <<sender, receiver>>
    wallets,   \* addresses with a wallet
    cli,       \* the CLI goroutine inside a wallet creation
    applied    \* history: how often a transaction's amount was moved

money == <<balance, utxos, utxoSet>>
chain == <<txs, blocks, last, current, created>>
others == <<deposit, pending, wallets>>
vars == <<money, chain, others, cli, applied>>

Idle == [pc |-> "idle", addr |-> NoAddr, base |-> NoBlock, height |-> 0,
         tx |-> NoTx]

(***************************************************************************)
(* Reading                                                                 *)
(***************************************************************************)
\* The unspent individual records if they are worth anything, else the
\* legacy balance.
BalanceIn(records, legacy, a) ==
    IF UnspentValue(records, a) > 0 THEN UnspentValue(records, a) ELSE legacy[a]
GetBalance(a) == BalanceIn(utxos, balance, a)

\* The per-address totals of the set if it has any unspent entry, else the
\* legacy balances.
GetAllBalances ==
    IF \E r \in DOMAIN utxoSet : ~utxoSet[r].spent
    THEN [a \in Addr |-> UnspentValue(utxoSet, a)]
    ELSE balance

\* The node count key is never written: IncrementNodeCount never returns.
GetNodeCount == 0

(***************************************************************************)
(* Blocks                                                                  *)
(***************************************************************************)
CanCreate(n) == created + n <= MaxBlocks

\* Mutant: the transaction is not saved with its block.
SaveBlockOnly(t, base) ==
    /\ CanCreate(1)
    /\ created' = created + 1
    /\ blocks' = SaveAll(blocks, [h \in {base.height + 1} |->
                            [hash |-> created + 1, prev |-> base.hash, tx |-> t]])
    /\ last' = base.height + 1
    /\ UNCHANGED txs

\* SaveBlock of a new block holding tx t, on top of the block base.
SaveBlock(t, base) ==
    /\ CanCreate(1)
    /\ created' = created + 1
    /\ blocks' = SaveAll(blocks, [h \in {base.height + 1} |->
                            [hash |-> created + 1, prev |-> base.hash, tx |-> t]])
    /\ last' = base.height + 1
    /\ txs' = txs \cup {t}

\* The same, and the block becomes bc.currentBlock.
Extend(t) ==
    /\ SaveBlock(t, current)
    /\ current' = [height |-> current.height + 1, hash |-> created + 1]

\* Extend by a sequence of distinct transactions, one block each.
ExtendAll(ts) ==
    LET n == Len(ts)
    IN  /\ CanCreate(n)
        /\ created' = created + n
        /\ blocks' = SaveAll(blocks,
                       [h \in {current.height + i : i \in DOMAIN ts} |->
                          LET i == h - current.height
                          IN  [hash |-> created + i, tx |-> ts[i],
                               prev |-> IF i = 1 THEN current.hash
                                                 ELSE created + i - 1]])
        /\ last' = IF n = 0 THEN last ELSE current.height + n
        /\ txs' = txs \cup {ts[i] : i \in DOMAIN ts}
        /\ current' = IF n = 0 THEN current
                      ELSE [height |-> current.height + n, hash |-> created + n]

Fresh == TxId \ txs
Count(ts) == applied' = [t \in TxId |-> applied[t] + IF t \in ts THEN 1 ELSE 0]
WithChange(out, rest, owner) ==
    IF rest > 0 THEN <<out, Output(rest, owner)>> ELSE <<out>>

CliIdle == cli.pc = "idle"
StoreFree == cli.pc # "hung"     \* s.mu is held forever by a hung CLI

(***************************************************************************)
(* Start, stop, start again                                                *)
(***************************************************************************)
Init ==
    /\ balance = [a \in Addr |-> 0]
    /\ utxos = << >> /\ utxoSet = << >>
    /\ txs = {}
    /\ blocks = [h \in {0} |-> [hash |-> 1, prev |-> NoBlock, tx |-> NoTx]]
    /\ last = 0
    /\ current = [height |-> 0, hash |-> 1]
    /\ created = 1
    /\ deposit = [a \in Addr |-> 0]
    /\ pending = {} /\ wallets = {}
    /\ cli = Idle
    /\ applied = [t \in TxId |-> 0]

\* The program stops between two store calls; NewBlockchain loads the state.
Restart ==
    /\ current' = [height |-> last, hash |-> blocks[last].hash]
    /\ cli' = Idle
    /\ UNCHANGED <<money, txs, blocks, last, created, others, applied>>

(***************************************************************************)
(* Sending                                                                 *)
(***************************************************************************)
\* SendCoins when the set holds enough unspent entries of the sender.
SendFromSet(from, to, amount, t) ==
    \E I \in Spendable(utxoSet, from, amount) :
        LET outs == WithChange(Output(amount, to),
                               ValueOf(utxoSet, I) - amount, from)
        IN  /\ utxos' = SaveAll(MarkSpent(utxos, I), OutputsOf(t, outs))
            /\ utxoSet' = SaveAll(MarkSpent(utxoSet, DecimalKeys(I)),
                                  OutputsOf(t, outs))
            /\ UNCHANGED balance

\* SendCoins otherwise.  Both balances are read before either is written.
SendFromBalance(from, to, amount, t) ==
    LET rest == GetBalance(from) - amount
    IN  /\ Spendable(utxoSet, from, amount) = {}
        /\ rest >= 0
        /\ balance' = [balance EXCEPT ![from] = rest,
                                      ![to] = GetBalance(to) + amount]
        /\ utxos' = SaveAll(MarkSpent(utxos, Unspent(utxos, from)),
                            OutputsOf(t, WithChange(Output(amount, to), rest, from)))
        /\ UNCHANGED utxoSet

SendCoins(from, to, amount, t) ==
    /\ CliIdle /\ t \in Fresh
    /\ \/ SendFromSet(from, to, amount, t)
       \/ SendFromBalance(from, to, amount, t)
    /\ Extend(t)
    /\ Count({t})
    /\ UNCHANGED <<others, cli>>

(***************************************************************************)
(* Transactions from peers                                                 *)
(***************************************************************************)
\* ProcessTransaction of a transaction with inputs: no check of the funds;
\* inputs this node does not know are skipped.
ApplyInputs(t, inputs, outs) ==
    /\ inputs # {}
    /\ utxos' = SaveAll(MarkSpent(utxos, inputs), OutputsOf(t, outs))
    /\ utxoSet' = SaveAll(MarkSpent(utxoSet, DecimalKeys(inputs)), OutputsOf(t, outs))
    /\ Extend(t)
    /\ Count({t})
    /\ UNCHANGED balance

\* Mutant: the sender's outputs are not marked as spent.
ApplyTransferKeeps(t, from, to, amount) ==
    LET rest == GetBalance(from) - amount
        debited == [balance EXCEPT ![from] = rest]
    IN  /\ rest >= 0
        /\ balance' = [debited EXCEPT ![to] = BalanceIn(utxos, debited, to) + amount]
        /\ utxos' = SaveAll(utxos, OutputsOf(t, WithChange(Output(amount, to), rest, from)))
        /\ Extend(t)
        /\ Count({t})
        /\ UNCHANGED utxoSet

\* ProcessTransaction of one without: the receiver's balance is read after
\* the sender's is written, and the set is left alone.
ApplyTransfer(t, from, to, amount) ==
    LET rest == GetBalance(from) - amount
        debited == [balance EXCEPT ![from] = rest]
    IN  /\ rest >= 0
        /\ balance' = [debited EXCEPT ![to] = BalanceIn(utxos, debited, to) + amount]
        /\ utxos' = SaveAll(MarkSpent(utxos, Unspent(utxos, from)),
                            OutputsOf(t, WithChange(Output(amount, to), rest, from)))
        /\ Extend(t)
        /\ Count({t})
        /\ UNCHANGED utxoSet

\* The early return: the block is already saved, with the transaction.
RejectTransfer(t, from, amount) ==
    /\ GetBalance(from) < amount
    /\ SaveBlock(t, current)
    /\ UNCHANGED <<money, current, applied>>

\* Mutant: no check for a transaction already processed.
ProcessTransactionAgain(t, from, to, amount, inputs, rest) ==
    /\ StoreFree
    /\ \/ ApplyInputs(t, inputs, WithChange(Output(amount, to), rest, from))
       \/ inputs = {} /\ ApplyTransfer(t, from, to, amount)
       \/ inputs = {} /\ RejectTransfer(t, from, amount)
    /\ UNCHANGED <<others, cli>>

ProcessTransaction(t, from, to, amount, inputs, rest) ==
    /\ StoreFree /\ t \in Fresh
    /\ \/ ApplyInputs(t, inputs, WithChange(Output(amount, to), rest, from))
       \/ inputs = {} /\ ApplyTransfer(t, from, to, amount)
       \/ inputs = {} /\ RejectTransfer(t, from, amount)
    /\ UNCHANGED <<others, cli>>

(***************************************************************************)
(* Blocks and balances from peers                                          *)
(***************************************************************************)
\* The balances after AddBlock moved the amount of one transaction.
Moved(from, to, amount) ==
    LET debited == IF from = System THEN balance
                   ELSE [balance EXCEPT ![from] = GetBalance(from) - amount]
    IN  [debited EXCEPT ![to] = BalanceIn(utxos, debited, to) + amount]

\* Mutant: no check for a transaction already processed.
AddBlockAgain(t, from, to, amount, genesis) ==
    /\ StoreFree
    /\ Extend(t)
    /\ IF ~genesis THEN balance' = Moved(from, to, amount) /\ Count({t})
       ELSE UNCHANGED <<balance, applied>>
    /\ UNCHANGED <<utxos, utxoSet, others, cli>>

\* AddBlock of a peer's block on our current one, holding transaction t.
AddBlock(t, from, to, amount, genesis) ==
    /\ StoreFree
    /\ Extend(t)
    /\ IF t \in Fresh /\ ~genesis
       THEN balance' = Moved(from, to, amount) /\ Count({t})
       ELSE UNCHANGED <<balance, applied>>
    /\ UNCHANGED <<utxos, utxoSet, others, cli>>

\* Mutant: the new output goes to the set only.
IncreaseBalanceInSet(a, figure, t) ==
    /\ figure > GetBalance(a)
    /\ t \in Fresh
    /\ utxos' = MarkSpent(utxos, Unspent(utxos, a))
    /\ utxoSet' = SaveAll(MarkSpent(utxoSet, DecimalKeys(Unspent(utxos, a))),
                          OutputsOf(t, <<Output(figure, a)>>))
    /\ Extend(t)
    /\ Count({t})

\* UpdateBalance with a figure above the balance: all the outputs of the
\* address are replaced by a new one, in a block of this node's own.
IncreaseBalance(a, figure, t) ==
    /\ figure > GetBalance(a)
    /\ t \in Fresh
    /\ utxos' = SaveAll(MarkSpent(utxos, Unspent(utxos, a)),
                        OutputsOf(t, <<Output(figure, a)>>))
    /\ utxoSet' = SaveAll(MarkSpent(utxoSet, DecimalKeys(Unspent(utxos, a))),
                          OutputsOf(t, <<Output(figure, a)>>))
    /\ Extend(t)
    /\ Count({t})

\* handleBalance and handleSyncBalances: they read the balance, and call
\* UpdateBalance if the peer's figure differs; anything may come between.
UpdateBalance(a, figure, t) ==
    /\ StoreFree
    /\ \/ IncreaseBalance(a, figure, t)
       \/ /\ figure <= GetBalance(a)
          /\ UNCHANGED <<utxos, utxoSet, chain, applied>>
    /\ balance' = [balance EXCEPT ![a] = figure]
    /\ UNCHANGED <<others, cli>>

(***************************************************************************)
(* Conversion of legacy balances                                           *)
(***************************************************************************)
\* Addresses with a positive figure and no unspent individual record.
Convertible == {a \in Addr : GetAllBalances[a] > 0 /\ Unspent(utxos, a) = {}}

\* Each gets one transaction and one block, in Go's arbitrary map order.
ConvertLegacyBalancesToUTXOs ==
    /\ CliIdle
    /\ \E by \in Injection(1..Cardinality(Convertible), Convertible),
          ts \in Injection(1..Cardinality(Convertible), Fresh) :
         LET made == [r \in {<<ts[i], 0>> : i \in DOMAIN ts} |->
                        LET a == by[CHOOSE i \in DOMAIN ts : ts[i] = r[1]]
                        IN  Rec(Output(GetAllBalances[a], a))]
         IN  /\ utxos' = SaveAll(utxos, made)
             /\ utxoSet' = SaveAll(utxoSet, made)
             /\ ExtendAll(ts)
             /\ Count({ts[i] : i \in DOMAIN ts})
    /\ UNCHANGED <<balance, others, cli>>

(***************************************************************************)
(* Validators                                                              *)
(***************************************************************************)
\* startValidating always offers the minimum deposit.
RegisterValidator(a) ==
    /\ CliIdle
    /\ deposit[a] = 0
    /\ GetBalance(a) >= MinDeposit
    /\ deposit' = [deposit EXCEPT ![a] = MinDeposit]
    /\ balance' = [balance EXCEPT ![a] = GetBalance(a) - MinDeposit]
    /\ UNCHANGED <<utxos, utxoSet, chain, pending, wallets, cli, applied>>

\* Mutant: no check that the address is a validator.
UnregisterAnybody(a) ==
    /\ CliIdle
    /\ deposit' = [deposit EXCEPT ![a] = deposit[a] - MinDeposit]
    /\ balance' = [balance EXCEPT ![a] = GetBalance(a) + MinDeposit]
    /\ UNCHANGED <<utxos, utxoSet, chain, pending, wallets, cli, applied>>

UnregisterValidator(a) ==
    /\ CliIdle
    /\ deposit[a] > 0
    /\ deposit' = [deposit EXCEPT ![a] = 0]
    /\ balance' = [balance EXCEPT ![a] = GetBalance(a) + deposit[a]]
    /\ UNCHANGED <<utxos, utxoSet, chain, pending, wallets, cli, applied>>

Validators == {a \in Addr : deposit[a] >= MinDeposit}

(***************************************************************************)
(* Messages and their rewards                                              *)
(***************************************************************************)
\* SendMessage past the rate limit (module RateLimit).
SendMessage(from, to, t) ==
    /\ CliIdle /\ t \in Fresh
    /\ Extend(t)
    /\ pending' = pending \cup {<<from, to>>}
    /\ UNCHANGED <<money, deposit, wallets, cli, applied>>

\* ProcessMessageResponse by a receiver with a reward pending, followed by
\* distributeValidatorRewards: the first transaction of ts pays the two
\* users, the second, if there are validators, each of them, in order vs.
\* Each legacy balance is rewritten from GetBalance, which by then counts
\* the new outputs.
ProcessMessageResponse(from, to, ts, vs) ==
    LET share == ValidatorShare(Len(vs))
        users == OutputsOf(ts[1], <<Output(SenderReward, from), Output(ReceiverReward, to)>>)
        paid == SaveAll(utxos, users)
        both == [balance EXCEPT ![from] = BalanceIn(paid, balance, from) + SenderReward,
                                ![to] = BalanceIn(paid, balance, to) + ReceiverReward]
        shares == OutputsOf(ts[2], [i \in DOMAIN vs |-> Output(share, vs[i])])
        all == IF vs = << >> THEN paid ELSE SaveAll(paid, shares)
    IN  /\ CliIdle
        /\ <<from, to>> \in pending
        /\ pending' = pending \ {<<from, to>>}
        /\ utxos' = all
        /\ utxoSet' = IF vs = << >> THEN SaveAll(utxoSet, users)
                      ELSE SaveAll(SaveAll(utxoSet, users), shares)
        /\ balance' = [a \in Addr |->
                         IF a \in Validators THEN BalanceIn(all, both, a) + share
                         ELSE both[a]]
        /\ ExtendAll(ts)
        /\ Count({ts[i] : i \in DOMAIN ts})
        /\ UNCHANGED <<deposit, wallets, cli>>

(***************************************************************************)
(* Wallet creation and import: cmd/cli.go, one store call at a time        *)
(***************************************************************************)
At(pc) == cli.pc = pc
Goto(pc) == cli' = [cli EXCEPT !.pc = pc]

\* AddWallet.
CreateWallet(a) ==
    /\ CliIdle
    /\ a \notin wallets
    /\ wallets' = wallets \cup {a}
    /\ cli' = [Idle EXCEPT !.pc = "check", !.addr = a]
    /\ UNCHANGED <<money, chain, deposit, pending, applied>>

\* GetNodeCount and GetBalance: a grant only below the limit, to an empty wallet.
CheckGrant ==
    /\ At("check")
    /\ IF GetNodeCount < GenesisLimit /\ GetBalance(cli.addr) = 0
       THEN Goto("read")
       ELSE cli' = Idle
    /\ UNCHANGED <<money, chain, others, applied>>

\* Mutant: the height of the block to come, which NewBlock counts up again.
ReadNextHeight ==
    /\ At("read")
    /\ cli' = [cli EXCEPT !.pc = "save", !.base = blocks[last].hash, !.height = last + 1]
    /\ UNCHANGED <<money, chain, others, applied>>

\* GetLastBlock.
ReadLastBlock ==
    /\ At("read")
    /\ cli' = [cli EXCEPT !.pc = "save", !.base = blocks[last].hash, !.height = last]
    /\ UNCHANGED <<money, chain, others, applied>>

\* SaveBlock, without bc.mu and without moving bc.currentBlock.
SaveGrant(t) ==
    /\ At("save") /\ t \in Fresh
    /\ SaveBlock(t, [height |-> cli.height, hash |-> cli.base])
    /\ cli' = [cli EXCEPT !.pc = "credit", !.tx = t]
    /\ UNCHANGED <<money, current, others, applied>>

\* The store's UpdateBalance: whatever the legacy balance is by now.
CreditGrant ==
    /\ At("credit")
    /\ balance' = [balance EXCEPT ![cli.addr] = GenesisGrant]
    /\ Goto("count")
    /\ Count({cli.tx})
    /\ UNCHANGED <<utxos, utxoSet, chain, others>>

\* IncrementNodeCount takes s.mu and then calls GetNodeCount, which waits for
\* it: the goroutine and the store are stuck until the program is restarted.
IncrementNodeCount ==
    /\ At("count")
    /\ Goto("hung")
    /\ UNCHANGED <<money, chain, others, applied>>

(***************************************************************************)
(* The node                                                                *)
(***************************************************************************)
\* A peer's transaction names at most one output here: bound on its inputs.
PeerInputs == {{}} \cup {{r} : r \in TxId \X {0, 1}}

WalletStep ==
    \/ \E a \in Addr : CreateWallet(a)
    \/ CheckGrant
    \/ ReadLastBlock
    \/ \E t \in TxId : SaveGrant(t)
    \/ CreditGrant
    \/ IncrementNodeCount

CliCall ==
    \/ \E from, to \in Addr, t \in TxId :
          \/ \E amount \in Amounts : SendCoins(from, to, amount, t)
          \/ SendMessage(from, to, t)
    \/ ConvertLegacyBalancesToUTXOs
    \/ \E a \in Addr : RegisterValidator(a) \/ UnregisterValidator(a)

\* Exported by core.Blockchain; nothing in the repository calls it.
Respond ==
    \E from, to \in Addr,
       ts \in Injection(1..(IF Validators = {} THEN 1 ELSE 2), Fresh),
       vs \in Bijection(1..Cardinality(Validators), Validators) :
        ProcessMessageResponse(from, to, ts, vs)

PeerCall ==
    \/ \E t \in TxId, from, to \in Addr, amount \in Amounts,
          inputs \in PeerInputs, rest \in {0} \cup Amounts :
          ProcessTransaction(t, from, to, amount, inputs, rest)
    \/ \E t \in TxId, from \in Addr \cup {System}, to \in Addr,
          amount \in Amounts, genesis \in BOOLEAN :
          AddBlock(t, from, to, amount, genesis)
    \/ \E a \in Addr, figure \in {0} \cup Amounts, t \in TxId :
          UpdateBalance(a, figure, t)

Next == WalletStep \/ CliCall \/ Respond \/ PeerCall \/ Restart

Spec == Init /\ [][Next]_vars

(***************************************************************************)
(* Properties                                                              *)
(***************************************************************************)
\* Keys are keys, stored blocks are blocks that were made, and no deposit is
\* negative.
ShapeOK ==
    /\ DOMAIN utxos \subseteq Ref /\ DOMAIN utxoSet \subseteq Ref
    /\ txs \subseteq TxId
    /\ \A h \in DOMAIN blocks : h \in Nat /\ blocks[h].hash \in 1..created
    /\ deposit \in [Addr -> Nat]
    /\ pending \subseteq Addr \X Addr /\ wallets \subseteq Addr
    /\ cli.pc \in {"idle", "check", "read", "save", "credit", "count", "hung"}
    /\ applied \in [TxId -> Nat]

\* ShapeOK, and the legacy balances are integers; they may go negative
\* (AddBlock does not check the funds), deposits may not.
TypeOK == ShapeOK /\ balance \in [Addr -> Int]

\* Whatever the CLI, the peers and restarts do, an output record once written
\* keeps its amount and owner and never becomes unspent again
\* (storage.MarkUTXOSpent and SaveUTXO rewrite whole records).
SpentStaysSpent == [][OnlyGrows(utxos, utxos')]_vars

\* A transfer that does not go through the set takes exactly its amount from
\* the sender's balance, adds exactly that to the receiver's records and
\* leaves everybody else's balance alone, whether the sender's money was in
\* records (all of which are spent) or in the legacy balance (SendCoins and
\* ProcessTransaction).  The receiver's balance is another matter: GetBalance
\* reads no legacy balance where there are records.
TransferMoves(from, to, amount) ==
    /\ GetBalance(from)' = GetBalance(from) - amount
    /\ UnspentValue(utxos, to)' = UnspentValue(utxos, to) + amount
    /\ \A a \in Addr \ {from, to} : GetBalance(a)' = GetBalance(a)
TransfersAreExact ==
    [][\A from, to \in Addr, amount \in Amounts, t \in Fresh :
           /\ from # to
           /\ SendFromBalance(from, to, amount, t) \/ ApplyTransfer(t, from, to, amount)
           => TransferMoves(from, to, amount)]_vars

\* Every entry of the set saved under utxo_set has its individual record,
\* with the same owner and amount: the two stores never tell of different
\* outputs, only of different spending.
SetMirrorsStore == Mirrors(utxoSet, utxos)

\* No output exists whose transaction is unknown, and no stored block either:
\* what the duplicate check of ProcessTransaction and AddBlock relies on.
OutputsAreKnown ==
    /\ \A r \in DOMAIN utxos : r[1] \in txs
    /\ \A h \in DOMAIN blocks \ {0} : blocks[h].tx \in txs

\* The stored heights have no gap, and last_block and the block in memory
\* name heights that are stored, although the CLI saves blocks on a last
\* block it read earlier: what NewBlockchain and GetBlock rely on.
HeightsHaveNoGap ==
    LET n == Cardinality(DOMAIN blocks)
    IN  /\ DOMAIN blocks = 0..(n - 1)
        /\ last \in DOMAIN blocks
        /\ current.height \in DOMAIN blocks

\* A transaction's amount is moved at most once, whichever of the CLI, a
\* peer's transaction, a peer's block or a balance update brings it, and
\* across restarts (the tx_ key check).
Log == INSTANCE TxLog WITH Tx <- TxId, seen <- txs
ImplementsTxLog == Log!LogSpec
=============================================================================
