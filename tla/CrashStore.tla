----------------------------- MODULE CrashStore ------------------------------
(***************************************************************************)
(* The methods of core.Blockchain as the sequences of LevelDB writes they  *)
(* are, with the program stopping between any two writes.  Nothing groups  *)
(* the writes (no leveldb.Batch) and nothing is repaired at start: the     *)
(* next start is NewBlockchain reading what is there, and peers sending    *)
(* again what they had sent before.                                        *)
(*                                                                         *)
(* Amounts are abstracted to how often a transaction's debit and credit    *)
(* were written; whether the sender's balance suffices is left open, and   *)
(* no validators share the rewards (each would add a block of its own).  A *)
(* block's hash is the sequence of the blocks from the genesis to itself,  *)
(* each a pair <<who made it, transaction>>.                               *)
(***************************************************************************)
EXTENDS Integers, Sequences, SequencesExt

CONSTANTS TxId,         \* transaction ids, our own and our peers'
          FromSystem,   \* those whose sender is SYSTEM: figures and rewards
          Genesis,      \* those of type GENESIS
          MaxHeight,    \* bound on the chain
          MaxCrashes,   \* bound on the stops
          MaxMessages   \* bound on the messages sent

ASSUME SendersAssumption == FromSystem \subseteq TxId /\ Genesis \subseteq TxId

VARIABLES
    blocks,    \* disk: height -> hash (the block itself)
    last,      \* disk: last_block
    txKeys,    \* disk: the tx_ keys
    seenBlocks,\* disk: the block_<hash> keys AddBlock leaves
    debits, credits, \* disk: balance writes, per transaction
    outs,      \* disk: transactions whose output records are written
    messages,  \* disk: messages stored that may earn a reward
    saved,     \* disk: the reward is in pending_rewards
    promised,  \* memory: the reward is in bc.pendingRewards
    current,   \* memory: bc.currentBlock
    op,        \* the method running: bc.mu admits one
    paid,      \* history: rewards credited
    crashes,   \* history: stops
    cuts       \* history: stops inside AddBlock

disk == <<blocks, last, txKeys, seenBlocks, debits, credits, outs, messages, saved>>
memory == <<promised, current>>
history == <<paid, crashes, cuts>>
vars == <<disk, memory, op, history>>

\* The writes of each method, in the order of the code; those of SaveBlock are
\* putBlock, putLast and putTx.
\* Mutant: outputs before the block.
ProcessTransactionOutputsFirst ==
    <<"outputs", "putBlock", "putLast", "putTx", "debit", "credit", "finish">>

ProcessTransactionPuts ==
    <<"putBlock", "putLast", "putTx", "debit", "credit", "outputs", "finish">>

\* Mutant: last_block before the block.
SendCoinsLastBlockFirst ==
    <<"putLast", "putBlock", "putTx", "finish", "debit", "credit", "outputs">>

SendCoinsPuts ==
    <<"putBlock", "putLast", "putTx", "finish", "debit", "credit", "outputs">>

AddBlockPuts ==
    <<"debit", "credit", "markTx", "putBlock", "putLast", "putTx", "finish", "markBlock">>

\* UpdateBalance with a higher figure, and one address of the conversion.
UpdateBalancePuts ==
    <<"putBlock", "putLast", "putTx", "finish", "markTx", "outputs">>

SendMessagePuts ==
    <<"putBlock", "putLast", "putTx", "finish", "message", "promise", "savePending">>

\* Mutant: the promise is erased after the reward.
ResponsePutsForgetLast ==
    <<"putBlock", "putLast", "putTx", "finish", "outputs", "forget", "savePending",
      "message">>

ResponsePuts ==
    <<"forget", "savePending", "putBlock", "putLast", "putTx", "finish", "outputs",
      "message">>

Program ==
    [tx |-> ProcessTransactionPuts, pay |-> SendCoinsPuts, block |-> AddBlockPuts,
     figure |-> UpdateBalancePuts, send |-> SendMessagePuts, reply |-> ResponsePuts]

NoOp == [kind |-> "none"]
Running == op.kind # "none"
At(step) == Running /\ Program[op.kind][op.pc] = step
Height(hash) == Len(hash)

\* Go on after one write: to the next, or back to the caller.
Advance ==
    op' = IF op.pc = Len(Program[op.kind]) THEN NoOp ELSE [op EXCEPT !.pc = @ + 1]

Begin(kind, t, maker) ==
    /\ ~Running
    /\ Height(current) < MaxHeight
    /\ op' = [kind |-> kind, tx |-> t, pc |-> 1, hash |-> Append(current, <<maker, t>>)]

Init ==
    /\ blocks = [h \in {0} |-> << >>] /\ last = 0
    /\ txKeys = {} /\ seenBlocks = {}
    /\ debits = [t \in TxId |-> 0] /\ credits = [t \in TxId |-> 0]
    /\ outs = {} /\ messages = 0
    /\ saved = FALSE /\ promised = FALSE
    /\ current = << >>
    /\ op = NoOp
    /\ paid = 0 /\ crashes = 0 /\ cuts = 0

(***************************************************************************)
(* The calls                                                               *)
(***************************************************************************)
\* Mutant: no check for a transaction already processed.
ProcessTransactionAgain(t) ==
    /\ Begin("tx", t, "us")
    /\ UNCHANGED <<disk, memory, history>>

\* ProcessTransaction: SYSTEM is no valid address, and nothing happens if the
\* key is there.
ProcessTransaction(t) ==
    /\ t \notin FromSystem
    /\ t \notin txKeys
    /\ Begin("tx", t, "us")
    /\ UNCHANGED <<disk, memory, history>>

\* The place in AddBlockPuts where a transaction comes in: a known one has
\* only its block saved, a genesis only its key and block, and SYSTEM is not
\* debited.
FirstPut(t) ==
    CASE t \in txKeys -> 4
      [] t \notin txKeys /\ t \in Genesis -> 3
      [] t \notin txKeys \cup Genesis /\ t \in FromSystem -> 2
      [] OTHER -> 1

\* handleBlock and AddBlock of a peer's block on our current one.
AddBlock(t) ==
    /\ Append(current, <<"peer", t>>) \notin seenBlocks
    /\ Height(current) < MaxHeight /\ ~Running
    /\ op' = [kind |-> "block", tx |-> t, pc |-> FirstPut(t),
              hash |-> Append(current, <<"peer", t>>)]
    /\ UNCHANGED <<disk, memory, history>>

\* SendCoins, from the balance: it is checked before the block is made.
SendCoins(t) ==
    /\ t \notin txKeys \cup FromSystem \cup Genesis
    /\ Begin("pay", t, "us")
    /\ UNCHANGED <<disk, memory, history>>

SendMessage(t) ==
    /\ t \notin txKeys \cup FromSystem \cup Genesis
    /\ messages < MaxMessages
    /\ Begin("send", t, "us")
    /\ UNCHANGED <<disk, memory, history>>

ProcessMessageResponse(t) ==
    /\ t \in FromSystem \ (txKeys \cup Genesis)
    /\ promised
    /\ Begin("reply", t, "us")
    /\ UNCHANGED <<disk, memory, history>>

\* UpdateBalance with a higher figure, or a legacy balance converted: a
\* credit in an output of its own.
UpdateBalance(t) ==
    /\ t \in FromSystem \ (txKeys \cup Genesis)
    /\ Begin("figure", t, "us")
    /\ UNCHANGED <<disk, memory, history>>

(***************************************************************************)
(* The writes                                                              *)
(***************************************************************************)
\* Mutant: a block has the height of the one below it.
PutBlockTooLow ==
    /\ At("putBlock") /\ Advance
    /\ blocks' = [h \in DOMAIN blocks \cup {Height(op.hash) - 1} |->
                    IF h = Height(op.hash) - 1 THEN op.hash ELSE blocks[h]]
    /\ UNCHANGED <<last, txKeys, seenBlocks, debits, credits, outs, messages, saved,
                   memory, history>>

PutBlock ==
    /\ At("putBlock") /\ Advance
    /\ blocks' = [h \in DOMAIN blocks \cup {Height(op.hash)} |->
                    IF h = Height(op.hash) THEN op.hash ELSE blocks[h]]
    /\ UNCHANGED <<last, txKeys, seenBlocks, debits, credits, outs, messages, saved,
                   memory, history>>

PutLast ==
    /\ At("putLast") /\ Advance
    /\ last' = Height(op.hash)
    /\ UNCHANGED <<blocks, txKeys, seenBlocks, debits, credits, outs, messages, saved,
                   memory, history>>

PutTx ==
    /\ At("putTx") \/ At("markTx")
    /\ Advance
    /\ txKeys' = txKeys \cup {op.tx}
    /\ UNCHANGED <<blocks, last, seenBlocks, debits, credits, outs, messages, saved,
                   memory, history>>

Debit ==
    /\ At("debit") /\ Advance
    /\ debits' = [debits EXCEPT ![op.tx] = @ + 1]
    /\ UNCHANGED <<blocks, last, txKeys, seenBlocks, credits, outs, messages, saved,
                   memory, history>>

\* ProcessTransaction finds the balance too small, its block already saved.
RejectDebit ==
    /\ At("debit") /\ op.kind = "tx"
    /\ op' = NoOp
    /\ UNCHANGED <<disk, memory, history>>

\* ProcessTransaction of a transaction with inputs: no balance is touched, and
\* its outputs come next.
TakeInputs ==
    /\ At("debit") /\ op.kind = "tx"
    /\ op' = [op EXCEPT !.pc = 6]
    /\ UNCHANGED <<disk, memory, history>>

Credit ==
    /\ At("credit") /\ Advance
    /\ credits' = [credits EXCEPT ![op.tx] = @ + 1]
    /\ UNCHANGED <<blocks, last, txKeys, seenBlocks, debits, outs, messages, saved,
                   memory, history>>

\* The output records; for a reply, with the users' legacy balances.
PutOutputs ==
    /\ At("outputs") /\ Advance
    /\ outs' = outs \cup {op.tx}
    /\ paid' = paid + IF op.kind = "reply" THEN 1 ELSE 0
    /\ UNCHANGED <<blocks, last, txKeys, seenBlocks, debits, credits, messages, saved,
                   memory, crashes, cuts>>

SetCurrent ==
    /\ At("finish") /\ Advance
    /\ current' = op.hash
    /\ UNCHANGED <<disk, promised, history>>

MarkBlock ==
    /\ At("markBlock") /\ Advance
    /\ seenBlocks' = seenBlocks \cup {op.hash}
    /\ UNCHANGED <<blocks, last, txKeys, debits, credits, outs, messages, saved,
                   memory, history>>

\* The response to a message is stored too; it earns nothing.
SaveMessage ==
    /\ At("message") /\ Advance
    /\ messages' = messages + IF op.kind = "send" THEN 1 ELSE 0
    /\ UNCHANGED <<blocks, last, txKeys, seenBlocks, debits, credits, outs, saved,
                   memory, history>>

\* bc.pendingRewards in memory, set by a message and cleared by a reply.
SetPromise ==
    /\ At("promise") \/ At("forget")
    /\ Advance
    /\ promised' = At("promise")
    /\ UNCHANGED <<disk, current, history>>

SavePendingRewards ==
    /\ At("savePending") /\ Advance
    /\ saved' = promised
    /\ UNCHANGED <<blocks, last, txKeys, seenBlocks, debits, credits, outs, messages,
                   memory, history>>

\* The program stops, between two writes of a method or between two methods,
\* and NewBlockchain starts from the disk.
CrashAndRestart ==
    /\ crashes < MaxCrashes
    /\ crashes' = crashes + 1
    /\ cuts' = cuts + IF op.kind = "block" THEN 1 ELSE 0
    /\ op' = NoOp
    /\ current' = blocks[last]
    /\ promised' = saved
    /\ UNCHANGED <<disk, paid>>

Write == PutBlock \/ PutLast \/ PutTx \/ Debit \/ RejectDebit \/ TakeInputs
         \/ Credit \/ PutOutputs \/ SetCurrent \/ MarkBlock \/ SaveMessage \/ SetPromise
         \/ SavePendingRewards

Call == \E t \in TxId :
            \/ ProcessTransaction(t) \/ AddBlock(t) \/ SendCoins(t) \/ UpdateBalance(t)
            \/ SendMessage(t) \/ ProcessMessageResponse(t)

Next == Call \/ Write \/ CrashAndRestart

Spec == Init /\ [][Next]_vars

(***************************************************************************)
(* Properties                                                              *)
(***************************************************************************)
\* A block is stored at its own height, and amounts are written whole times.
TypeOK ==
    /\ \A h \in DOMAIN blocks : Height(blocks[h]) = h
    /\ txKeys \subseteq TxId /\ outs \subseteq TxId
    /\ debits \in [TxId -> Nat] /\ credits \in [TxId -> Nat]
    /\ {saved, promised} \subseteq BOOLEAN
    /\ Running => op.pc \in DOMAIN Program[op.kind]

\* After a stop at any write, last_block names a stored block, whose chain is
\* stored block by block below it: NewBlockchain always finds its block and
\* GetBlock every height up to it (the order of the writes in SaveBlock).
ChainSurvivesCrash ==
    /\ last \in DOMAIN blocks
    /\ \A h \in 0..last : h \in DOMAIN blocks /\ IsPrefix(blocks[h], blocks[last])

\* After a stop at any write, output records exist only for transactions with
\* a tx_ key, so that redelivering the transaction cannot write them again.
OutputsHaveTheirKey == outs \subseteq txKeys

\* However often the program is stopped and a transaction delivered again,
\* alone or in blocks, it is debited and credited at most once, but for one
\* more time per stop inside AddBlock; and its credits never outnumber its
\* debits unless SYSTEM sent it, which AddBlock does not debit
\* (ProcessTransaction, SendCoins, AddBlock).
MovedOnceUnlessBlockCut ==
    \A t \in TxId :
        /\ debits[t] <= 1 + cuts
        /\ credits[t] <= 1 + cuts
        /\ t \notin FromSystem => credits[t] <= debits[t]

\* However ProcessMessageResponse and SendMessage are stopped, no more rewards
\* are paid out than messages were stored: the promise is erased on the disk
\* before the reward is written, and written after the message.
RewardsPaidForMessages == paid + (IF saved THEN 1 ELSE 0) <= messages
=============================================================================
