----------------------------- MODULE LedgerProofs ----------------------------
(***************************************************************************)
(* Safety of Ledger for any addresses, transaction ids and amounts.  The   *)
(* invariant says that no output, no block and no moved amount belongs to  *)
(* a transaction without a tx_ key.  That is why a fresh id overwrites no  *)
(* record (SpentStaysSpent), and why no amount is moved twice              *)
(* (ImplementsTxLog); the one transaction whose amount is moved after its  *)
(* key is written is the grant the CLI is at, which nobody else touches.   *)
(* Amounts are sums over sets of outputs; AmountsOK says that they stay    *)
(* integers, and with the laws of finite sums a transfer's effect on every *)
(* balance follows (TransfersAreExact).                                    *)
(***************************************************************************)
EXTENDS Ledger, FiniteSetTheorems, SequenceTheorems, TLAPS

-----------------------------------------------------------------------------
\* What the store operators of UtxoStore preserve

IsRecord(o) == o = [amount |-> o.amount, owner |-> o.owner, spent |-> o.spent]

\* A store of records whose transactions are all in Known.
Holds(store, Known) ==
    \A r \in DOMAIN store : r \in Ref /\ r[1] \in Known /\ IsRecord(store[r])

\* The records of new are those of old, or belong to the transactions New.
GrowsBy(old, new, New) ==
    /\ OnlyGrows(old, new)
    /\ \A r \in DOMAIN new : r \in Ref /\ IsRecord(new[r])
                             /\ (r \in DOMAIN old \/ r[1] \in New)

\* Marking outputs as spent changes nothing else.
LEMMA MarkSpentGrows ==
    ASSUME NEW store, NEW Known, Holds(store, Known), NEW refs
    PROVE  /\ DOMAIN MarkSpent(store, refs) = DOMAIN store
           /\ GrowsBy(store, MarkSpent(store, refs), {})
<1>1. DOMAIN MarkSpent(store, refs) = DOMAIN store
  BY DEF MarkSpent
<1>2. ASSUME NEW r \in DOMAIN store
      PROVE  /\ MarkSpent(store, refs)[r].amount = store[r].amount
             /\ MarkSpent(store, refs)[r].owner = store[r].owner
             /\ store[r].spent => MarkSpent(store, refs)[r].spent
             /\ IsRecord(MarkSpent(store, refs)[r])
  <2>1. PICK x, y, z : store[r] = [amount |-> x, owner |-> y, spent |-> z]
    BY DEF Holds, IsRecord
  <2>2. CASE r \in refs
    <3>1. MarkSpent(store, refs)[r] = [store[r] EXCEPT !.spent = TRUE]
      BY <2>2 DEF MarkSpent
    <3> DEFINE yes == TRUE
    <3>2. MarkSpent(store, refs)[r] = [store[r] EXCEPT !.spent = yes]
      BY <3>1
    <3>3. yes
      OBVIOUS
    <3> HIDE DEF yes
    <3>4. MarkSpent(store, refs)[r] = [amount |-> x, owner |-> y, spent |-> yes]
      BY <2>1, <3>2
    <3> QED  BY <2>1, <3>3, <3>4 DEF IsRecord
  <2>3. CASE r \notin refs
    BY <2>1, <2>3 DEF MarkSpent, IsRecord
  <2> QED  BY <2>2, <2>3
<1> QED  BY <1>1, <1>2 DEF GrowsBy, OnlyGrows, Holds

\* Saving the outputs of transactions nobody knew overwrites nothing.
LEMMA SaveAllGrows ==
    ASSUME NEW store, NEW Known, Holds(store, Known),
           NEW made, NEW New, Holds(made, New), New \cap Known = {}
    PROVE  /\ GrowsBy(store, SaveAll(store, made), New)
           /\ DOMAIN SaveAll(store, made) = DOMAIN store \cup DOMAIN made
<1>1. DOMAIN SaveAll(store, made) = DOMAIN store \cup DOMAIN made
  BY DEF SaveAll
<1>2. \A r \in DOMAIN store : SaveAll(store, made)[r] = store[r]
  BY DEF SaveAll, Holds
<1>3. \A r \in DOMAIN made : SaveAll(store, made)[r] = made[r]
  BY DEF SaveAll
<1> QED  BY <1>1, <1>2, <1>3 DEF GrowsBy, OnlyGrows, Holds

LEMMA GrowsByHolds ==
    ASSUME NEW old, NEW new, NEW Known, NEW New, Holds(old, Known), GrowsBy(old, new, New)
    PROVE  Holds(new, Known \cup New)
BY DEF Holds, GrowsBy

LEMMA GrowsByTransitive ==
    ASSUME NEW a, NEW b, NEW c, NEW S, NEW T, GrowsBy(a, b, S), GrowsBy(b, c, T)
    PROVE  GrowsBy(a, c, S \cup T)
<1>1. OnlyGrows(a, c)
  <2> SUFFICES ASSUME NEW r \in DOMAIN a
               PROVE  /\ r \in DOMAIN c /\ c[r].amount = a[r].amount
                      /\ c[r].owner = a[r].owner /\ (a[r].spent => c[r].spent)
    BY DEF OnlyGrows
  <2>1. /\ r \in DOMAIN b /\ b[r].amount = a[r].amount
        /\ b[r].owner = a[r].owner /\ (a[r].spent => b[r].spent)
    BY DEF GrowsBy, OnlyGrows
  <2>2. /\ r \in DOMAIN c /\ c[r].amount = b[r].amount
        /\ c[r].owner = b[r].owner /\ (b[r].spent => c[r].spent)
    BY <2>1 DEF GrowsBy, OnlyGrows
  <2> QED  BY <2>1, <2>2
<1>2. \A r \in DOMAIN c : r \in Ref /\ IsRecord(c[r]) /\ (r \in DOMAIN a \/ r[1] \in S \cup T)
  BY DEF GrowsBy
<1> QED  BY <1>1, <1>2 DEF GrowsBy

\* Both at once: what SendCoins and ProcessTransaction do to a store.
LEMMA SpendAndSaveGrows ==
    ASSUME NEW store, NEW Known, Holds(store, Known), NEW refs,
           NEW made, NEW New, Holds(made, New), New \cap Known = {}
    PROVE  /\ GrowsBy(store, SaveAll(MarkSpent(store, refs), made), New)
           /\ DOMAIN SaveAll(MarkSpent(store, refs), made) = DOMAIN store \cup DOMAIN made
<1> DEFINE marked == MarkSpent(store, refs)
<1>1. DOMAIN marked = DOMAIN store /\ GrowsBy(store, marked, {})
  BY MarkSpentGrows
<1> HIDE DEF marked
<1>2. Holds(marked, Known)
  BY <1>1 DEF Holds, GrowsBy
<1>3. /\ GrowsBy(marked, SaveAll(marked, made), New)
      /\ DOMAIN SaveAll(marked, made) = DOMAIN marked \cup DOMAIN made
  BY <1>2, SaveAllGrows
<1>4. GrowsBy(store, SaveAll(marked, made), {} \cup New)
  BY <1>1, <1>3, GrowsByTransitive
<1> QED  BY <1>1, <1>3, <1>4 DEF marked

\* The outputs of a transaction are records of it.
LEMMA OutputsHold ==
    ASSUME NEW t \in TxId, NEW outs, NEW n \in Nat, DOMAIN outs = 1..n
    PROVE  Holds(OutputsOf(t, outs), {t})
<1> SUFFICES ASSUME NEW r \in DOMAIN OutputsOf(t, outs)
             PROVE  r \in Ref /\ r[1] = t /\ IsRecord(OutputsOf(t, outs)[r])
  BY DEF Holds
<1>1. PICK i \in 1..n : r = <<t, i - 1>>
  BY DEF OutputsOf
<1>2. r \in Ref /\ r[1] = t
  BY <1>1 DEF Ref
<1>3. IsRecord(OutputsOf(t, outs)[r])
  BY DEF OutputsOf, Rec, IsRecord
<1> QED  BY <1>2, <1>3

-----------------------------------------------------------------------------
\* The set keeps to the store when the store alone grows ...
LEMMA MirrorsGrown ==
    ASSUME NEW set, NEW store, NEW store2, NEW New,
           Mirrors(set, store), GrowsBy(store, store2, New)
    PROVE  Mirrors(set, store2)
BY DEF Mirrors, GrowsBy, OnlyGrows

\* ... and when both save the same new outputs, whatever each marks as spent.
LEMMA MirrorsSaved ==
    ASSUME NEW set, NEW store, NEW Known, Holds(set, Known), Holds(store, Known),
           Mirrors(set, store), NEW K, NEW I,
           NEW made, NEW New, Holds(made, New), New \cap Known = {}
    PROVE  Mirrors(SaveAll(MarkSpent(set, K), made), SaveAll(MarkSpent(store, I), made))
<1> DEFINE set2 == SaveAll(MarkSpent(set, K), made)
           store2 == SaveAll(MarkSpent(store, I), made)
<1>1. \A r \in DOMAIN made : r \in DOMAIN store2 /\ set2[r] = made[r] /\ store2[r] = made[r]
  BY DEF SaveAll
<1>2. GrowsBy(set, set2, New) /\ DOMAIN set2 = DOMAIN set \cup DOMAIN made
  <2>1. GrowsBy(set, set2, New)
    BY SpendAndSaveGrows
  <2>2. DOMAIN set2 = DOMAIN set \cup DOMAIN made
    BY DEF SaveAll, MarkSpent
  <2> QED  BY <2>1, <2>2
<1>3. GrowsBy(store, store2, New)
  BY SpendAndSaveGrows
<1> HIDE DEF set2, store2
<1>4. \A r \in DOMAIN set : /\ r \in DOMAIN store2
                            /\ set2[r].amount = store2[r].amount
                            /\ set2[r].owner = store2[r].owner
  BY <1>2, <1>3 DEF Mirrors, GrowsBy, OnlyGrows
<1>5. Mirrors(set2, store2)
  BY <1>1, <1>2, <1>4 DEF Mirrors
<1> QED  BY <1>5 DEF set2, store2

LEMMA MirrorsSavedOnly ==
    ASSUME NEW set, NEW store, NEW Known, Holds(set, Known), Holds(store, Known),
           Mirrors(set, store),
           NEW made, NEW New, Holds(made, New), New \cap Known = {}
    PROVE  Mirrors(SaveAll(set, made), SaveAll(store, made))
<1>1. \A r \in DOMAIN set : /\ SaveAll(set, made)[r] = set[r]
                            /\ r \in DOMAIN SaveAll(store, made)
                            /\ SaveAll(store, made)[r] = store[r]
  BY DEF SaveAll, Holds, Mirrors
<1>2. \A r \in DOMAIN made : /\ SaveAll(set, made)[r] = made[r]
                             /\ r \in DOMAIN SaveAll(store, made)
                             /\ SaveAll(store, made)[r] = made[r]
  BY DEF SaveAll
<1>3. DOMAIN SaveAll(set, made) = DOMAIN set \cup DOMAIN made
  BY DEF SaveAll
<1> QED  BY <1>1, <1>2, <1>3 DEF Mirrors

-----------------------------------------------------------------------------
\* The inductive invariant

CliShape(c) == c = [pc |-> c.pc, addr |-> c.addr, base |-> c.base,
                    height |-> c.height, tx |-> c.tx]

ChainOK ==
    /\ txs \subseteq TxId
    /\ created \in Nat /\ last \in Nat /\ current.height \in Nat /\ cli.height \in Nat
    /\ \A h \in DOMAIN blocks : h \in Nat /\ blocks[h].hash \in 1..created
                                /\ (h # 0 => blocks[h].tx \in txs)

OthersOK ==
    /\ deposit \in [Addr -> Nat]
    /\ pending \subseteq Addr \X Addr /\ wallets \subseteq Addr
    /\ cli.pc \in {"idle", "check", "read", "save", "credit", "count", "hung"}
    /\ CliShape(cli)

LogOK ==
    /\ applied \in [TxId -> 0..1]
    /\ \A t \in TxId : applied[t] # 0 => t \in txs
    /\ cli.pc = "credit" => cli.tx \in txs /\ applied[cli.tx] = 0

StoresOK == Holds(utxos, txs) /\ Holds(utxoSet, txs) /\ Mirrors(utxoSet, utxos)

IInv == ChainOK /\ OthersOK /\ LogOK /\ StoresOK

\* What every step establishes.
Good == IInv' /\ OnlyGrows(utxos, utxos') /\ [Log!LogNext]_(Log!logVars)

-----------------------------------------------------------------------------
(***************************************************************************)
(* Kinds of steps                                                          *)
(***************************************************************************)
Learns(New, Now) ==
    /\ New \subseteq TxId /\ New \cap txs = {} /\ Now \subseteq New
    /\ txs' = txs \cup New
    /\ applied' = [t \in TxId |-> applied[t] + IF t \in Now THEN 1 ELSE 0]

StoresGrow(New) ==
    /\ GrowsBy(utxos, utxos', New) /\ GrowsBy(utxoSet, utxoSet', New)
    /\ Mirrors(utxoSet', utxos')

CliKept == cli'.pc = "credit" => cli' = cli

\* A step that learns of new transactions and writes outputs of these only.
LEMMA LearningStep ==
    ASSUME IInv, NEW New, NEW Now, Learns(New, Now), StoresGrow(New),
           ChainOK', OthersOK', CliKept \/ cli'.tx \in New \ Now
    PROVE  Good
<1>1. LogOK'
  <2>1. applied' \in [TxId -> 0..1]
    <3> SUFFICES ASSUME NEW t \in TxId
                 PROVE  applied[t] + (IF t \in Now THEN 1 ELSE 0) \in 0..1
      BY DEF Learns
    <3>1. CASE t \in Now
      <4>1. applied[t] = 0
        BY <3>1 DEF IInv, LogOK, Learns
      <4> QED  BY <3>1, <4>1
    <3>2. CASE t \notin Now
      BY <3>2 DEF IInv, LogOK
    <3> QED  BY <3>1, <3>2
  <2>2. ASSUME NEW t \in TxId, applied'[t] # 0 PROVE t \in txs'
    <3>1. CASE t \in Now
      BY <3>1 DEF Learns
    <3>2. CASE t \notin Now
      <4>1. applied'[t] = applied[t] + 0 /\ applied[t] \in 0..1
        BY <3>2 DEF Learns, IInv, LogOK
      <4> QED  BY <2>2, <4>1 DEF Learns, IInv, LogOK
    <3> QED  BY <3>1, <3>2
  <2>3. ASSUME cli'.pc = "credit" PROVE cli'.tx \in txs' /\ applied'[cli'.tx] = 0
    <3>1. CASE CliKept
      <4>1. cli' = cli /\ cli.tx \in txs /\ applied[cli.tx] = 0
        BY <2>3, <3>1 DEF CliKept, IInv, LogOK
      <4>2. cli.tx \in TxId /\ cli.tx \notin Now
        BY <4>1 DEF Learns, IInv, ChainOK
      <4> QED  BY <4>1, <4>2 DEF Learns
    <3>2. CASE cli'.tx \in New \ Now
      <4>1. cli'.tx \in TxId /\ cli'.tx \in txs' /\ applied[cli'.tx] = 0
        BY <3>2 DEF Learns, IInv, LogOK
      <4> QED  BY <3>2, <4>1 DEF Learns
    <3> QED  BY <3>1, <3>2
  <2> QED  BY <2>1, <2>2, <2>3 DEF LogOK
<1>2. StoresOK'
  BY GrowsByHolds DEF StoresOK, StoresGrow, Learns, IInv
<1>3. Log!LogNext
  <2>1. Log!Learn(New, Now) /\ New \in SUBSET TxId /\ Now \in SUBSET New
    BY DEF Learns, Log!Learn
  <2> QED  BY <2>1 DEF Log!LogNext
<1> QED  BY <1>1, <1>2, <1>3 DEF Good, IInv, StoresGrow, GrowsBy

\* A step that learns of nothing.
LEMMA QuietStep ==
    ASSUME IInv, UNCHANGED <<utxos, utxoSet, txs, applied>>, ChainOK', OthersOK', CliKept
    PROVE  Good
<1>1. LogOK'
  <2>1. CASE cli'.pc = "credit"
    BY <2>1 DEF CliKept, IInv, LogOK
  <2>2. CASE cli'.pc # "credit"
    BY <2>2 DEF IInv, LogOK
  <2> QED  BY <2>1, <2>2
<1>2. StoresOK'
  BY DEF StoresOK, IInv
<1>3. OnlyGrows(utxos, utxos')
  BY DEF OnlyGrows
<1>4. UNCHANGED Log!logVars
  BY DEF Log!logVars
<1> QED  BY <1>1, <1>2, <1>3, <1>4 DEF Good, IInv

\* Nothing moved and nothing new, said as learning.
LEMMA LearnsNothing ==
    ASSUME IInv, UNCHANGED applied, NEW New, New \subseteq TxId, New \cap txs = {},
           txs' = txs \cup New
    PROVE  Learns(New, {})
<1>1. \A t \in TxId : applied[t] + 0 = applied[t]
  BY DEF IInv, LogOK
<1>2. applied = [t \in TxId |-> applied[t] + IF t \in {} THEN 1 ELSE 0]
  BY <1>1 DEF IInv, LogOK
<1> QED  BY <1>2 DEF Learns

\* The stores are left alone.
LEMMA StoresKept ==
    ASSUME IInv, UNCHANGED <<utxos, utxoSet>>, NEW New
    PROVE  StoresGrow(New)
BY DEF IInv, StoresOK, StoresGrow, GrowsBy, OnlyGrows, Holds

\* Outputs of the new transactions are written to both stores, spent ones
\* marked in each.
LEMMA BothStoresSaved ==
    ASSUME IInv, NEW New, New \cap txs = {}, NEW made, Holds(made, New), NEW I, NEW K,
           utxos' = SaveAll(MarkSpent(utxos, I), made),
           utxoSet' = SaveAll(MarkSpent(utxoSet, K), made)
    PROVE  StoresGrow(New)
<1>1. Holds(utxos, txs) /\ Holds(utxoSet, txs) /\ Mirrors(utxoSet, utxos)
  BY DEF IInv, StoresOK
<1>2. GrowsBy(utxos, utxos', New)
  BY <1>1, SpendAndSaveGrows
<1>3. GrowsBy(utxoSet, utxoSet', New)
  BY <1>1, SpendAndSaveGrows
<1>4. Mirrors(utxoSet', utxos')
  BY <1>1, MirrorsSaved
<1> QED  BY <1>2, <1>3, <1>4 DEF StoresGrow

\* ... to the individual records only.
LEMMA RecordsSaved ==
    ASSUME IInv, NEW New, New \cap txs = {}, NEW made, Holds(made, New), NEW I,
           utxos' = SaveAll(MarkSpent(utxos, I), made),
           UNCHANGED utxoSet
    PROVE  StoresGrow(New)
<1>1. Holds(utxos, txs) /\ Holds(utxoSet, txs) /\ Mirrors(utxoSet, utxos)
  BY DEF IInv, StoresOK
<1>2. GrowsBy(utxos, utxos', New)
  BY <1>1, SpendAndSaveGrows
<1>3. GrowsBy(utxoSet, utxoSet', New)
  BY <1>1 DEF GrowsBy, OnlyGrows, Holds
<1>4. Mirrors(utxoSet', utxos')
  BY <1>1, <1>2, MirrorsGrown
<1> QED  BY <1>2, <1>3, <1>4 DEF StoresGrow

\* The outputs SendCoins and ProcessTransaction make.
LEMMA ChangeHolds ==
    ASSUME NEW t \in TxId, NEW out, NEW rest, NEW owner
    PROVE  Holds(OutputsOf(t, WithChange(out, rest, owner)), {t})
<1>1. CASE rest > 0
  <2>1. DOMAIN WithChange(out, rest, owner) = 1..2
    BY <1>1 DEF WithChange
  <2> QED  BY <2>1, OutputsHold
<1>2. CASE ~(rest > 0)
  <2>1. DOMAIN WithChange(out, rest, owner) = 1..1
    BY <1>2 DEF WithChange
  <2> QED  BY <2>1, OutputsHold
<1> QED  BY <1>1, <1>2

-----------------------------------------------------------------------------
(***************************************************************************)
(* Blocks                                                                  *)
(***************************************************************************)
LEMMA SavedBlock ==
    ASSUME ChainOK, NEW t \in TxId, NEW base, base.height \in Nat, SaveBlock(t, base),
           current'.height \in Nat, cli'.height \in Nat
    PROVE  ChainOK' /\ txs' = txs \cup {t}
<1> DEFINE b == [hash |-> created + 1, prev |-> base.hash, tx |-> t]
           H == base.height + 1
<1>1. /\ created' = created + 1 /\ created \in Nat /\ last' = H /\ txs' = txs \cup {t}
      /\ blocks' = SaveAll(blocks, [h \in {H} |-> b])
  BY DEF SaveBlock, ChainOK
<1>2. H \in Nat /\ H # 0 /\ b.hash = created + 1 /\ b.tx = t
  OBVIOUS
<1> HIDE DEF b, H
<1>3. /\ DOMAIN blocks' = DOMAIN blocks \cup {H}
      /\ \A h \in DOMAIN blocks' : blocks'[h] = IF h = H THEN b ELSE blocks[h]
  BY <1>1 DEF SaveAll
<1>4. ASSUME NEW h \in DOMAIN blocks'
      PROVE  h \in Nat /\ blocks'[h].hash \in 1..created' /\ (h # 0 => blocks'[h].tx \in txs')
  <2>1. CASE h = H
    BY <1>1, <1>2, <1>3, <2>1
  <2>2. CASE h # H
    BY <1>1, <1>3, <2>2 DEF ChainOK
  <2> QED  BY <2>1, <2>2
<1> QED  BY <1>1, <1>2, <1>4 DEF ChainOK

LEMMA Extended ==
    ASSUME ChainOK, NEW t \in TxId, Extend(t), cli'.height \in Nat
    PROVE  ChainOK' /\ txs' = txs \cup {t}
<1>1. SaveBlock(t, current) /\ current.height \in Nat /\ current'.height = current.height + 1
  BY DEF Extend, ChainOK
<1>2. current'.height \in Nat
  BY <1>1
<1> QED  BY <1>1, <1>2, SavedBlock

LEMMA SameInterval ==
    ASSUME NEW m \in Nat, NEW n \in Nat, 1..m = 1..n
    PROVE  m = n
<1>1. m > 0 => m \in 1..n
  <2>1. m > 0 => m \in 1..m
    OBVIOUS
  <2> QED  BY <2>1
<1>2. n > 0 => n \in 1..m
  <2>1. n > 0 => n \in 1..n
    OBVIOUS
  <2> QED  BY <2>1
<1> QED  BY <1>1, <1>2

LEMMA ExtendedAll ==
    ASSUME ChainOK, NEW n \in Nat, NEW ts \in [1..n -> TxId], ExtendAll(ts),
           cli'.height \in Nat
    PROVE  ChainOK' /\ txs' = txs \cup {ts[i] : i \in 1..n}
<1> DEFINE new == [h \in {current.height + i : i \in DOMAIN ts} |->
                          LET i == h - current.height
                          IN  [hash |-> created + i, tx |-> ts[i],
                               prev |-> IF i = 1 THEN current.hash
                                                 ELSE created + i - 1]]
<1>1. Len(ts) = n /\ DOMAIN ts = 1..n
  <2>1. ts \in Seq(TxId)
    BY SeqDef
  <2>2. Len(ts) \in Nat /\ 1..Len(ts) = 1..n
    BY <2>1, LenProperties
  <2> QED  BY <2>2, SameInterval
<1>2. /\ created' = created + n /\ blocks' = SaveAll(blocks, new)
      /\ txs' = txs \cup {ts[i] : i \in 1..n}
      /\ last' = IF n = 0 THEN last ELSE current.height + n
      /\ current'.height = IF n = 0 THEN current.height ELSE current.height + n
  BY <1>1 DEF ExtendAll
<1>3. created \in Nat /\ last \in Nat /\ current.height \in Nat
  BY DEF ChainOK
<1>4. ASSUME NEW h \in DOMAIN new
      PROVE  h \in Nat /\ h # 0 /\ new[h].hash \in 1..(created + n) /\ new[h].tx \in txs'
  <2>1. PICK i \in 1..n : h = current.height + i
    BY <1>1
  <2>2. h - current.height = i /\ h \in Nat /\ h # 0
    BY <1>3, <2>1
  <2>3. new[h].hash = created + i /\ new[h].tx = ts[i]
    BY <2>2
  <2>4. created + i \in 1..(created + n)
    BY <1>3
  <2>5. ts[i] \in txs'
    BY <1>2
  <2> QED  BY <2>2, <2>3, <2>4, <2>5
<1> HIDE DEF new
<1>5. /\ DOMAIN blocks' = DOMAIN blocks \cup DOMAIN new
      /\ \A h \in DOMAIN blocks' :
             blocks'[h] = IF h \in DOMAIN new THEN new[h] ELSE blocks[h]
  BY <1>2 DEF SaveAll
<1>6. ASSUME NEW h \in DOMAIN blocks'
      PROVE  h \in Nat /\ blocks'[h].hash \in 1..created' /\ (h # 0 => blocks'[h].tx \in txs')
  <2>1. CASE h \in DOMAIN new
    BY <1>2, <1>4, <1>5, <2>1
  <2>2. CASE h \notin DOMAIN new
    BY <1>2, <1>3, <1>5, <2>2 DEF ChainOK
  <2> QED  BY <2>1, <2>2
<1> QED  BY <1>2, <1>3, <1>6 DEF ChainOK

-----------------------------------------------------------------------------
(***************************************************************************)
(* The operations                                                          *)
(***************************************************************************)
\* One fresh transaction in one block, its amount moved, nothing else of the
\* node touched but the stores.
LEMMA MovingStep ==
    ASSUME IInv, NEW t \in Fresh, Extend(t), Count({t}), StoresGrow({t}),
           OthersOK', CliKept, cli'.height \in Nat
    PROVE  Good
<1>1. t \in TxId /\ t \notin txs
  BY DEF Fresh
<1>2. ChainOK' /\ txs' = txs \cup {t}
  BY <1>1, Extended DEF IInv
<1>3. Learns({t}, {t})
  BY <1>1, <1>2 DEF Learns, Count
<1> QED  BY <1>2, <1>3, LearningStep

LEMMA SendCoinsGood ==
    ASSUME IInv, NEW from \in Addr, NEW to \in Addr, NEW amount, NEW t \in TxId,
           SendCoins(from, to, amount, t)
    PROVE  Good
<1>1. t \in Fresh /\ Extend(t) /\ Count({t}) /\ UNCHANGED <<others, cli>>
      /\ {t} \cap txs = {}
  BY DEF SendCoins, Fresh
<1>2. StoresGrow({t})
  <2>1. CASE SendFromSet(from, to, amount, t)
    BY <1>1, <2>1, ChangeHolds, BothStoresSaved DEF SendFromSet
  <2>2. CASE SendFromBalance(from, to, amount, t)
    BY <1>1, <2>2, ChangeHolds, RecordsSaved DEF SendFromBalance
  <2> QED  BY <2>1, <2>2 DEF SendCoins
<1>3. OthersOK' /\ CliKept /\ cli'.height \in Nat
  BY <1>1 DEF IInv, OthersOK, others, CliKept, ChainOK
<1> QED  BY <1>1, <1>2, <1>3, MovingStep

LEMMA ProcessTransactionGood ==
    ASSUME IInv, NEW t \in TxId, NEW from \in Addr, NEW to \in Addr, NEW amount,
           NEW inputs, NEW rest, ProcessTransaction(t, from, to, amount, inputs, rest)
    PROVE  Good
<1>1. t \in Fresh /\ {t} \cap txs = {} /\ UNCHANGED <<others, cli>>
  BY DEF ProcessTransaction, Fresh
<1>2. OthersOK' /\ CliKept /\ cli'.height \in Nat
  BY <1>1 DEF IInv, OthersOK, others, CliKept, ChainOK
<1>3. CASE ApplyInputs(t, inputs, WithChange(Output(amount, to), rest, from))
  <2>1. StoresGrow({t})
    BY <1>1, <1>3, ChangeHolds, BothStoresSaved DEF ApplyInputs
  <2> QED  BY <1>1, <1>2, <1>3, <2>1, MovingStep DEF ApplyInputs
<1>4. CASE ApplyTransfer(t, from, to, amount)
  <2>1. StoresGrow({t})
    BY <1>1, <1>4, ChangeHolds, RecordsSaved DEF ApplyTransfer
  <2> QED  BY <1>1, <1>2, <1>4, <2>1, MovingStep DEF ApplyTransfer
<1>5. CASE RejectTransfer(t, from, amount)
  <2>1. UNCHANGED <<utxos, utxoSet, current, applied>> /\ SaveBlock(t, current)
    BY <1>5 DEF RejectTransfer, money
  <2>2. ChainOK' /\ txs' = txs \cup {t}
    BY <1>2, <2>1, SavedBlock DEF IInv, ChainOK
  <2>3. Learns({t}, {})
    BY <1>1, <2>1, <2>2, LearnsNothing
  <2> QED  BY <1>2, <2>1, <2>2, <2>3, StoresKept, LearningStep
<1> QED  BY <1>3, <1>4, <1>5 DEF ProcessTransaction

LEMMA AddBlockGood ==
    ASSUME IInv, NEW t \in TxId, NEW from, NEW to, NEW amount, NEW genesis,
           AddBlock(t, from, to, amount, genesis)
    PROVE  Good
<1>1. Extend(t) /\ UNCHANGED <<utxos, utxoSet, others, cli>>
  BY DEF AddBlock
<1>2. OthersOK' /\ CliKept /\ cli'.height \in Nat
  BY <1>1 DEF IInv, OthersOK, others, CliKept, ChainOK
<1>3. ChainOK' /\ txs' = txs \cup {t}
  BY <1>1, <1>2, Extended DEF IInv
<1>4. CASE t \in Fresh /\ ~genesis
  BY <1>1, <1>2, <1>4, StoresKept, MovingStep DEF AddBlock
<1>5. CASE ~(t \in Fresh /\ ~genesis)
  <2>1. UNCHANGED applied
    BY <1>5 DEF AddBlock
  <2>2. Learns({t} \ txs, {})
    BY <1>3, <2>1, LearnsNothing
  <2> QED  BY <1>1, <1>2, <1>3, <2>2, StoresKept, LearningStep
<1> QED  BY <1>4, <1>5

LEMMA UpdateBalanceGood ==
    ASSUME IInv, NEW a \in Addr, NEW figure, NEW t \in TxId, UpdateBalance(a, figure, t)
    PROVE  Good
<1>1. UNCHANGED <<others, cli>>
  BY DEF UpdateBalance
<1>2. OthersOK' /\ CliKept /\ cli'.height \in Nat
  BY <1>1 DEF IInv, OthersOK, others, CliKept, ChainOK
<1>3. CASE IncreaseBalance(a, figure, t)
  <2>1. t \in Fresh /\ {t} \cap txs = {} /\ Extend(t) /\ Count({t})
    BY <1>3 DEF IncreaseBalance, Fresh
  <2>2. Holds(OutputsOf(t, <<Output(figure, a)>>), {t})
    <3>1. DOMAIN <<Output(figure, a)>> = 1..1
      OBVIOUS
    <3> QED  BY <3>1, OutputsHold
  <2>3. StoresGrow({t})
    BY <1>3, <2>1, <2>2, BothStoresSaved DEF IncreaseBalance
  <2> QED  BY <1>2, <2>1, <2>3, MovingStep
<1>4. CASE UNCHANGED <<utxos, utxoSet, chain, applied>>
  <2>1. ChainOK'
    BY <1>1, <1>4 DEF chain, IInv, ChainOK
  <2> QED  BY <1>2, <1>4, <2>1, QuietStep DEF chain
<1> QED  BY <1>3, <1>4 DEF UpdateBalance

\* No money moves and no transaction is learnt: validators.
LEMMA ValidatorGood ==
    ASSUME IInv, NEW a \in Addr, RegisterValidator(a) \/ UnregisterValidator(a)
    PROVE  Good
<1>1. /\ UNCHANGED <<utxos, utxoSet, chain, pending, wallets, cli, applied>>
      /\ \/ deposit' = [deposit EXCEPT ![a] = MinDeposit]
         \/ deposit' = [deposit EXCEPT ![a] = 0]
  BY DEF RegisterValidator, UnregisterValidator
<1>2. ChainOK'
  BY <1>1 DEF chain, IInv, ChainOK
<1>3. OthersOK' /\ CliKept
  BY <1>1, MinDepositAssumption DEF IInv, OthersOK, CliKept
<1> QED  BY <1>1, <1>2, <1>3, QuietStep DEF chain

LEMMA SendMessageGood ==
    ASSUME IInv, NEW from \in Addr, NEW to \in Addr, NEW t \in TxId, SendMessage(from, to, t)
    PROVE  Good
<1>1. /\ t \in Fresh /\ Extend(t) /\ pending' = pending \cup {<<from, to>>}
      /\ UNCHANGED <<utxos, utxoSet, deposit, wallets, cli, applied>>
  BY DEF SendMessage, money
<1>2. OthersOK' /\ CliKept /\ cli'.height \in Nat
  BY <1>1 DEF IInv, OthersOK, CliKept, ChainOK
<1>3. ChainOK' /\ txs' = txs \cup {t}
  BY <1>1, <1>2, Extended DEF IInv
<1>4. Learns({t}, {})
  BY <1>1, <1>3, LearnsNothing DEF Fresh
<1> QED  BY <1>1, <1>2, <1>3, <1>4, StoresKept, LearningStep

LEMMA ConvertGood ==
    ASSUME IInv, ConvertLegacyBalancesToUTXOs
    PROVE  Good
<1> DEFINE n == Cardinality(Convertible)
<1>1. n \in Nat
  <2>1. Convertible \subseteq Addr
    BY DEF Convertible
  <2> QED  BY <2>1, AddrAssumption, FS_Subset, FS_CardinalityType
<1>2. PICK by \in Injection(1..n, Convertible), ts \in Injection(1..n, Fresh) :
         LET made == [r \in {<<ts[i], 0>> : i \in DOMAIN ts} |->
                        LET a == by[CHOOSE i \in DOMAIN ts : ts[i] = r[1]]
                        IN  Rec(Output(GetAllBalances[a], a))]
         IN  /\ utxos' = SaveAll(utxos, made)
             /\ utxoSet' = SaveAll(utxoSet, made)
             /\ ExtendAll(ts)
             /\ Count({ts[i] : i \in DOMAIN ts})
  BY DEF ConvertLegacyBalancesToUTXOs
<1> HIDE DEF n
<1> DEFINE New == {ts[i] : i \in 1..n}
           made == [r \in {<<ts[i], 0>> : i \in DOMAIN ts} |->
                        LET a == by[CHOOSE i \in DOMAIN ts : ts[i] = r[1]]
                        IN  Rec(Output(GetAllBalances[a], a))]
<1>3. ts \in [1..n -> Fresh] /\ ts \in [1..n -> TxId]
  BY DEF Injection, Fresh
<1>4. New \subseteq TxId /\ New \cap txs = {}
  BY <1>3 DEF Fresh
<1>5. UNCHANGED <<others, cli>> /\ CliIdle
  BY DEF ConvertLegacyBalancesToUTXOs
<1>6. OthersOK' /\ CliKept /\ cli'.height \in Nat
  BY <1>5 DEF IInv, OthersOK, others, CliKept, ChainOK
<1>7. ChainOK' /\ txs' = txs \cup New
  BY <1>1, <1>2, <1>3, <1>6, ExtendedAll DEF IInv
<1>8. Learns(New, New)
  BY <1>2, <1>3, <1>4, <1>7 DEF Learns, Count
<1>9. Holds(made, New)
  <2> SUFFICES ASSUME NEW r \in DOMAIN made
               PROVE  r \in Ref /\ r[1] \in New /\ IsRecord(made[r])
    BY DEF Holds
  <2>1. PICK i \in 1..n : r = <<ts[i], 0>>
    BY <1>3
  <2>2. r \in Ref /\ r[1] \in New
    BY <1>3, <2>1 DEF Ref
  <2>3. IsRecord(made[r])
    BY DEF Rec, IsRecord
  <2> QED  BY <2>2, <2>3
<1>10. utxos' = SaveAll(utxos, made) /\ utxoSet' = SaveAll(utxoSet, made)
  BY <1>2
<1> HIDE DEF made, New
<1>11. StoresGrow(New)
  <2>1. GrowsBy(utxos, utxos', New) /\ GrowsBy(utxoSet, utxoSet', New)
    BY <1>4, <1>9, <1>10, SaveAllGrows DEF IInv, StoresOK
  <2>2. Mirrors(utxoSet', utxos')
    BY <1>4, <1>9, <1>10, MirrorsSavedOnly DEF IInv, StoresOK
  <2> QED  BY <2>1, <2>2 DEF StoresGrow
<1> QED  BY <1>6, <1>7, <1>8, <1>11, LearningStep

\* Two rounds of outputs, the second of another new transaction.
LEMMA TwoRoundsSaved ==
    ASSUME IInv, NEW t \in TxId, NEW u \in TxId, t \notin txs, u \notin txs, t # u,
           NEW first, Holds(first, {t}), NEW second, Holds(second, {u}),
           utxos' = SaveAll(SaveAll(utxos, first), second),
           utxoSet' = SaveAll(SaveAll(utxoSet, first), second)
    PROVE  StoresGrow({t, u})
<1> DEFINE store == SaveAll(utxos, first)
           set == SaveAll(utxoSet, first)
<1>1. Holds(utxos, txs) /\ Holds(utxoSet, txs) /\ Mirrors(utxoSet, utxos)
      /\ {t} \cap txs = {} /\ {u} \cap (txs \cup {t}) = {}
  BY DEF IInv, StoresOK
<1>2. GrowsBy(utxos, store, {t}) /\ GrowsBy(utxoSet, set, {t})
  BY <1>1, SaveAllGrows
<1>3. Mirrors(set, store)
  BY <1>1, MirrorsSavedOnly
<1>4. utxos' = SaveAll(store, second) /\ utxoSet' = SaveAll(set, second)
  OBVIOUS
<1> HIDE DEF store, set
<1>5. Holds(store, txs \cup {t}) /\ Holds(set, txs \cup {t})
  BY <1>1, <1>2, GrowsByHolds
<1>6. GrowsBy(store, utxos', {u}) /\ GrowsBy(set, utxoSet', {u})
  <2>1. GrowsBy(store, SaveAll(store, second), {u})
    BY <1>1, <1>5, SaveAllGrows
  <2>2. GrowsBy(set, SaveAll(set, second), {u})
    BY <1>1, <1>5, SaveAllGrows
  <2> QED  BY <1>4, <2>1, <2>2
<1>7. Mirrors(utxoSet', utxos')
  BY <1>1, <1>3, <1>4, <1>5, MirrorsSavedOnly
<1>8. GrowsBy(utxos, utxos', {t} \cup {u}) /\ GrowsBy(utxoSet, utxoSet', {t} \cup {u})
  BY <1>2, <1>6, GrowsByTransitive
<1>9. {t} \cup {u} = {t, u}
  OBVIOUS
<1> QED  BY <1>7, <1>8, <1>9 DEF StoresGrow

LEMMA ResponseGood ==
    ASSUME IInv, NEW from \in Addr, NEW to \in Addr,
           NEW ts \in Injection(1..(IF Validators = {} THEN 1 ELSE 2), Fresh),
           NEW vs \in Bijection(1..Cardinality(Validators), Validators),
           ProcessMessageResponse(from, to, ts, vs)
    PROVE  Good
<1> DEFINE n == IF Validators = {} THEN 1 ELSE 2
           m == Cardinality(Validators)
           New == {ts[i] : i \in 1..n}
           users == OutputsOf(ts[1], <<Output(SenderReward, from), Output(ReceiverReward, to)>>)
           shares == OutputsOf(ts[2], [i \in DOMAIN vs |-> Output(ValidatorShare(Len(vs)), vs[i])])
<1>1. /\ pending' = pending \ {<<from, to>>}
      /\ UNCHANGED <<deposit, wallets, cli>>
      /\ ExtendAll(ts) /\ Count({ts[i] : i \in DOMAIN ts})
      /\ vs = << >> => /\ utxos' = SaveAll(utxos, users)
                       /\ utxoSet' = SaveAll(utxoSet, users)
      /\ vs # << >> => /\ utxos' = SaveAll(SaveAll(utxos, users), shares)
                       /\ utxoSet' = SaveAll(SaveAll(utxoSet, users), shares)
  BY DEF ProcessMessageResponse
<1>2. n \in Nat /\ 1 \in 1..n /\ ts \in [1..n -> Fresh] /\ ts \in [1..n -> TxId]
      /\ \A i, j \in 1..n : ts[i] = ts[j] => i = j
  BY DEF Injection, IsInjective, Fresh
<1>3. vs \in [1..m -> Validators] /\ m \in Nat /\ (Validators = {} => m = 0)
  <2>1. vs \in [1..m -> Validators]
    BY DEF Bijection, Injection
  <2>2. Validators \subseteq Addr
    BY DEF Validators
  <2> QED  BY <2>1, <2>2, AddrAssumption, FS_Subset, FS_CardinalityType, FS_EmptySet
<1>4. vs # << >> => n = 2 /\ 2 \in 1..n
  <2>1. CASE Validators = {}
    <3>1. vs \in [1..0 -> Validators]
      BY <1>3, <2>1
    <3> QED  BY <3>1
  <2>2. CASE Validators # {}
    BY <2>2
  <2> QED  BY <2>1, <2>2
<1>5. Holds(users, {ts[1]})
  <2>1. DOMAIN <<Output(SenderReward, from), Output(ReceiverReward, to)>> = 1..2
    OBVIOUS
  <2> QED  BY <1>2, <2>1, OutputsHold
<1>6. vs # << >> => Holds(shares, {ts[2]})
  <2>1. DOMAIN [i \in DOMAIN vs |-> Output(ValidatorShare(Len(vs)), vs[i])] = 1..m
    BY <1>3
  <2>2. vs # << >> => ts[2] \in TxId
    BY <1>2, <1>4
  <2> QED  BY <1>3, <2>1, <2>2, OutputsHold
<1>7. New \subseteq TxId /\ New \cap txs = {}
  BY <1>2 DEF Fresh
<1>8. ts[1] \in New /\ ts[1] \in TxId /\ ts[1] \notin txs
  BY <1>2 DEF Fresh
<1>9. vs # << >> => New = {ts[1], ts[2]} /\ ts[2] \in TxId /\ ts[2] \notin txs /\ ts[1] # ts[2]
  <2>1. n = 2 => 1..n = {1, 2}
    OBVIOUS
  <2> QED  BY <1>2, <1>4, <2>1 DEF Fresh
<1>10. OthersOK' /\ CliKept /\ cli'.height \in Nat
  BY <1>1 DEF IInv, OthersOK, CliKept, ChainOK
<1>11. ChainOK' /\ txs' = txs \cup New
  BY <1>1, <1>2, <1>10, ExtendedAll DEF IInv
<1>12. Learns(New, New)
  BY <1>1, <1>2, <1>7, <1>11 DEF Learns, Count
<1> HIDE DEF n, m, New, users, shares
<1>13. StoresGrow(New)
  <2>1. CASE vs = << >>
    <3>1. {ts[1]} \cap txs = {} /\ Holds(utxos, txs) /\ Holds(utxoSet, txs)
          /\ Mirrors(utxoSet, utxos)
      BY <1>8 DEF IInv, StoresOK
    <3>2. GrowsBy(utxos, utxos', {ts[1]}) /\ GrowsBy(utxoSet, utxoSet', {ts[1]})
      <4>1. GrowsBy(utxos, SaveAll(utxos, users), {ts[1]})
        BY <1>5, <3>1, SaveAllGrows
      <4>2. GrowsBy(utxoSet, SaveAll(utxoSet, users), {ts[1]})
        BY <1>5, <3>1, SaveAllGrows
      <4> QED  BY <1>1, <2>1, <4>1, <4>2
    <3>3. Mirrors(utxoSet', utxos')
      BY <1>1, <1>5, <2>1, <3>1, MirrorsSavedOnly
    <3> QED  BY <1>8, <3>2, <3>3 DEF StoresGrow, GrowsBy
  <2>2. CASE vs # << >>
    BY <1>1, <1>5, <1>6, <1>8, <1>9, <2>2, TwoRoundsSaved
  <2> QED  BY <2>1, <2>2
<1> QED  BY <1>10, <1>11, <1>12, <1>13, LearningStep

-----------------------------------------------------------------------------
(***************************************************************************)
(* Wallet creation and restarts                                            *)
(***************************************************************************)
LEMMA CliGoes ==
    ASSUME OthersOK, NEW p, NEW c, c = [cli EXCEPT !.pc = p]
    PROVE  CliShape(c) /\ c.pc = p /\ c.height = cli.height
<1>1. PICK p0, a0, b0, h0, t0 :
        cli = [pc |-> p0, addr |-> a0, base |-> b0, height |-> h0, tx |-> t0]
  BY DEF OthersOK, CliShape
<1>2. c = [pc |-> p, addr |-> a0, base |-> b0, height |-> h0, tx |-> t0]
  BY <1>1
<1> QED  BY <1>1, <1>2 DEF CliShape

\* A step of the CLI that touches nothing but itself and the wallets.
LEMMA CliStep ==
    ASSUME IInv, UNCHANGED <<utxos, utxoSet, chain, deposit, pending, applied>>,
           wallets' \subseteq Addr, cli'.height \in Nat, CliShape(cli'),
           cli'.pc \in {"idle", "check", "read", "save", "count", "hung"}
    PROVE  Good
<1>1. ChainOK'
  BY DEF chain, IInv, ChainOK
<1>2. OthersOK' /\ CliKept
  BY DEF IInv, OthersOK, CliKept
<1> QED  BY <1>1, <1>2, QuietStep DEF chain

LEMMA WalletGood ==
    ASSUME IInv, WalletStep
    PROVE  Good
<1>0. OthersOK /\ wallets \subseteq Addr /\ cli.height \in Nat /\ last \in Nat
      /\ Idle.pc = "idle" /\ Idle.height = 0
  BY DEF IInv, OthersOK, ChainOK, Idle
<1>1. ASSUME NEW a \in Addr, CreateWallet(a)
      PROVE  Good
  <2>1. /\ wallets' \subseteq Addr /\ cli' = [Idle EXCEPT !.pc = "check", !.addr = a]
        /\ UNCHANGED <<utxos, utxoSet, chain, deposit, pending, applied>>
    BY <1>0, <1>1 DEF CreateWallet, money
  <2>2. cli' = [pc |-> "check", addr |-> a, base |-> NoBlock, height |-> 0, tx |-> NoTx]
    BY <2>1 DEF Idle
  <2>3. CliShape(cli') /\ cli'.pc = "check" /\ cli'.height = 0
    BY <2>2 DEF CliShape
  <2> QED  BY <2>1, <2>3, CliStep
<1>2. CASE CheckGrant
  <2>1. /\ cli' = [cli EXCEPT !.pc = "read"] \/ cli' = Idle
        /\ UNCHANGED <<utxos, utxoSet, chain, deposit, pending, applied, wallets>>
    BY <1>2 DEF CheckGrant, Goto, money, others
  <2>2. CliShape(cli') /\ cli'.pc \in {"read", "idle"} /\ cli'.height \in Nat
    <3>1. CASE cli' = [cli EXCEPT !.pc = "read"]
      BY <1>0, <3>1, CliGoes
    <3>2. CASE cli' = Idle
      BY <3>2 DEF Idle, CliShape
    <3> QED  BY <2>1, <3>1, <3>2
  <2> QED  BY <1>0, <2>1, <2>2, CliStep
<1>3. CASE ReadLastBlock
  <2>1. /\ cli' = [cli EXCEPT !.pc = "save", !.base = blocks[last].hash, !.height = last]
        /\ UNCHANGED <<utxos, utxoSet, chain, deposit, pending, applied, wallets>>
    BY <1>3 DEF ReadLastBlock, money, others
  <2>2. CliShape(cli') /\ cli'.pc = "save" /\ cli'.height = last
    <3>1. PICK p0, a0, b0, h0, t0 :
            cli = [pc |-> p0, addr |-> a0, base |-> b0, height |-> h0, tx |-> t0]
      BY <1>0 DEF OthersOK, CliShape
    <3>2. cli' = [pc |-> "save", addr |-> a0, base |-> blocks[last].hash, height |-> last, tx |-> t0]
      BY <2>1, <3>1
    <3> QED  BY <3>1, <3>2 DEF CliShape
  <2> QED  BY <1>0, <2>1, <2>2, CliStep
<1>4. ASSUME NEW t \in TxId, SaveGrant(t)
      PROVE  Good
  <2>1. /\ t \in Fresh /\ SaveBlock(t, [height |-> cli.height, hash |-> cli.base])
        /\ cli' = [cli EXCEPT !.pc = "credit", !.tx = t]
        /\ UNCHANGED <<utxos, utxoSet, current, deposit, pending, wallets, applied>>
    BY <1>4 DEF SaveGrant, money, others
  <2>2. CliShape(cli') /\ cli'.pc = "credit" /\ cli'.tx = t /\ cli'.height = cli.height
    <3>1. PICK p0, a0, b0, h0, t0 :
            cli = [pc |-> p0, addr |-> a0, base |-> b0, height |-> h0, tx |-> t0]
      BY <1>0 DEF OthersOK, CliShape
    <3>2. cli' = [pc |-> "credit", addr |-> a0, base |-> b0, height |-> h0, tx |-> t]
      BY <2>1, <3>1
    <3> QED  BY <3>1, <3>2 DEF CliShape
  <2>3. OthersOK'
    BY <1>0, <2>1, <2>2 DEF OthersOK
  <2>4. ChainOK' /\ txs' = txs \cup {t}
    <3>1. current'.height \in Nat /\ cli'.height \in Nat
      BY <1>0, <2>1, <2>2 DEF IInv, ChainOK
    <3> DEFINE base == [height |-> cli.height, hash |-> cli.base]
    <3>2. base.height \in Nat /\ SaveBlock(t, base)
      BY <1>0, <2>1
    <3> HIDE DEF base
    <3> QED  BY <3>1, <3>2, SavedBlock DEF IInv
  <2>5. Learns({t}, {})
    BY <2>1, <2>4, LearnsNothing DEF Fresh
  <2> QED  BY <2>1, <2>2, <2>3, <2>4, <2>5, StoresKept, LearningStep
<1>5. CASE CreditGrant
  <2>1. /\ cli.pc = "credit" /\ cli' = [cli EXCEPT !.pc = "count"] /\ Count({cli.tx})
        /\ UNCHANGED <<utxos, utxoSet, chain, others>>
    BY <1>5 DEF CreditGrant, At, Goto
  <2>2. cli.tx \in txs /\ cli.tx \in TxId /\ applied[cli.tx] = 0
    BY <2>1 DEF IInv, LogOK, ChainOK
  <2>3. CliShape(cli') /\ cli'.pc = "count" /\ cli'.height \in Nat
    BY <1>0, <2>1, CliGoes
  <2>4. applied' = [applied EXCEPT ![cli.tx] = 1]
    <3>1. \A t \in TxId : applied[t] + (IF t \in {cli.tx} THEN 1 ELSE 0)
                           = IF t = cli.tx THEN 1 ELSE applied[t]
      BY <2>2 DEF IInv, LogOK
    <3>2. applied' = [t \in TxId |-> IF t = cli.tx THEN 1 ELSE applied[t]]
      BY <2>1, <3>1 DEF Count
    <3> QED  BY <3>2 DEF IInv, LogOK
  <2>5. ChainOK' /\ OthersOK'
    BY <2>1, <2>3 DEF IInv, ChainOK, OthersOK, chain, others
  <2>6. LogOK'
    BY <2>1, <2>2, <2>3, <2>4 DEF IInv, LogOK, chain
  <2>7. StoresOK' /\ OnlyGrows(utxos, utxos')
    BY <2>1 DEF IInv, StoresOK, OnlyGrows, chain
  <2>8. Log!LogNext
    <3>1. Log!Settle(cli.tx)
      BY <2>1, <2>2, <2>4 DEF Log!Settle, chain
    <3> QED  BY <2>2, <3>1 DEF Log!LogNext
  <2> QED  BY <2>5, <2>6, <2>7, <2>8 DEF Good, IInv
<1>6. CASE IncrementNodeCount
  <2>1. /\ cli' = [cli EXCEPT !.pc = "hung"]
        /\ UNCHANGED <<utxos, utxoSet, chain, deposit, pending, applied, wallets>>
    BY <1>6 DEF IncrementNodeCount, Goto, money, others
  <2>2. CliShape(cli') /\ cli'.pc = "hung" /\ cli'.height = cli.height
    BY <1>0, <2>1, CliGoes
  <2> QED  BY <1>0, <2>1, <2>2, CliStep
<1> QED  BY <1>1, <1>2, <1>3, <1>4, <1>5, <1>6 DEF WalletStep

LEMMA RestartGood ==
    ASSUME IInv, Restart
    PROVE  Good
<1>1. /\ UNCHANGED <<utxos, utxoSet, txs, blocks, last, created, deposit, pending, wallets, applied>>
      /\ cli' = Idle /\ current'.height = last
  BY DEF Restart, money, others
<1>2. cli'.pc = "idle" /\ cli'.height = 0 /\ CliShape(cli')
  BY <1>1 DEF Idle, CliShape
<1>3. ChainOK'
  BY <1>1, <1>2 DEF IInv, ChainOK
<1>4. OthersOK' /\ CliKept
  BY <1>1, <1>2 DEF IInv, OthersOK, CliKept
<1> QED  BY <1>1, <1>3, <1>4, QuietStep

-----------------------------------------------------------------------------
LEMMA InitInv == Init => IInv
<1> SUFFICES ASSUME Init PROVE IInv
  OBVIOUS
<1>1. ChainOK
  <2>1. /\ txs = {} /\ created = 1 /\ last = 0 /\ current.height = 0 /\ cli.height = 0
        /\ DOMAIN blocks = {0} /\ blocks[0].hash = 1
    BY DEF Init, Idle
  <2> QED  BY <2>1 DEF ChainOK
<1>2. OthersOK
  BY DEF Init, OthersOK, Idle, CliShape
<1>3. LogOK
  BY DEF Init, LogOK, Idle
<1>4. StoresOK
  BY DEF Init, StoresOK, Holds, Mirrors
<1> QED  BY <1>1, <1>2, <1>3, <1>4 DEF IInv

LEMMA NextGood == IInv /\ [Next]_vars => Good
<1> SUFFICES ASSUME IInv, [Next]_vars PROVE Good
  OBVIOUS
<1>1. CASE WalletStep
  BY <1>1, WalletGood
<1>2. CASE CliCall
  BY <1>2, SendCoinsGood, SendMessageGood, ConvertGood, ValidatorGood DEF CliCall
<1>3. CASE Respond
  BY <1>3, ResponseGood DEF Respond
<1>4. CASE PeerCall
  <2>1. ASSUME NEW t \in TxId, NEW from \in Addr, NEW to \in Addr, NEW amount \in Amounts,
               NEW inputs \in PeerInputs, NEW rest \in {0} \cup Amounts,
               ProcessTransaction(t, from, to, amount, inputs, rest)
        PROVE  Good
    BY <2>1, ProcessTransactionGood
  <2>2. ASSUME NEW t \in TxId, NEW from \in Addr \cup {System}, NEW to \in Addr,
               NEW amount \in Amounts, NEW genesis \in BOOLEAN,
               AddBlock(t, from, to, amount, genesis)
        PROVE  Good
    BY <2>2, AddBlockGood
  <2>3. ASSUME NEW a \in Addr, NEW figure \in {0} \cup Amounts, NEW t \in TxId,
               UpdateBalance(a, figure, t)
        PROVE  Good
    BY <2>3, UpdateBalanceGood
  <2> QED  BY <1>4, <2>1, <2>2, <2>3 DEF PeerCall
<1>5. CASE Restart
  BY <1>5, RestartGood
<1>6. CASE UNCHANGED vars
  <2>1. UNCHANGED <<utxos, utxoSet, chain, others, applied, cli>>
    BY <1>6 DEF vars, money
  <2>2. ChainOK' /\ OthersOK' /\ CliKept
    BY <2>1 DEF IInv, ChainOK, OthersOK, CliKept, chain, others
  <2> QED  BY <2>1, <2>2, QuietStep DEF chain
<1> QED  BY <1>1, <1>2, <1>3, <1>4, <1>5, <1>6 DEF Next

LEMMA AlwaysInv == Spec => []IInv
<1>1. IInv /\ [Next]_vars => IInv'
  BY NextGood DEF Good
<1> QED  BY <1>1, InitInv, PTL DEF Spec

-----------------------------------------------------------------------------
(***************************************************************************)
(* The heights: stored without a gap up to some top, which nothing that    *)
(* names a height exceeds, the one the CLI has read included.              *)
(***************************************************************************)
UpTo(top) ==
    /\ DOMAIN blocks = 0..top
    /\ last \in 0..top /\ current.height \in 0..top /\ cli.height \in 0..top

HeightsOK == \E top \in Nat : UpTo(top)

\* n blocks saved on a stored height h.
LEMMA StoredOn ==
    ASSUME NEW top \in Nat, UpTo(top), NEW h \in 0..top, NEW n \in Nat,
           DOMAIN blocks' = DOMAIN blocks \cup (h + 1)..(h + n),
           last' = h + n \/ last' = last,
           current'.height \in {h + n, current.height}, cli'.height = cli.height
    PROVE  HeightsOK'
<1>1. CASE h + n <= top
  <2>1. (h + 1)..(h + n) \subseteq 0..top /\ h + n \in 0..top
    BY <1>1
  <2>2. UpTo(top)'
    BY <2>1 DEF UpTo
  <2> QED  BY <2>2 DEF HeightsOK
<1>2. CASE h + n > top
  <2>1. 0..(h + n) = 0..top \cup (h + 1)..(h + n) /\ 0..top \subseteq 0..(h + n)
        /\ h + n \in Nat /\ h + n \in 0..(h + n)
    BY <1>2
  <2>2. UpTo(h + n)'
    BY <2>1 DEF UpTo
  <2> QED  BY <2>1, <2>2 DEF HeightsOK
<1> QED  BY <1>1, <1>2

LEMMA SavedHeights ==
    ASSUME NEW top \in Nat, UpTo(top), NEW t, NEW base, base.height \in 0..top,
           SaveBlock(t, base), cli'.height = cli.height,
           current'.height \in {base.height + 1, current.height}
    PROVE  HeightsOK'
<1>1. DOMAIN blocks' = DOMAIN blocks \cup {base.height + 1} /\ last' = base.height + 1
  BY DEF SaveBlock, SaveAll
<1>2. {base.height + 1} = (base.height + 1)..(base.height + 1)
  OBVIOUS
<1> QED  BY <1>1, <1>2, StoredOn

LEMMA ExtendedHeights ==
    ASSUME HeightsOK, NEW t, Extend(t), cli'.height = cli.height
    PROVE  HeightsOK'
<1>1. PICK top \in Nat : UpTo(top)
  BY DEF HeightsOK
<1>2. /\ SaveBlock(t, current) /\ current.height \in 0..top
      /\ current'.height = current.height + 1
  BY <1>1 DEF Extend, UpTo
<1> QED  BY <1>1, <1>2, SavedHeights

LEMMA ExtendedAllHeights ==
    ASSUME HeightsOK, NEW n \in Nat, NEW ts \in [1..n -> TxId], ExtendAll(ts),
           cli'.height = cli.height
    PROVE  HeightsOK'
<1>1. PICK top \in Nat : UpTo(top)
  BY DEF HeightsOK
<1>2. Len(ts) = n /\ DOMAIN ts = 1..n
  <2>1. ts \in Seq(TxId)
    BY SeqDef
  <2>2. Len(ts) \in Nat /\ 1..Len(ts) = 1..n
    BY <2>1, LenProperties
  <2> QED  BY <2>2, SameInterval
<1>3. /\ DOMAIN blocks' = DOMAIN blocks \cup {current.height + i : i \in 1..n}
      /\ last' = IF n = 0 THEN last ELSE current.height + n
      /\ current'.height = IF n = 0 THEN current.height ELSE current.height + n
  BY <1>2 DEF ExtendAll, SaveAll
<1>4. current.height \in 0..top /\ current.height \in Nat
  BY <1>1 DEF UpTo
<1>5. {current.height + i : i \in 1..n} = (current.height + 1)..(current.height + n)
  <2> DEFINE h == current.height
  <2>1. h \in Nat
    BY <1>4
  <2> HIDE DEF h
  <2>2. \A k \in (h + 1)..(h + n) : k - h \in 1..n /\ k = h + (k - h)
    BY <2>1
  <2>3. \A i \in 1..n : h + i \in (h + 1)..(h + n)
    BY <2>1
  <2>4. {h + i : i \in 1..n} = (h + 1)..(h + n)
    BY <2>2, <2>3
  <2> QED  BY <2>4 DEF h
<1> QED  BY <1>1, <1>3, <1>4, <1>5, StoredOn

LEMMA HeightsStep == IInv /\ HeightsOK /\ [Next]_vars => HeightsOK'
<1> SUFFICES ASSUME IInv, HeightsOK, [Next]_vars PROVE HeightsOK'
  OBVIOUS
<1>1. PICK top \in Nat : UpTo(top)
  BY DEF HeightsOK
<1>2. ASSUME UNCHANGED <<blocks, last, current>>, cli'.height \in {0, last, cli.height}
      PROVE  HeightsOK'
  <2>1. UpTo(top)'
    BY <1>1, <1>2 DEF UpTo
  <2> QED  BY <2>1 DEF HeightsOK
<1>3. CASE WalletStep
  <2>1. CASE \E t \in TxId : SaveGrant(t)
    <3>1. PICK t \in TxId : SaveGrant(t)
      BY <2>1
    <3>2. OthersOK
      BY DEF IInv
    <3>3. PICK p0, a0, b0, h0, t0 :
            cli = [pc |-> p0, addr |-> a0, base |-> b0, height |-> h0, tx |-> t0]
      BY <3>2 DEF OthersOK, CliShape
    <3>4. cli' = [pc |-> "credit", addr |-> a0, base |-> b0, height |-> h0, tx |-> t]
      BY <3>1, <3>3 DEF SaveGrant
    <3> DEFINE base == [height |-> cli.height, hash |-> cli.base]
    <3>5. SaveBlock(t, base) /\ base.height \in 0..top /\ UNCHANGED current
      BY <1>1, <3>1 DEF SaveGrant, UpTo
    <3>6. cli'.height = cli.height
      BY <3>3, <3>4
    <3> HIDE DEF base
    <3> QED  BY <1>1, <3>5, <3>6, SavedHeights
  <2>2. CASE \E a \in Addr : CreateWallet(a)
    <3>1. cli'.height = 0
      BY <2>2 DEF CreateWallet, Idle
    <3> QED  BY <1>2, <2>2, <3>1 DEF CreateWallet, chain
  <2>3. CASE CheckGrant
    <3>1. cli'.height \in {0, cli.height}
      <4>1. CASE cli' = [cli EXCEPT !.pc = "read"]
        BY <4>1, CliGoes DEF IInv
      <4>2. CASE cli' = Idle
        BY <4>2 DEF Idle
      <4> QED  BY <2>3, <4>1, <4>2 DEF CheckGrant, Goto
    <3> QED  BY <1>2, <2>3, <3>1 DEF CheckGrant, chain
  <2>4. CASE ReadLastBlock
    <3>1. PICK p0, a0, b0, h0, t0 :
            cli = [pc |-> p0, addr |-> a0, base |-> b0, height |-> h0, tx |-> t0]
      BY DEF IInv, OthersOK, CliShape
    <3>2. cli' = [pc |-> "save", addr |-> a0, base |-> blocks[last].hash,
                  height |-> last, tx |-> t0]
      BY <2>4, <3>1 DEF ReadLastBlock
    <3> QED  BY <1>2, <2>4, <3>2 DEF ReadLastBlock, chain
  <2>5. CASE CreditGrant
    <3>1. cli'.height = cli.height
      BY <2>5, CliGoes DEF CreditGrant, Goto, IInv
    <3> QED  BY <1>2, <2>5, <3>1 DEF CreditGrant, chain
  <2>6. CASE IncrementNodeCount
    <3>1. cli'.height = cli.height
      BY <2>6, CliGoes DEF IncrementNodeCount, Goto, IInv
    <3> QED  BY <1>2, <2>6, <3>1 DEF IncrementNodeCount, chain
  <2> QED  BY <1>3, <2>1, <2>2, <2>3, <2>4, <2>5, <2>6 DEF WalletStep
<1>4. ASSUME NEW from \in Addr, NEW to \in Addr, NEW t \in TxId, NEW amount \in Amounts,
             SendCoins(from, to, amount, t)
      PROVE  HeightsOK'
  BY <1>4, ExtendedHeights DEF SendCoins
<1>5. ASSUME NEW from \in Addr, NEW to \in Addr, NEW t \in TxId, SendMessage(from, to, t)
      PROVE  HeightsOK'
  BY <1>5, ExtendedHeights DEF SendMessage
<1>6. CASE ConvertLegacyBalancesToUTXOs
  <2> DEFINE n == Cardinality(Convertible)
  <2>1. n \in Nat
    <3>1. Convertible \subseteq Addr
      BY DEF Convertible
    <3> QED  BY <3>1, AddrAssumption, FS_Subset, FS_CardinalityType
  <2>2. UNCHANGED cli /\ \E ts \in Injection(1..n, Fresh) : ExtendAll(ts)
    BY <1>6 DEF ConvertLegacyBalancesToUTXOs
  <2> HIDE DEF n
  <2>3. PICK ts \in [1..n -> TxId] : ExtendAll(ts)
    BY <2>2 DEF Injection, Fresh
  <2> QED  BY <2>1, <2>2, <2>3, ExtendedAllHeights
<1>7. ASSUME NEW a \in Addr, RegisterValidator(a) \/ UnregisterValidator(a)
      PROVE  HeightsOK'
  BY <1>2, <1>7 DEF RegisterValidator, UnregisterValidator, chain
<1>8. CASE Respond
  <2> DEFINE n == IF Validators = {} THEN 1 ELSE 2
  <2>1. UNCHANGED cli /\ \E ts \in Injection(1..n, Fresh) : ExtendAll(ts)
    BY <1>8 DEF Respond, ProcessMessageResponse
  <2>2. n \in Nat
    OBVIOUS
  <2> HIDE DEF n
  <2>3. PICK ts \in [1..n -> TxId] : ExtendAll(ts)
    BY <2>1 DEF Injection, Fresh
  <2> QED  BY <2>1, <2>2, <2>3, ExtendedAllHeights
<1>9. ASSUME NEW t, NEW from, NEW to, NEW amount, NEW inputs, NEW rest,
             ProcessTransaction(t, from, to, amount, inputs, rest)
      PROVE  HeightsOK'
  <2>1. cli'.height = cli.height
    BY <1>9 DEF ProcessTransaction
  <2>2. CASE Extend(t)
    BY <2>1, <2>2, ExtendedHeights
  <2>3. CASE SaveBlock(t, current) /\ UNCHANGED current
    BY <1>1, <2>1, <2>3, SavedHeights DEF UpTo
  <2> QED  BY <1>9, <2>2, <2>3 DEF ProcessTransaction, ApplyInputs, ApplyTransfer, RejectTransfer
<1>10. ASSUME NEW t, NEW from, NEW to, NEW amount, NEW genesis,
              AddBlock(t, from, to, amount, genesis)
       PROVE  HeightsOK'
  BY <1>10, ExtendedHeights DEF AddBlock
<1>11. ASSUME NEW a, NEW figure, NEW t, UpdateBalance(a, figure, t)
       PROVE  HeightsOK'
  <2>1. UNCHANGED cli
    BY <1>11 DEF UpdateBalance
  <2>2. CASE Extend(t)
    BY <2>1, <2>2, ExtendedHeights
  <2>3. CASE UNCHANGED chain
    BY <1>2, <2>1, <2>3 DEF chain
  <2> QED  BY <1>11, <2>2, <2>3 DEF UpdateBalance, IncreaseBalance
<1>12. CASE Restart
  <2>1. /\ UNCHANGED <<blocks, last>> /\ current'.height = last /\ cli'.height = 0
    BY <1>12 DEF Restart, Idle
  <2>2. UpTo(top)'
    BY <1>1, <2>1 DEF UpTo
  <2> QED  BY <2>2 DEF HeightsOK
<1>13. CASE UNCHANGED vars
  BY <1>2, <1>13 DEF vars, chain
<1> QED
  BY <1>3, <1>4, <1>5, <1>6, <1>7, <1>8, <1>9, <1>10, <1>11, <1>12, <1>13
     DEF Next, CliCall, PeerCall

-----------------------------------------------------------------------------
(***************************************************************************)
(* Sums over finite sets: SumFunctionOnSet of Functions, which is a        *)
(* recursive function by way of Folds.  Facts about it follow without an   *)
(* induction rule, from a smallest subset that lacks them.                 *)
(***************************************************************************)
\* The element FoldFunctionOnSet takes first, and its recursion.
Pick(s) == CHOOSE x \in s : TRUE
SumStep(g, S, f) ==
   [s \in SUBSET S |-> IF s = {} THEN 0 ELSE g[Pick(s)] + f[s \ {Pick(s)}]]

LEMMA SumIsFold ==
    ASSUME NEW g, NEW S
    PROVE  SumFunctionOnSet(g, S) = (CHOOSE f : f = SumStep(g, S, f))[S]
BY DEF SumFunctionOnSet, FoldFunctionOnSet, MapThenFoldSet, SumStep, Pick

\* Induction over the subsets of a finite set: a set of them that has every
\* subset whose proper subsets it has, has them all.
LEMMA SubsetInduction ==
    ASSUME NEW S, IsFiniteSet(S), NEW G,
           \A s \in SUBSET S : (\A t \in SUBSET s : t # s => t \in G) => s \in G
    PROVE  SUBSET S \subseteq G
<1> DEFINE Bad == {s \in SUBSET S : s \notin G}
<1> SUFFICES ASSUME Bad # {} PROVE FALSE
  OBVIOUS
<1>1. IsWellFoundedOn(StrictSubsetOrdering(S), FiniteSubsetsOf(S))
  BY FS_StrictSubsetOrderingWellFounded
<1>2. Bad \subseteq FiniteSubsetsOf(S)
  BY FS_Subset DEF FiniteSubsetsOf
<1>3. PICK s \in Bad : \A t \in Bad : ~(<<t, s>> \in StrictSubsetOrdering(S))
  <2> HIDE DEF Bad
  <2> QED  BY <1>1, <1>2, WFMin
<1>4. \A t \in SUBSET s : t # s => t \in G
  BY <1>3 DEF StrictSubsetOrdering
<1> QED  BY <1>3, <1>4

\* The recursion of a sum has one solution.
LEMMA SumUnique ==
    ASSUME NEW g, NEW S, IsFiniteSet(S),
           NEW f, f = SumStep(g, S, f), NEW h, h = SumStep(g, S, h)
    PROVE  \A s \in SUBSET S : f[s] = h[s]
<1> DEFINE G == {s \in SUBSET S : f[s] = h[s]}
<1>1. ASSUME NEW s \in SUBSET S, \A t \in SUBSET s : t # s => t \in G
      PROVE  s \in G
  <2>1. CASE s = {}
    BY <2>1 DEF SumStep
  <2>2. CASE s # {}
    <3> DEFINE t == s \ {Pick(s)}
    <3>1. Pick(s) \in s
      BY <2>2 DEF Pick
    <3>2. f[t] = h[t]
      BY <1>1, <3>1
    <3>3. f[s] = g[Pick(s)] + f[t] /\ h[s] = g[Pick(s)] + h[t]
      BY <2>2 DEF SumStep
    <3> QED  BY <3>2, <3>3
  <2> QED  BY <2>1, <2>2
<1> HIDE DEF G
<1>2. SUBSET S \subseteq G
  BY <1>1, SubsetInduction
<1> QED  BY <1>2 DEF G

\* A solution solves it for the subsets too.
LEMMA SumRestricts ==
    ASSUME NEW g, NEW S, NEW f, f = SumStep(g, S, f), NEW T, T \subseteq S
    PROVE  LET r == [s \in SUBSET T |-> f[s]] IN r = SumStep(g, T, r)
<1> DEFINE r == [s \in SUBSET T |-> f[s]]
<1>1. ASSUME NEW s \in SUBSET T
      PROVE  r[s] = IF s = {} THEN 0 ELSE g[Pick(s)] + r[s \ {Pick(s)}]
  <2>1. s \in SUBSET S /\ s \ {Pick(s)} \in SUBSET T
    OBVIOUS
  <2>2. f[s] = IF s = {} THEN 0 ELSE g[Pick(s)] + f[s \ {Pick(s)}]
    BY <2>1 DEF SumStep
  <2> QED  BY <2>1, <2>2
<1> QED  BY <1>1 DEF SumStep

\* It has a solution.
LEMMA SumExists ==
    ASSUME NEW g, NEW S, IsFiniteSet(S)
    PROVE  \E f : f = SumStep(g, S, f)
<1> DEFINE F(s) == CHOOSE f : f = SumStep(g, s, f)
           G == {s \in SUBSET S : F(s) = SumStep(g, s, F(s))}
<1>1. ASSUME NEW s \in SUBSET S, \A t \in SUBSET s : t # s => t \in G
      PROVE  s \in G
  <2> DEFINE Value(t) == F(t)[t]
             h == [t \in SUBSET s |->
                     IF t = {} THEN 0 ELSE g[Pick(t)] + Value(t \ {Pick(t)})]
  <2>1. ASSUME NEW t \in SUBSET s, t # s, NEW u \in SUBSET t
        PROVE  F(t)[u] = Value(u)
    <3>1. F(t) = SumStep(g, t, F(t)) /\ F(u) = SumStep(g, u, F(u))
      <4>1. u \in SUBSET s /\ u # s
        BY <2>1
      <4> QED  BY <1>1, <2>1, <4>1
    <3> DEFINE r == [v \in SUBSET u |-> F(t)[v]]
    <3> HIDE DEF F
    <3>2. r = SumStep(g, u, r)
      BY <3>1, SumRestricts
    <3>3. IsFiniteSet(u)
      BY FS_Subset
    <3> HIDE DEF r
    <3>4. \A v \in SUBSET u : r[v] = F(u)[v]
      BY <3>1, <3>2, <3>3, SumUnique
    <3> QED  BY <3>4 DEF r
  <2>2. h = SumStep(g, s, h)
    <3>1. ASSUME NEW t \in SUBSET s
          PROVE  h[t] = IF t = {} THEN 0 ELSE g[Pick(t)] + h[t \ {Pick(t)}]
      <4>1. CASE t = {}
        BY <4>1
      <4>2. CASE t # {}
        <5> DEFINE u == t \ {Pick(t)}
        <5>1. Pick(t) \in t
          BY <4>2 DEF Pick
        <5>2. u \in SUBSET s /\ u # s
          BY <5>1
        <5>3. F(u) = SumStep(g, u, F(u))
          BY <1>1, <5>2
        <5>4. F(u)[u] = IF u = {} THEN 0 ELSE g[Pick(u)] + F(u)[u \ {Pick(u)}]
          <6> HIDE DEF F, u
          <6> QED  BY <5>3 DEF SumStep
        <5>5. F(u)[u \ {Pick(u)}] = Value(u \ {Pick(u)})
          BY <2>1, <5>2
        <5>6. h[u] = Value(u)
          <6> HIDE DEF F
          <6> QED  BY <5>2, <5>4, <5>5
        <5> HIDE DEF F
        <5> QED  BY <4>2, <5>6
      <4> QED  BY <4>1, <4>2
    <3> HIDE DEF F
    <3> QED  BY <3>1 DEF SumStep
  <2> HIDE DEF h
  <2>3. F(s) = SumStep(g, s, F(s))
    BY <2>2
  <2> QED  BY <2>3
<1> HIDE DEF G
<1>2. SUBSET S \subseteq G
  BY <1>1, SubsetInduction
<1>3. S \in G
  BY <1>2
<1> QED  BY <1>3 DEF G

\* A sum takes its elements away one by one.
LEMMA SumRecursion ==
    ASSUME NEW g, NEW S, IsFiniteSet(S)
    PROVE  SumFunctionOnSet(g, S) =
             IF S = {} THEN 0
             ELSE g[Pick(S)] + SumFunctionOnSet(g, S \ {Pick(S)})
<1> DEFINE F(s) == CHOOSE f : f = SumStep(g, s, f)
           T == S \ {Pick(S)}
<1>1. IsFiniteSet(T)
  BY FS_Subset
<1>2. F(S) = SumStep(g, S, F(S)) /\ F(T) = SumStep(g, T, F(T))
  BY <1>1, SumExists
<1>3. SumFunctionOnSet(g, S) = F(S)[S] /\ SumFunctionOnSet(g, T) = F(T)[T]
  BY SumIsFold
<1> HIDE DEF F
<1>4. F(S)[S] = IF S = {} THEN 0 ELSE g[Pick(S)] + F(S)[T]
  BY <1>2 DEF SumStep
<1> DEFINE r == [s \in SUBSET T |-> F(S)[s]]
<1>5. r = SumStep(g, T, r)
  <2>1. T \subseteq S
    OBVIOUS
  <2> HIDE DEF T
  <2> QED  BY <1>2, <2>1, SumRestricts
<1>6. \A s \in SUBSET T : r[s] = F(T)[s]
  <2> HIDE DEF r, T
  <2> QED  BY <1>1, <1>2, <1>5, SumUnique
<1>7. F(S)[T] = F(T)[T]
  BY <1>6
<1> QED  BY <1>3, <1>4, <1>7

\* It depends on the elements alone, and is an integer if they are.
LEMMA SumType ==
    ASSUME NEW S, IsFiniteSet(S), NEW g, \A x \in S : g[x] \in Int
    PROVE  \A s \in SUBSET S : SumFunctionOnSet(g, s) \in Int
<1> DEFINE V(s) == SumFunctionOnSet(g, s)
           G == {s \in SUBSET S : V(s) \in Int}
<1>1. \A s \in SUBSET S :
        V(s) = IF s = {} THEN 0 ELSE g[Pick(s)] + V(s \ {Pick(s)})
  BY SumRecursion, FS_Subset
<1> HIDE DEF V
<1>2. ASSUME NEW s \in SUBSET S, \A t \in SUBSET s : t # s => t \in G
      PROVE  s \in G
  <2>1. CASE s = {}
    BY <1>1, <2>1
  <2>2. CASE s # {}
    <3>1. Pick(s) \in s
      BY <2>2 DEF Pick
    <3>2. V(s \ {Pick(s)}) \in Int
      BY <1>2, <3>1
    <3> QED  BY <1>1, <2>2, <3>1, <3>2
  <2> QED  BY <2>1, <2>2
<1> HIDE DEF G
<1>3. SUBSET S \subseteq G
  BY <1>2, SubsetInduction
<1> QED  BY <1>3 DEF G, V

LEMMA SumTakeAway ==
    ASSUME NEW S, IsFiniteSet(S), NEW g, \A x \in S : g[x] \in Int
    PROVE  \A x \in S : SumFunctionOnSet(g, S) = g[x] + SumFunctionOnSet(g, S \ {x})
<1> DEFINE V(s) == SumFunctionOnSet(g, s)
           G == {s \in SUBSET S : \A x \in s : V(s) = g[x] + V(s \ {x})}
<1>1. \A s \in SUBSET S :
        V(s) = IF s = {} THEN 0 ELSE g[Pick(s)] + V(s \ {Pick(s)})
  BY SumRecursion, FS_Subset
<1>2. \A s \in SUBSET S : V(s) \in Int
  BY SumType
<1> HIDE DEF V
<1>3. ASSUME NEW s \in SUBSET S, \A t \in SUBSET s : t # s => t \in G
      PROVE  s \in G
  <2> SUFFICES ASSUME NEW x \in s PROVE V(s) = g[x] + V(s \ {x})
    OBVIOUS
  <2> DEFINE p == Pick(s)
  <2>1. p \in s /\ V(s) = g[p] + V(s \ {p})
    <3>1. Pick(s) \in s
      BY DEF Pick
    <3> QED  BY <1>1, <3>1
  <2> HIDE DEF p
  <2>2. CASE x = p
    BY <2>1, <2>2
  <2>3. CASE x # p
    <3>1. V(s \ {p}) = g[x] + V((s \ {p}) \ {x})
      BY <1>3, <2>1, <2>3
    <3>2. V(s \ {x}) = g[p] + V((s \ {x}) \ {p})
      BY <1>3, <2>1, <2>3
    <3>3. (s \ {p}) \ {x} = (s \ {x}) \ {p}
      OBVIOUS
    <3>4. g[x] \in Int /\ g[p] \in Int /\ V((s \ {x}) \ {p}) \in Int
      BY <1>2, <2>1
    <3>5. /\ V(s) = g[p] + (g[x] + V((s \ {x}) \ {p}))
          /\ V(s \ {x}) = g[p] + V((s \ {x}) \ {p})
      BY <2>1, <3>1, <3>2, <3>3
    <3>6. \A a, b, c \in Int : b + (a + c) = a + (b + c)
      OBVIOUS
    <3> QED  BY <3>4, <3>5, <3>6
  <2> QED  BY <2>2, <2>3
<1> HIDE DEF G
<1>4. SUBSET S \subseteq G
  BY <1>3, SubsetInduction
<1>5. S \in G
  BY <1>4
<1> QED  BY <1>5 DEF G, V

LEMMA SumSame ==
    ASSUME NEW S, IsFiniteSet(S), NEW g, NEW h, \A x \in S : g[x] = h[x]
    PROVE  SumFunctionOnSet(g, S) = SumFunctionOnSet(h, S)
<1>1. ASSUME NEW f PROVE SumStep(g, S, f) = SumStep(h, S, f)
  <2>1. \A s \in SUBSET S : s # {} => g[Pick(s)] = h[Pick(s)]
    BY DEF Pick
  <2> QED  BY <2>1 DEF SumStep
<1> DEFINE F(k) == CHOOSE f : f = SumStep(k, S, f)
<1>2. F(g) = SumStep(g, S, F(g)) /\ F(h) = SumStep(h, S, F(h))
  BY SumExists
<1>3. SumFunctionOnSet(g, S) = F(g)[S] /\ SumFunctionOnSet(h, S) = F(h)[S]
  BY SumIsFold
<1> HIDE DEF F
<1>4. F(h) = SumStep(g, S, F(h))
  BY <1>1, <1>2
<1> QED  BY <1>2, <1>3, <1>4, SumUnique

-----------------------------------------------------------------------------
(***************************************************************************)
(* Amounts: integers in both stores and in the legacy balances.            *)
(***************************************************************************)
Priced(store) ==
    IsFiniteSet(DOMAIN store) /\ \A r \in DOMAIN store : store[r].amount \in Int

AmountsOK == Priced(utxos) /\ Priced(utxoSet) /\ balance \in [Addr -> Int]

LEMMA ValueType ==
    ASSUME NEW store, Priced(store), NEW refs, refs \subseteq DOMAIN store
    PROVE  ValueOf(store, refs) \in Int
<1> DEFINE g == [r \in refs |-> store[r].amount]
<1>1. IsFiniteSet(refs) /\ \A r \in refs : g[r] \in Int
  BY FS_Subset DEF Priced
<1> HIDE DEF g
<1>2. SumFunctionOnSet(g, refs) \in Int
  BY <1>1, SumType
<1> QED  BY <1>2 DEF ValueOf, g

LEMMA UnspentValueType ==
    ASSUME NEW store, Priced(store), NEW a
    PROVE  UnspentValue(store, a) \in Int
BY ValueType DEF UnspentValue, Unspent

LEMMA BalanceType ==
    ASSUME NEW records, Priced(records), NEW legacy \in [Addr -> Int], NEW a \in Addr
    PROVE  BalanceIn(records, legacy, a) \in Int
BY UnspentValueType DEF BalanceIn

LEMMA AllBalancesType ==
    ASSUME AmountsOK
    PROVE  GetAllBalances \in [Addr -> Int]
<1>1. \A a \in Addr : UnspentValue(utxoSet, a) \in Int
  BY UnspentValueType DEF AmountsOK
<1> QED  BY <1>1 DEF GetAllBalances, AmountsOK

LEMMA SavedPriced ==
    ASSUME NEW store, Priced(store), NEW made, Priced(made)
    PROVE  Priced(SaveAll(store, made))
<1>1. DOMAIN SaveAll(store, made) = DOMAIN store \cup DOMAIN made
  BY DEF SaveAll
<1>2. IsFiniteSet(DOMAIN store \cup DOMAIN made)
  BY FS_Union DEF Priced
<1> QED  BY <1>1, <1>2 DEF SaveAll, Priced

LEMMA SpentPriced ==
    ASSUME NEW store, NEW Known, Holds(store, Known), Priced(store), NEW refs
    PROVE  Priced(MarkSpent(store, refs))
BY MarkSpentGrows DEF Priced, GrowsBy, OnlyGrows

LEMMA OutputsPriced ==
    ASSUME NEW t, NEW outs, NEW n \in Nat, DOMAIN outs = 1..n,
           \A i \in 1..n : outs[i].amount \in Int
    PROVE  Priced(OutputsOf(t, outs))
<1>1. DOMAIN OutputsOf(t, outs) = {<<t, i - 1>> : i \in 1..n}
  BY DEF OutputsOf
<1>2. IsFiniteSet({t} \X (0..n))
  <2>1. IsFiniteSet({t})
    BY FS_Singleton
  <2>2. IsFiniteSet(0..n)
    BY FS_Interval
  <2> QED  BY <2>1, <2>2, FS_Product
<1>3. {<<t, i - 1>> : i \in 1..n} \subseteq {t} \X (0..n)
  OBVIOUS
<1>4. IsFiniteSet(DOMAIN OutputsOf(t, outs))
  BY <1>1, <1>2, <1>3, FS_Subset
<1>5. ASSUME NEW r \in DOMAIN OutputsOf(t, outs)
      PROVE  OutputsOf(t, outs)[r].amount \in Int
  <2>1. PICK i \in 1..n : r = <<t, i - 1>>
    BY <1>1
  <2>2. OutputsOf(t, outs)[r] = Rec(outs[i])
    <3>1. r[2] + 1 = i
      BY <2>1
    <3> QED  BY <1>1, <3>1 DEF OutputsOf
  <2> QED  BY <2>2 DEF Rec
<1> QED  BY <1>4, <1>5 DEF Priced

LEMMA ChangePriced ==
    ASSUME NEW t, NEW amount \in Int, NEW to, NEW rest \in Int, NEW owner
    PROVE  Priced(OutputsOf(t, WithChange(Output(amount, to), rest, owner)))
<1> DEFINE outs == WithChange(Output(amount, to), rest, owner)
<1>1. CASE rest > 0
  <2>1. outs = <<Output(amount, to), Output(rest, owner)>>
    BY <1>1 DEF WithChange
  <2>2. DOMAIN outs = 1..2 /\ outs[1].amount = amount /\ outs[2].amount = rest
    BY <2>1 DEF Output
  <2>3. \A i \in 1..2 : outs[i].amount \in Int
    BY <2>2
  <2> HIDE DEF outs
  <2>4. Priced(OutputsOf(t, outs))
    BY <2>2, <2>3, OutputsPriced
  <2> QED  BY <2>4 DEF outs
<1>2. CASE ~(rest > 0)
  <2>1. outs = <<Output(amount, to)>>
    BY <1>2 DEF WithChange
  <2>2. DOMAIN outs = 1..1 /\ outs[1].amount = amount
    BY <2>1 DEF Output
  <2>3. \A i \in 1..1 : outs[i].amount \in Int
    BY <2>2
  <2> HIDE DEF outs
  <2>4. Priced(OutputsOf(t, outs))
    BY <2>2, <2>3, OutputsPriced
  <2> QED  BY <2>4 DEF outs
<1> QED  BY <1>1, <1>2

\* Both stores with outputs spent and saved.
LEMMA SpentAndSavedPriced ==
    ASSUME NEW store, NEW Known, Holds(store, Known), Priced(store), NEW refs,
           NEW made, Priced(made)
    PROVE  Priced(SaveAll(MarkSpent(store, refs), made))
BY SpentPriced, SavedPriced

-----------------------------------------------------------------------------
LEMMA SendCoinsAmounts ==
    ASSUME IInv, AmountsOK, NEW from \in Addr, NEW to \in Addr, NEW amount \in Amounts,
           NEW t \in TxId, SendCoins(from, to, amount, t)
    PROVE  AmountsOK'
<1>1. Holds(utxos, txs) /\ Holds(utxoSet, txs) /\ amount \in Int
  BY AmountsAssumption DEF IInv, StoresOK
<1>2. CASE SendFromSet(from, to, amount, t)
  <2>1. PICK I \in Spendable(utxoSet, from, amount) :
          LET outs == WithChange(Output(amount, to), ValueOf(utxoSet, I) - amount, from)
          IN  /\ utxos' = SaveAll(MarkSpent(utxos, I), OutputsOf(t, outs))
              /\ utxoSet' = SaveAll(MarkSpent(utxoSet, DecimalKeys(I)), OutputsOf(t, outs))
              /\ UNCHANGED balance
    BY <1>2 DEF SendFromSet
  <2>2. I \subseteq DOMAIN utxoSet
    BY DEF Spendable, Unspent
  <2>3. ValueOf(utxoSet, I) - amount \in Int
    BY <1>1, <2>2, ValueType DEF AmountsOK
  <2>4. Priced(OutputsOf(t, WithChange(Output(amount, to), ValueOf(utxoSet, I) - amount, from)))
    BY <1>1, <2>3, ChangePriced
  <2> QED  BY <1>1, <2>1, <2>4, SpentAndSavedPriced DEF AmountsOK
<1>3. CASE SendFromBalance(from, to, amount, t)
  <2> DEFINE rest == GetBalance(from) - amount
  <2>1. rest \in Int /\ GetBalance(to) + amount \in Int
    BY <1>1, BalanceType DEF AmountsOK, GetBalance
  <2>2. balance' = [balance EXCEPT ![from] = rest, ![to] = GetBalance(to) + amount]
    BY <1>3 DEF SendFromBalance
  <2>3. utxoSet' = utxoSet
        /\ utxos' = SaveAll(MarkSpent(utxos, Unspent(utxos, from)),
                            OutputsOf(t, WithChange(Output(amount, to), rest, from)))
    BY <1>3 DEF SendFromBalance
  <2> HIDE DEF rest
  <2>4. Priced(utxos')
    BY <1>1, <2>1, <2>3, ChangePriced, SpentAndSavedPriced DEF AmountsOK
  <2> QED  BY <2>1, <2>2, <2>3, <2>4 DEF AmountsOK
<1> QED  BY <1>2, <1>3 DEF SendCoins

LEMMA ProcessTransactionAmounts ==
    ASSUME IInv, AmountsOK, NEW t \in TxId, NEW from \in Addr, NEW to \in Addr,
           NEW amount \in Amounts, NEW inputs, NEW rest \in {0} \cup Amounts,
           ProcessTransaction(t, from, to, amount, inputs, rest)
    PROVE  AmountsOK'
<1>1. Holds(utxos, txs) /\ Holds(utxoSet, txs) /\ amount \in Int /\ rest \in Int
  BY AmountsAssumption DEF IInv, StoresOK
<1>2. CASE ApplyInputs(t, inputs, WithChange(Output(amount, to), rest, from))
  BY <1>1, <1>2, ChangePriced, SpentAndSavedPriced DEF ApplyInputs, AmountsOK
<1>3. CASE ApplyTransfer(t, from, to, amount)
  <2> DEFINE left == GetBalance(from) - amount
             debited == [balance EXCEPT ![from] = left]
             credited == BalanceIn(utxos, debited, to) + amount
  <2>1. left \in Int
    BY <1>1, BalanceType DEF AmountsOK, GetBalance
  <2>2. /\ balance' = [debited EXCEPT ![to] = credited] /\ utxoSet' = utxoSet
        /\ utxos' = SaveAll(MarkSpent(utxos, Unspent(utxos, from)),
                            OutputsOf(t, WithChange(Output(amount, to), left, from)))
    BY <1>3 DEF ApplyTransfer
  <2> HIDE DEF left
  <2>3. debited \in [Addr -> Int]
    BY <2>1 DEF AmountsOK
  <2> HIDE DEF debited
  <2>4. credited \in Int
    BY <1>1, <2>3, BalanceType DEF AmountsOK
  <2> HIDE DEF credited
  <2>5. Priced(utxos')
    BY <1>1, <2>1, <2>2, ChangePriced, SpentAndSavedPriced DEF AmountsOK
  <2> QED  BY <2>2, <2>3, <2>4, <2>5 DEF AmountsOK
<1>4. CASE RejectTransfer(t, from, amount)
  BY <1>4 DEF RejectTransfer, money, AmountsOK
<1> QED  BY <1>2, <1>3, <1>4 DEF ProcessTransaction

LEMMA AddBlockAmounts ==
    ASSUME AmountsOK, NEW t \in TxId, NEW from, NEW to \in Addr,
           from \in Addr \/ from = System, NEW amount \in Amounts, NEW genesis,
           AddBlock(t, from, to, amount, genesis)
    PROVE  AmountsOK'
<1> DEFINE debited == IF from = System THEN balance
                      ELSE [balance EXCEPT ![from] = GetBalance(from) - amount]
           credited == BalanceIn(utxos, debited, to) + amount
<1>1. amount \in Int
  BY AmountsAssumption
<1>2. debited \in [Addr -> Int]
  <2>1. CASE from = System
    BY <2>1 DEF AmountsOK
  <2>2. CASE from # System
    <3>1. GetBalance(from) - amount \in Int
      BY <1>1, <2>2, BalanceType DEF AmountsOK, GetBalance
    <3> QED  BY <2>2, <3>1 DEF AmountsOK
  <2> QED  BY <2>1, <2>2
<1>3. Moved(from, to, amount) = [debited EXCEPT ![to] = credited]
  BY DEF Moved
<1> HIDE DEF debited
<1>4. credited \in Int
  BY <1>1, <1>2, BalanceType DEF AmountsOK
<1> HIDE DEF credited
<1>5. Moved(from, to, amount) \in [Addr -> Int]
  BY <1>2, <1>3, <1>4
<1>6. UNCHANGED <<utxos, utxoSet>> /\ (balance' = Moved(from, to, amount) \/ balance' = balance)
  BY DEF AddBlock
<1> QED  BY <1>5, <1>6 DEF AmountsOK

LEMMA UpdateBalanceAmounts ==
    ASSUME IInv, AmountsOK, NEW a \in Addr, NEW figure \in {0} \cup Amounts, NEW t \in TxId,
           UpdateBalance(a, figure, t)
    PROVE  AmountsOK'
<1>1. Holds(utxos, txs) /\ Holds(utxoSet, txs) /\ figure \in Int
  BY AmountsAssumption DEF IInv, StoresOK
<1>2. balance' \in [Addr -> Int]
  BY <1>1 DEF UpdateBalance, AmountsOK
<1>3. CASE IncreaseBalance(a, figure, t)
  <2> DEFINE outs == <<Output(figure, a)>>
  <2>1. DOMAIN outs = 1..1 /\ \A i \in 1..1 : outs[i].amount \in Int
    BY <1>1 DEF Output
  <2>2. /\ utxos' = SaveAll(MarkSpent(utxos, Unspent(utxos, a)), OutputsOf(t, outs))
        /\ utxoSet' = SaveAll(MarkSpent(utxoSet, DecimalKeys(Unspent(utxos, a))),
                              OutputsOf(t, outs))
    BY <1>3 DEF IncreaseBalance
  <2> HIDE DEF outs
  <2>3. Priced(OutputsOf(t, outs))
    BY <2>1, OutputsPriced
  <2> QED  BY <1>1, <1>2, <2>2, <2>3, SpentAndSavedPriced DEF AmountsOK
<1>4. CASE UNCHANGED <<utxos, utxoSet>>
  BY <1>2, <1>4 DEF AmountsOK
<1> QED  BY <1>3, <1>4 DEF UpdateBalance

LEMMA ValidatorAmounts ==
    ASSUME IInv, AmountsOK, NEW a \in Addr, RegisterValidator(a) \/ UnregisterValidator(a)
    PROVE  AmountsOK'
<1>1. GetBalance(a) \in Int /\ deposit[a] \in Nat /\ MinDeposit \in Nat
  BY BalanceType, MinDepositAssumption DEF AmountsOK, GetBalance, IInv, OthersOK
<1>2. UNCHANGED <<utxos, utxoSet>> /\ \E v \in Int : balance' = [balance EXCEPT ![a] = v]
  BY <1>1 DEF RegisterValidator, UnregisterValidator
<1> QED  BY <1>2 DEF AmountsOK

LEMMA ConvertAmounts ==
    ASSUME AmountsOK, ConvertLegacyBalancesToUTXOs
    PROVE  AmountsOK'
<1> DEFINE n == Cardinality(Convertible)
<1>1. n \in Nat
  <2>1. Convertible \subseteq Addr
    BY DEF Convertible
  <2> QED  BY <2>1, AddrAssumption, FS_Subset, FS_CardinalityType
<1>2. PICK by \in Injection(1..n, Convertible), ts \in Injection(1..n, Fresh) :
         LET made == [r \in {<<ts[i], 0>> : i \in DOMAIN ts} |->
                        LET a == by[CHOOSE i \in DOMAIN ts : ts[i] = r[1]]
                        IN  Rec(Output(GetAllBalances[a], a))]
         IN  utxos' = SaveAll(utxos, made) /\ utxoSet' = SaveAll(utxoSet, made)
  BY DEF ConvertLegacyBalancesToUTXOs
<1> HIDE DEF n
<1> DEFINE key(i) == <<ts[i], 0>>
           made == [r \in {<<ts[i], 0>> : i \in DOMAIN ts} |->
                        LET a == by[CHOOSE i \in DOMAIN ts : ts[i] = r[1]]
                        IN  Rec(Output(GetAllBalances[a], a))]
<1>3. ts \in [1..n -> Fresh] /\ by \in [1..n -> Convertible] /\ Convertible \subseteq Addr
  BY DEF Injection, Convertible
<1>4. IsFiniteSet({key(i) : i \in 1..n})
  <2>1. {key(i) : i \in 1..n} \subseteq {ts[i] : i \in 1..n} \X {0}
    OBVIOUS
  <2>2. IsFiniteSet({ts[i] : i \in 1..n})
    <3>1. ts \in Surjection(1..n, {ts[i] : i \in 1..n})
      BY <1>3 DEF Surjection
    <3>2. IsFiniteSet(1..n)
      BY <1>1, FS_Interval
    <3> QED  BY <3>1, <3>2, FS_Surjection
  <2>3. IsFiniteSet({ts[i] : i \in 1..n} \X {0})
    <3>1. IsFiniteSet({0})
      BY FS_Singleton
    <3> QED  BY <2>2, <3>1, FS_Product
  <2> QED  BY <2>1, <2>3, FS_Subset
<1>5. DOMAIN made = {key(i) : i \in 1..n}
  BY <1>3
<1>6. ASSUME NEW r \in DOMAIN made PROVE made[r].amount \in Int
  <2> DEFINE j == CHOOSE i \in DOMAIN ts : ts[i] = r[1]
  <2>1. j \in 1..n
    <3>1. \E i \in DOMAIN ts : ts[i] = r[1]
      BY <1>5, <1>3
    <3> QED  BY <1>3, <3>1
  <2>2. GetAllBalances[by[j]] \in Int
    BY <1>3, <2>1, AllBalancesType
  <2> QED  BY <2>2 DEF Rec, Output
<1>7. Priced(made)
  BY <1>4, <1>5, <1>6 DEF Priced
<1>8. utxos' = SaveAll(utxos, made) /\ utxoSet' = SaveAll(utxoSet, made)
  BY <1>2
<1>9. UNCHANGED balance
  BY DEF ConvertLegacyBalancesToUTXOs
<1> HIDE DEF made
<1> QED  BY <1>7, <1>8, <1>9, SavedPriced DEF AmountsOK

LEMMA ResponseAmounts ==
    ASSUME AmountsOK, NEW from \in Addr, NEW to \in Addr, NEW ts,
           NEW vs \in Bijection(1..Cardinality(Validators), Validators),
           ProcessMessageResponse(from, to, ts, vs)
    PROVE  AmountsOK'
<1> DEFINE m == Cardinality(Validators)
           share == ValidatorShare(Len(vs))
           pair == <<Output(SenderReward, from), Output(ReceiverReward, to)>>
           outs == [i \in DOMAIN vs |-> Output(share, vs[i])]
           users == OutputsOf(ts[1], pair)
           shares == OutputsOf(ts[2], outs)
           paid == SaveAll(utxos, users)
           all == IF vs = << >> THEN paid ELSE SaveAll(paid, shares)
           both == [balance EXCEPT ![from] = BalanceIn(paid, balance, from) + SenderReward,
                                   ![to] = BalanceIn(paid, balance, to) + ReceiverReward]
<1>1. /\ utxos' = all
      /\ utxoSet' = IF vs = << >> THEN SaveAll(utxoSet, users)
                     ELSE SaveAll(SaveAll(utxoSet, users), shares)
      /\ balance' = [a \in Addr |->
                        IF a \in Validators THEN BalanceIn(all, both, a) + share ELSE both[a]]
  BY DEF ProcessMessageResponse
<1>2. vs \in [1..m -> Validators] /\ m \in Nat
  <2>1. vs \in [1..m -> Validators]
    BY DEF Bijection, Injection
  <2>2. Validators \subseteq Addr
    BY DEF Validators
  <2> QED  BY <2>1, <2>2, AddrAssumption, FS_Subset, FS_CardinalityType
<1>3. Priced(users)
  <2>1. DOMAIN pair = 1..2 /\ \A i \in 1..2 : pair[i].amount \in Int
    BY DEF Output, SenderReward, ReceiverReward
  <2> HIDE DEF pair
  <2> QED  BY <2>1, OutputsPriced
<1>4. vs # << >> => share \in Int /\ Priced(shares)
  <2> SUFFICES ASSUME vs # << >> PROVE share \in Int /\ Priced(shares)
    OBVIOUS
  <2>1. Len(vs) = m /\ m > 0
    <3>1. m # 0
      <4> SUFFICES ASSUME m = 0 PROVE FALSE
        OBVIOUS
      <4>1. vs \in [1..0 -> Validators]
        BY <1>2
      <4> QED  BY <4>1
    <3>2. vs \in Seq(Validators)
      BY <1>2
    <3> QED  BY <1>2, <3>1, <3>2
  <2>2. share \in Int
    <3> HIDE DEF m
    <3> QED  BY <1>2, <2>1 DEF ValidatorShare
  <2> HIDE DEF share, m
  <2>3. DOMAIN outs = 1..m /\ \A i \in 1..m : outs[i].amount \in Int
    BY <1>2, <2>2 DEF Output
  <2> HIDE DEF outs
  <2> QED  BY <1>2, <2>2, <2>3, OutputsPriced
<1> HIDE DEF users, shares
<1>5. Priced(paid)
  BY <1>3, SavedPriced DEF AmountsOK
<1> HIDE DEF paid
<1>6. Priced(all)
  BY <1>4, <1>5, SavedPriced
<1>7. Priced(utxoSet')
  BY <1>1, <1>3, <1>4, SavedPriced DEF AmountsOK
<1>8. both \in [Addr -> Int]
  <2>1. /\ BalanceIn(paid, balance, from) + SenderReward \in Int
        /\ BalanceIn(paid, balance, to) + ReceiverReward \in Int
    BY <1>5, BalanceType DEF AmountsOK, SenderReward, ReceiverReward
  <2> QED  BY <2>1 DEF AmountsOK
<1> HIDE DEF all, both
<1>9. ASSUME NEW a \in Addr
      PROVE  (IF a \in Validators THEN BalanceIn(all, both, a) + share ELSE both[a]) \in Int
  <2>1. CASE a \in Validators
    <3>1. vs # << >>
      <4>1. PICK i \in 1..m : vs[i] = a
        BY <2>1 DEF Bijection, Surjection
      <4> QED  BY <1>2, <4>1
    <3> HIDE DEF share
    <3> QED  BY <1>4, <1>6, <1>8, <2>1, <3>1, BalanceType
  <2>2. CASE a \notin Validators
    BY <1>8, <2>2
  <2> QED  BY <2>1, <2>2
<1> QED  BY <1>1, <1>6, <1>7, <1>9 DEF AmountsOK

LEMMA AmountsStep == IInv /\ AmountsOK /\ [Next]_vars => AmountsOK'
<1> SUFFICES ASSUME IInv, AmountsOK, [Next]_vars PROVE AmountsOK'
  OBVIOUS
<1>1. CASE UNCHANGED money
  BY <1>1 DEF money, AmountsOK
<1>2. CASE WalletStep
  <2>1. CASE CreditGrant
    <3>1. GenesisGrant \in Int
      BY AmountsAssumption
    <3>2. balance' \in [Addr -> Int]
      BY <2>1, <3>1 DEF CreditGrant, AmountsOK
    <3>3. UNCHANGED <<utxos, utxoSet>>
      BY <2>1 DEF CreditGrant
    <3> QED  BY <3>2, <3>3 DEF AmountsOK
  <2>2. CASE ~CreditGrant
    BY <1>1, <1>2, <2>2 DEF WalletStep, CreateWallet, CheckGrant, ReadLastBlock, SaveGrant,
                            IncrementNodeCount
  <2> QED  BY <2>1, <2>2
<1>3. CASE CliCall
  <2>1. ASSUME NEW from \in Addr, NEW to \in Addr, NEW t \in TxId, SendMessage(from, to, t)
        PROVE  AmountsOK'
    BY <1>1, <2>1 DEF SendMessage
  <2> QED  BY <1>3, <2>1, SendCoinsAmounts, ConvertAmounts, ValidatorAmounts DEF CliCall
<1>4. CASE Respond
  BY <1>4, ResponseAmounts DEF Respond
<1>5. CASE PeerCall
  BY <1>5, ProcessTransactionAmounts, AddBlockAmounts, UpdateBalanceAmounts DEF PeerCall
<1>6. CASE Restart
  BY <1>1, <1>6 DEF Restart
<1>7. CASE UNCHANGED vars
  BY <1>1, <1>7 DEF vars
<1> QED  BY <1>2, <1>3, <1>4, <1>5, <1>6, <1>7 DEF Next

LEMMA AmountsInit == Init => AmountsOK
<1> SUFFICES ASSUME Init PROVE AmountsOK
  OBVIOUS
<1>1. DOMAIN utxos = {} /\ DOMAIN utxoSet = {}
  BY DEF Init
<1> QED  BY <1>1, FS_EmptySet DEF Init, AmountsOK, Priced

LEMMA AlwaysAmounts == Spec => [](IInv /\ AmountsOK)
<1>1. IInv /\ AmountsOK /\ [Next]_vars => IInv' /\ AmountsOK'
  BY NextGood, AmountsStep DEF Good
<1> QED  BY <1>1, InitInv, AmountsInit, PTL DEF Spec

-----------------------------------------------------------------------------
(***************************************************************************)
(* What a transfer is worth                                                *)
(***************************************************************************)
\* Outputs worth something and one more.
LEMMA ValueAdds ==
    ASSUME NEW store, Priced(store), NEW refs, refs \subseteq DOMAIN store,
           NEW x \in DOMAIN store, x \notin refs
    PROVE  ValueOf(store, refs \cup {x}) = ValueOf(store, refs) + store[x].amount
<1> DEFINE more == refs \cup {x}
           g == [r \in refs |-> store[r].amount]
           h == [r \in more |-> store[r].amount]
<1>1. /\ IsFiniteSet(more) /\ IsFiniteSet(refs) /\ x \in more /\ more \ {x} = refs
      /\ \A r \in more : h[r] \in Int /\ h[r] = store[r].amount
      /\ \A r \in refs : g[r] = h[r] /\ g[r] \in Int
  BY FS_Subset DEF Priced
<1>2. ValueOf(store, more) = SumFunctionOnSet(h, more) /\ ValueOf(store, refs) = SumFunctionOnSet(g, refs)
  BY DEF ValueOf
<1> HIDE DEF more, g, h
<1>3. SumFunctionOnSet(h, more) = h[x] + SumFunctionOnSet(h, refs)
  BY <1>1, SumTakeAway
<1>4. SumFunctionOnSet(h, refs) = SumFunctionOnSet(g, refs)
  BY <1>1, SumSame
<1>5. SumFunctionOnSet(g, refs) \in Int
  BY <1>1, SumType
<1> QED  BY <1>1, <1>2, <1>3, <1>4, <1>5 DEF more

LEMMA ValueOfNothing ==
    ASSUME NEW store
    PROVE  ValueOf(store, {}) = 0
<1>1. ValueOf(store, {}) = SumFunctionOnSet([r \in {} |-> store[r].amount], {})
  BY DEF ValueOf
<1> QED  BY <1>1, SumRecursion, FS_EmptySet

LEMMA ValueSame ==
    ASSUME NEW store, NEW store2, NEW refs, IsFiniteSet(refs),
           \A r \in refs : store[r].amount = store2[r].amount
    PROVE  ValueOf(store, refs) = ValueOf(store2, refs)
<1> DEFINE g == [r \in refs |-> store[r].amount]
           h == [r \in refs |-> store2[r].amount]
<1>1. \A r \in refs : g[r] = h[r]
  OBVIOUS
<1>2. ValueOf(store, refs) = SumFunctionOnSet(g, refs) /\ ValueOf(store2, refs) = SumFunctionOnSet(h, refs)
  BY DEF ValueOf
<1> HIDE DEF g, h
<1> QED  BY <1>1, <1>2, SumSame

\* What is unspent once outputs were marked as spent and new ones saved.
LEMMA UnspentAfter ==
    ASSUME NEW store, NEW Known, Holds(store, Known), NEW a,
           NEW t, t \notin Known, NEW made, Holds(made, {t}), NEW b
    PROVE  Unspent(SaveAll(MarkSpent(store, Unspent(store, a)), made), b) =
             (IF a = b THEN {} ELSE Unspent(store, b)) \cup Unspent(made, b)
<1> DEFINE marked == MarkSpent(store, Unspent(store, a))
           after == SaveAll(marked, made)
<1>1. DOMAIN marked = DOMAIN store /\ GrowsBy(store, marked, {})
  BY MarkSpentGrows
<1>2. /\ DOMAIN after = DOMAIN store \cup DOMAIN made
      /\ \A r \in DOMAIN made : after[r] = made[r]
      /\ \A r \in DOMAIN store : after[r] = marked[r] /\ r \notin DOMAIN made
  BY <1>1 DEF SaveAll, Holds
<1>3. \A r \in DOMAIN store : marked[r].owner = store[r].owner
  BY <1>1 DEF GrowsBy, OnlyGrows
<1>4. \A r \in DOMAIN store \ Unspent(store, a) : marked[r] = store[r]
  BY DEF MarkSpent
<1>5. ASSUME NEW r \in Unspent(store, a) PROVE marked[r].spent
  <2>1. PICK x, y, z : store[r] = [amount |-> x, owner |-> y, spent |-> z]
    BY DEF Holds, IsRecord, Unspent
  <2>2. marked[r] = [store[r] EXCEPT !.spent = TRUE]
    BY DEF MarkSpent, Unspent
  <2> DEFINE yes == TRUE
  <2>3. marked[r] = [store[r] EXCEPT !.spent = yes]
    BY <2>2
  <2>4. yes
    OBVIOUS
  <2> HIDE DEF yes, marked
  <2>5. marked[r] = [amount |-> x, owner |-> y, spent |-> yes]
    BY <2>1, <2>3
  <2> QED  BY <2>4, <2>5
<1> HIDE DEF marked, after
<1>6. ASSUME NEW r \in DOMAIN store
      PROVE  r \in Unspent(after, b) <=> a # b /\ r \in Unspent(store, b)
  <2>1. CASE r \in Unspent(store, a)
    BY <1>2, <1>5, <2>1 DEF Unspent
  <2>2. CASE r \notin Unspent(store, a)
    BY <1>2, <1>4, <2>2 DEF Unspent
  <2> QED  BY <2>1, <2>2
<1>7. ASSUME NEW r \in DOMAIN made
      PROVE  r \in Unspent(after, b) <=> r \in Unspent(made, b)
  BY <1>2 DEF Unspent
<1>8. \A r \in Unspent(after, b) : r \in DOMAIN store \/ r \in DOMAIN made
  BY <1>2 DEF Unspent
<1>9. Unspent(store, b) \subseteq DOMAIN store /\ Unspent(made, b) \subseteq DOMAIN made
  BY DEF Unspent
<1> QED  BY <1>6, <1>7, <1>8, <1>9 DEF after, marked

\* What is unspent of a transfer's own outputs.
LEMMA UnspentOfChange ==
    ASSUME NEW t, NEW amount, NEW to, NEW rest, NEW from, from # to, NEW b
    PROVE  LET made == OutputsOf(t, WithChange(Output(amount, to), rest, from))
           IN  /\ <<t, 0>> \in DOMAIN made /\ made[<<t, 0>>].amount = amount
               /\ rest > 0 => <<t, 1>> \in DOMAIN made /\ made[<<t, 1>>].amount = rest
               /\ Unspent(made, to) = {<<t, 0>>}
               /\ Unspent(made, from) = IF rest > 0 THEN {<<t, 1>>} ELSE {}
               /\ b # to /\ b # from => Unspent(made, b) = {}
<1> DEFINE outs == WithChange(Output(amount, to), rest, from)
           made == OutputsOf(t, outs)
           no == FALSE
<1>1. DOMAIN made = {<<t, i - 1>> : i \in DOMAIN outs}
  BY DEF OutputsOf
<1>2. ASSUME NEW i \in DOMAIN outs, i \in Nat
      PROVE  made[<<t, i - 1>>]
               = [amount |-> outs[i].amount, owner |-> outs[i].owner, spent |-> no]
  <2>1. <<t, i - 1>> \in DOMAIN made /\ <<t, i - 1>>[2] + 1 = i
    BY <1>1, <1>2
  <2> HIDE DEF outs
  <2>2. made[<<t, i - 1>>] = Rec(outs[i])
    BY <2>1 DEF OutputsOf
  <2> QED  BY <2>2 DEF Rec
<1> HIDE DEF made, no
<1>3. ~no
  BY DEF no
<1>4. CASE rest > 0
  <2>1. outs = <<Output(amount, to), Output(rest, from)>>
    BY <1>4 DEF WithChange
  <2>2. /\ DOMAIN outs = {1, 2} /\ outs[1].amount = amount /\ outs[1].owner = to
        /\ outs[2].amount = rest /\ outs[2].owner = from
    BY <2>1 DEF Output
  <2> HIDE DEF outs
  <2>3. DOMAIN made = {<<t, 0>>, <<t, 1>>}
    BY <1>1, <2>2
  <2>4. /\ made[<<t, 0>>] = [amount |-> amount, owner |-> to, spent |-> no]
        /\ made[<<t, 1>>] = [amount |-> rest, owner |-> from, spent |-> no]
    BY <1>2, <2>2
  <2> QED  BY <1>3, <1>4, <2>3, <2>4 DEF Unspent, made, outs
<1>5. CASE ~(rest > 0)
  <2>1. outs = <<Output(amount, to)>>
    BY <1>5 DEF WithChange
  <2>2. DOMAIN outs = {1} /\ outs[1].amount = amount /\ outs[1].owner = to
    BY <2>1 DEF Output
  <2> HIDE DEF outs
  <2>3. DOMAIN made = {<<t, 0>>}
    BY <1>1, <2>2
  <2>4. made[<<t, 0>>] = [amount |-> amount, owner |-> to, spent |-> no]
    BY <1>2, <2>2
  <2> QED  BY <1>3, <1>5, <2>3, <2>4 DEF Unspent, made, outs
<1> QED  BY <1>4, <1>5

\* The balances after all of the sender's records were spent on a transfer.
LEMMA TransferExact ==
    ASSUME IInv, AmountsOK, NEW from \in Addr, NEW to \in Addr, from # to,
           NEW amount \in Amounts, NEW t \in Fresh, NEW rest,
           rest = GetBalance(from) - amount, rest >= 0,
           utxos' = SaveAll(MarkSpent(utxos, Unspent(utxos, from)),
                            OutputsOf(t, WithChange(Output(amount, to), rest, from))),
           balance'[from] = rest,
           \A a \in Addr \ {from, to} : balance'[a] = balance[a]
    PROVE  TransferMoves(from, to, amount)
<1> DEFINE made == OutputsOf(t, WithChange(Output(amount, to), rest, from))
           new == utxos'
<1>1. /\ t \in TxId /\ t \notin txs /\ Holds(utxos, txs) /\ Priced(utxos)
      /\ amount \in Int /\ rest \in Int
  BY AmountsAssumption, BalanceType DEF Fresh, IInv, StoresOK, AmountsOK, GetBalance
<1>2. Holds(made, {t}) /\ Priced(made)
  BY <1>1, ChangeHolds, ChangePriced
<1>3. /\ <<t, 0>> \in DOMAIN made /\ made[<<t, 0>>].amount = amount
      /\ rest > 0 => <<t, 1>> \in DOMAIN made /\ made[<<t, 1>>].amount = rest
      /\ Unspent(made, to) = {<<t, 0>>}
      /\ Unspent(made, from) = IF rest > 0 THEN {<<t, 1>>} ELSE {}
      /\ \A b : b # to /\ b # from => Unspent(made, b) = {}
  <2>1. ASSUME NEW b
        PROVE  /\ <<t, 0>> \in DOMAIN made /\ made[<<t, 0>>].amount = amount
               /\ rest > 0 => <<t, 1>> \in DOMAIN made /\ made[<<t, 1>>].amount = rest
               /\ Unspent(made, to) = {<<t, 0>>}
               /\ Unspent(made, from) = IF rest > 0 THEN {<<t, 1>>} ELSE {}
               /\ b # to /\ b # from => Unspent(made, b) = {}
    BY UnspentOfChange
  <2> HIDE DEF made
  <2> QED  BY <2>1
<1>4. new = SaveAll(MarkSpent(utxos, Unspent(utxos, from)), made)
  OBVIOUS
<1> HIDE DEF made
<1>5. \A b : Unspent(new, b) = (IF from = b THEN {} ELSE Unspent(utxos, b)) \cup Unspent(made, b)
  BY <1>1, <1>2, <1>4, UnspentAfter
<1>6. /\ Priced(new) /\ DOMAIN new = DOMAIN utxos \cup DOMAIN made
      /\ \A r \in DOMAIN made : new[r] = made[r] /\ r \notin DOMAIN utxos
      /\ \A r \in DOMAIN utxos : new[r].amount = utxos[r].amount
  <2>1. Priced(new)
    BY <1>1, <1>2, <1>4, SpentAndSavedPriced
  <2>2. DOMAIN new = DOMAIN utxos \cup DOMAIN made /\ GrowsBy(utxos, new, {t})
    <3>1. {t} \cap txs = {}
      BY <1>1
    <3> DEFINE spent == Unspent(utxos, from)
               New == {t}
    <3>2. new = SaveAll(MarkSpent(utxos, spent), made)
      BY <1>4
    <3> HIDE DEF new, spent
    <3>3. Holds(utxos, txs) /\ Holds(made, New) /\ New \cap txs = {}
      BY <1>1, <1>2, <3>1
    <3> HIDE DEF New
    <3>4. GrowsBy(utxos, SaveAll(MarkSpent(utxos, spent), made), New)
      BY <3>3, SpendAndSaveGrows
    <3>5. DOMAIN SaveAll(MarkSpent(utxos, spent), made) = DOMAIN utxos \cup DOMAIN made
      BY DEF SaveAll, MarkSpent
    <3> QED  BY <3>2, <3>4, <3>5 DEF New
  <2>3. \A r \in DOMAIN made : new[r] = made[r] /\ r \notin DOMAIN utxos
    BY <1>1, <1>2, <1>4 DEF SaveAll, Holds
  <2> QED  BY <2>1, <2>2, <2>3 DEF GrowsBy, OnlyGrows
<1> HIDE DEF new
<1>7. \A b : /\ Unspent(utxos, b) \subseteq DOMAIN utxos /\ IsFiniteSet(Unspent(utxos, b))
             /\ ValueOf(utxos, Unspent(utxos, b)) = ValueOf(new, Unspent(utxos, b))
             /\ ValueOf(utxos, Unspent(utxos, b)) \in Int
  <2> TAKE b
  <2>1. Unspent(utxos, b) \subseteq DOMAIN utxos
    BY DEF Unspent
  <2>2. IsFiniteSet(Unspent(utxos, b))
    BY <1>1, <2>1, FS_Subset DEF Priced
  <2>3. ValueOf(utxos, Unspent(utxos, b)) = ValueOf(new, Unspent(utxos, b))
    BY <1>6, <2>1, <2>2, ValueSame
  <2>4. ValueOf(utxos, Unspent(utxos, b)) \in Int
    BY <1>1, <2>1, ValueType
  <2> QED  BY <2>1, <2>2, <2>3, <2>4
<1>8. BalanceIn(new, balance', from) = rest
  <2>1. CASE rest > 0
    <3>1. Unspent(new, from) = {} \cup {<<t, 1>>} /\ <<t, 1>> \in DOMAIN new
          /\ new[<<t, 1>>].amount = rest
      BY <1>3, <1>5, <1>6, <2>1
    <3>2. ValueOf(new, {} \cup {<<t, 1>>}) = ValueOf(new, {}) + new[<<t, 1>>].amount
      <4>1. {} \subseteq DOMAIN new /\ <<t, 1>> \notin {}
        OBVIOUS
      <4> QED  BY <1>6, <3>1, <4>1, ValueAdds
    <3>4. UnspentValue(new, from) = 0 + rest
      BY <3>1, <3>2, ValueOfNothing DEF UnspentValue
    <3>3. 0 + rest = rest
      BY <1>1
    <3> QED  BY <2>1, <3>3, <3>4 DEF BalanceIn
  <2>2. CASE ~(rest > 0)
    <3>1. Unspent(new, from) = {}
      BY <1>3, <1>5, <2>2
    <3>2. UnspentValue(new, from) = 0
      BY <3>1, ValueOfNothing DEF UnspentValue
    <3> QED  BY <3>2 DEF BalanceIn
  <2> QED  BY <2>1, <2>2
<1>9. UnspentValue(new, to) = UnspentValue(utxos, to) + amount
  <2>1. Unspent(new, to) = Unspent(utxos, to) \cup {<<t, 0>>}
    BY <1>3, <1>5
  <2>2. /\ Unspent(utxos, to) \subseteq DOMAIN new /\ <<t, 0>> \in DOMAIN new
        /\ <<t, 0>> \notin Unspent(utxos, to) /\ new[<<t, 0>>].amount = amount
    BY <1>3, <1>6, <1>7
  <2>3. ValueOf(new, Unspent(new, to)) = ValueOf(new, Unspent(utxos, to)) + amount
    BY <1>6, <2>1, <2>2, ValueAdds
  <2> QED  BY <1>7, <2>3 DEF UnspentValue
<1>10. ASSUME NEW a \in Addr \ {from, to}
       PROVE  BalanceIn(new, balance', a) = GetBalance(a)
  <2>1. Unspent(new, a) = Unspent(utxos, a)
    BY <1>3, <1>5
  <2>2. UnspentValue(new, a) = UnspentValue(utxos, a)
    BY <1>7, <2>1 DEF UnspentValue
  <2> QED  BY <2>2 DEF BalanceIn, GetBalance
<1> QED  BY <1>8, <1>9, <1>10 DEF TransferMoves, GetBalance, new

LEMMA TransferStep ==
    ASSUME IInv, AmountsOK, NEW from \in Addr, NEW to \in Addr, from # to,
           NEW amount \in Amounts, NEW t \in Fresh,
           SendFromBalance(from, to, amount, t) \/ ApplyTransfer(t, from, to, amount)
    PROVE  TransferMoves(from, to, amount)
<1> DEFINE rest == GetBalance(from) - amount
<1>1. /\ rest >= 0
      /\ utxos' = SaveAll(MarkSpent(utxos, Unspent(utxos, from)),
                          OutputsOf(t, WithChange(Output(amount, to), rest, from)))
  BY DEF SendFromBalance, ApplyTransfer
<1>2. balance'[from] = rest /\ \A a \in Addr \ {from, to} : balance'[a] = balance[a]
  <2>1. balance \in [Addr -> Int]
    BY DEF AmountsOK
  <2>2. CASE SendFromBalance(from, to, amount, t)
    <3>1. balance' = [balance EXCEPT ![from] = rest, ![to] = GetBalance(to) + amount]
      BY <2>2 DEF SendFromBalance
    <3> HIDE DEF rest
    <3> QED  BY <2>1, <3>1
  <2>3. CASE ApplyTransfer(t, from, to, amount)
    <3> DEFINE debited == [balance EXCEPT ![from] = rest]
    <3>1. balance' = [debited EXCEPT ![to] = BalanceIn(utxos, debited, to) + amount]
      BY <2>3 DEF ApplyTransfer
    <3> HIDE DEF rest
    <3> QED  BY <2>1, <3>1
  <2> QED  BY <2>2, <2>3
<1> QED  BY <1>1, <1>2, TransferExact

-----------------------------------------------------------------------------
(***************************************************************************)
(* The theorems                                                            *)
(***************************************************************************)
\* The shape of the state, the balances apart.
THEOREM LedgerShape == Spec => []ShapeOK
<1>1. IInv => ShapeOK
  <2> SUFFICES ASSUME IInv PROVE ShapeOK
    OBVIOUS
  <2>1. DOMAIN utxos \subseteq Ref /\ DOMAIN utxoSet \subseteq Ref
    BY DEF IInv, StoresOK, Holds
  <2>2. applied \in [TxId -> Nat]
    BY DEF IInv, LogOK
  <2> QED  BY <2>1, <2>2 DEF IInv, ChainOK, OthersOK, ShapeOK
<1> QED  BY <1>1, AlwaysInv, PTL

\* The legacy balances are integers besides: what is added to them are sums
\* over finite sets of amounts, which are integers too.
THEOREM LedgerTyping == Spec => []TypeOK
<1>1. IInv /\ AmountsOK => balance \in [Addr -> Int]
  BY DEF AmountsOK
<1>2. ShapeOK /\ balance \in [Addr -> Int] => TypeOK
  BY DEF TypeOK
<1> QED  BY <1>1, <1>2, LedgerShape, AlwaysAmounts, PTL

\* No output and no block of an unknown transaction, whoever calls what.
THEOREM LedgerOutputs == Spec => []OutputsAreKnown
<1>1. IInv => OutputsAreKnown
  BY DEF IInv, ChainOK, StoresOK, Holds, OutputsAreKnown
<1> QED  BY <1>1, AlwaysInv, PTL

\* The set and the individual records tell of the same outputs.
THEOREM LedgerMirrors == Spec => []SetMirrorsStore
<1>1. IInv => SetMirrorsStore
  BY DEF IInv, StoresOK, SetMirrorsStore
<1> QED  BY <1>1, AlwaysInv, PTL

\* The stored heights have no gap and nothing names a height beyond them.
THEOREM LedgerHeights == Spec => []HeightsHaveNoGap
<1>1. Init => HeightsOK
  <2> SUFFICES ASSUME Init PROVE HeightsOK
    OBVIOUS
  <2>1. DOMAIN blocks = 0..0 /\ last = 0 /\ current.height = 0 /\ cli.height = 0
    BY DEF Init, Idle
  <2> QED  BY <2>1 DEF HeightsOK, UpTo
<1>2. HeightsOK => HeightsHaveNoGap
  <2> SUFFICES ASSUME NEW top \in Nat, UpTo(top) PROVE HeightsHaveNoGap
    BY DEF HeightsOK
  <2>1. Cardinality(0..top) = top + 1
    BY FS_Interval
  <2>2. (top + 1) - 1 = top
    OBVIOUS
  <2> QED  BY <2>1, <2>2 DEF UpTo, HeightsHaveNoGap
<1> QED  BY <1>1, <1>2, HeightsStep, AlwaysInv, PTL DEF Spec

\* Spent outputs stay spent and no record changes amount or owner.
THEOREM LedgerSpent == Spec => SpentStaysSpent
<1>1. IInv /\ [Next]_vars => OnlyGrows(utxos, utxos')
  BY NextGood DEF Good
<1> QED  BY <1>1, AlwaysInv, PTL DEF Spec, SpentStaysSpent

\* A transfer takes its amount from the sender, gives it to the receiver and
\* touches nobody else's balance.
THEOREM LedgerTransfers == Spec => TransfersAreExact
<1> DEFINE Exact == \A from, to \in Addr, amount \in Amounts, t \in Fresh :
                      /\ from # to
                      /\ SendFromBalance(from, to, amount, t)
                         \/ ApplyTransfer(t, from, to, amount)
                      => TransferMoves(from, to, amount)
<1>1. IInv /\ AmountsOK => Exact
  BY TransferStep
<1>2. [][Exact]_vars => TransfersAreExact
  BY DEF TransfersAreExact
<1> HIDE DEF Exact
<1> QED  BY <1>1, <1>2, AlwaysAmounts, PTL DEF Spec

\* No transaction's amount is moved twice and none is forgotten: the ledger
\* implements TxLog.
THEOREM LedgerImplementsTxLog == Spec => ImplementsTxLog
<1>1. Init => Log!LogInit
  BY DEF Init, Log!LogInit
<1>2. IInv /\ [Next]_vars => [Log!LogNext]_(Log!logVars)
  BY NextGood DEF Good
<1> QED  BY <1>1, <1>2, AlwaysInv, PTL DEF Spec, ImplementsTxLog, Log!LogSpec
=============================================================================
