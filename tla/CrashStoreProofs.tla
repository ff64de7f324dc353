-------------------------- MODULE CrashStoreProofs ---------------------------
(***************************************************************************)
(* What a stop between any two writes leaves behind, for every number of   *)
(* transactions, blocks, messages and stops.  The invariant says, for each *)
(* place in each method, which of its writes have been made.               *)
(***************************************************************************)
EXTENDS CrashStore, TLAPS

Kind == {"tx", "pay", "block", "figure", "send", "reply"}
Link == {"us", "peer"} \X TxId

\* Where the methods have the block's three writes, the new current block,
\* and their end.
BlockAt(k) == IF k = "block" THEN 4 ELSE IF k = "reply" THEN 3 ELSE 1
FinishAt(k) == IF k \in {"tx", "block"} THEN 7 ELSE IF k = "reply" THEN 6 ELSE 4
EndAt(k) == IF k \in {"block", "reply"} THEN 8 ELSE IF k = "figure" THEN 6 ELSE 7

OpOK ==
    \/ op = NoOp
    \/ op \in [kind : Kind, tx : TxId, pc : Nat, hash : Seq(Link)]
       /\ op.pc \in DOMAIN Program[op.kind]

ShapeOK ==
    /\ TypeOK /\ OpOK
    /\ blocks \in [DOMAIN blocks -> Seq(Link)] /\ DOMAIN blocks \subseteq Nat
    /\ current \in Seq(Link)
    /\ messages \in Nat /\ paid \in Nat /\ cuts \in Nat

\* Every height of the chain c is stored, with the block c has there.
Stored(c) ==
    \A h \in 0..Len(c) :
        h \in DOMAIN blocks /\ \A i \in 1..h : blocks[h][i] = c[i]

\* The block on the disk is the current one, or a child of it whose method
\* was refused or stopped before the memory followed.
ChainOK ==
    /\ Stored(current)
    /\ last \in {Len(current), Len(current) + 1}
    /\ last \in DOMAIN blocks /\ Stored(blocks[last])
    /\ Running =>
        /\ op.pc <= FinishAt(op.kind) =>
              Len(op.hash) = Len(current) + 1
              /\ \A i \in 1..Len(current) : op.hash[i] = current[i]
        /\ op.pc > FinishAt(op.kind) => op.hash = current
        /\ op.pc > BlockAt(op.kind) =>
              Len(op.hash) \in DOMAIN blocks /\ blocks[Len(op.hash)] = op.hash
        /\ op.pc > BlockAt(op.kind) + 1 => last = Len(op.hash)

\* The key is there before any output, and before AddBlock saves its block,
\* but not before its balances; only AddBlock moves an amount from SYSTEM.
KeysOK ==
    /\ outs \subseteq txKeys
    /\ Running /\ op.pc > BlockAt(op.kind) + 2 => op.tx \in txKeys
    /\ Running /\ op.kind = "block" /\ op.pc >= 4 => op.tx \in txKeys
    /\ Running /\ op.kind = "block" /\ op.pc <= 3 => op.tx \notin txKeys
    /\ Running /\ op.tx \in FromSystem => op.kind \notin {"tx", "pay"}

\* The running method has yet to make the debit of t.
Owed(t) ==
    /\ Running /\ op.tx = t
    /\ \/ op.kind = "tx" /\ op.pc <= 4
       \/ op.kind = "pay" /\ op.pc <= 5
       \/ op.kind = "block" /\ op.pc = 1

\* A debit of t has its excuse: the key says that it was made, or AddBlock has
\* just made it and comes to the key next.
Excused(t) ==
    \/ t \in txKeys /\ ~Owed(t)
    \/ Running /\ op.tx = t /\ op.kind = "block" /\ op.pc > 1

AtCredit(t) ==
    /\ Running /\ op.tx = t
    /\ \/ op.kind = "tx" /\ op.pc = 5
       \/ op.kind = "pay" /\ op.pc = 6
       \/ op.kind = "block" /\ op.pc = 2

\* The same for a credit that no debit bounds.
ExcusedCredit(t) ==
    \/ t \in txKeys
    \/ Running /\ op.tx = t /\ op.kind = "block" /\ op.pc > 2

DebitsOK ==
    \A t \in TxId :
        /\ debits[t] <= cuts + 1
        /\ ~Excused(t) => debits[t] <= cuts

CreditsOK ==
    \A t \in TxId :
        /\ t \notin FromSystem =>
            credits[t] <= debits[t] /\ (AtCredit(t) => credits[t] < debits[t])
        /\ t \in FromSystem =>
            credits[t] <= cuts + 1 /\ (~ExcusedCredit(t) => credits[t] <= cuts)

CountsOK == DebitsOK /\ CreditsOK

\* A message that was stored and not yet promised, or a promise erased and not
\* yet paid, is worth one reward more.
RewardsOK ==
    /\ paid + (IF saved THEN 1 ELSE 0) <= messages
    /\ (IF Running THEN op.kind \notin {"send", "reply"} ELSE TRUE) => promised = saved
    /\ Running /\ op.kind = "send" =>
        /\ op.pc <= 6 => promised = saved
        /\ op.pc = 7 => promised
        /\ op.pc \in {6, 7} => paid + (IF saved THEN 1 ELSE 0) + 1 <= messages
    /\ Running /\ op.kind = "reply" =>
        /\ op.pc = 1 => promised /\ saved
        /\ op.pc = 2 => ~promised /\ saved
        /\ op.pc >= 3 => ~promised /\ ~saved
        /\ op.pc \in 3..7 => paid + 1 <= messages

IInv == ShapeOK /\ ChainOK /\ KeysOK /\ CountsOK /\ RewardsOK

-----------------------------------------------------------------------------
\* The methods' writes by place.
LEMMA Places ==
    ASSUME NEW k \in Kind, NEW i \in DOMAIN Program[k]
    PROVE  /\ i \in 1..EndAt(k) /\ Len(Program[k]) = EndAt(k)
           /\ Program[k][i] = "putBlock" <=> i = BlockAt(k)
           /\ Program[k][i] = "putLast" <=> i = BlockAt(k) + 1
           /\ Program[k][i] = "putTx" <=> i = BlockAt(k) + 2
           /\ Program[k][i] = "finish" <=> i = FinishAt(k)
           /\ Program[k][i] = "debit" <=>
                <<k, i>> \in {<<"tx", 4>>, <<"pay", 5>>, <<"block", 1>>}
           /\ Program[k][i] = "credit" <=>
                <<k, i>> \in {<<"tx", 5>>, <<"pay", 6>>, <<"block", 2>>}
           /\ Program[k][i] = "markTx" <=> <<k, i>> \in {<<"block", 3>>, <<"figure", 5>>}
           /\ Program[k][i] = "outputs" <=>
                <<k, i>> \in {<<"tx", 6>>, <<"pay", 7>>, <<"figure", 6>>, <<"reply", 7>>}
           /\ Program[k][i] = "markBlock" <=> <<k, i>> = <<"block", 8>>
           /\ Program[k][i] = "message" <=> <<k, i>> \in {<<"send", 5>>, <<"reply", 8>>}
           /\ Program[k][i] = "promise" <=> <<k, i>> = <<"send", 6>>
           /\ Program[k][i] = "forget" <=> <<k, i>> = <<"reply", 1>>
           /\ Program[k][i] = "savePending" <=>
                <<k, i>> \in {<<"send", 7>>, <<"reply", 2>>}
<1> USE DEF BlockAt, FinishAt, EndAt
<1>1. CASE k = "tx"
  BY <1>1 DEF Program, ProcessTransactionPuts
<1>2. CASE k = "pay"
  BY <1>2 DEF Program, SendCoinsPuts
<1>3. CASE k = "block"
  BY <1>3 DEF Program, AddBlockPuts
<1>4. CASE k = "figure"
  BY <1>4 DEF Program, UpdateBalancePuts
<1>5. CASE k = "send"
  BY <1>5 DEF Program, SendMessagePuts
<1>6. CASE k = "reply"
  BY <1>6 DEF Program, ResponsePuts
<1> QED
  BY <1>1, <1>2, <1>3, <1>4, <1>5, <1>6 DEF Kind

LEMMA Lengths == \A k \in Kind : DOMAIN Program[k] = 1..EndAt(k)
<1> SUFFICES ASSUME NEW k \in Kind PROVE DOMAIN Program[k] = 1..EndAt(k)
  OBVIOUS
<1> USE DEF EndAt
<1>1. CASE k = "tx"
  BY <1>1 DEF Program, ProcessTransactionPuts
<1>2. CASE k = "pay"
  BY <1>2 DEF Program, SendCoinsPuts
<1>3. CASE k = "block"
  BY <1>3 DEF Program, AddBlockPuts
<1>4. CASE k = "figure"
  BY <1>4 DEF Program, UpdateBalancePuts
<1>5. CASE k = "send"
  BY <1>5 DEF Program, SendMessagePuts
<1>6. CASE k = "reply"
  BY <1>6 DEF Program, ResponsePuts
<1> QED
  BY <1>1, <1>2, <1>3, <1>4, <1>5, <1>6 DEF Kind

-----------------------------------------------------------------------------
\* A method goes on: it is over, or at its next write.
LEMMA Advancing ==
    ASSUME ShapeOK, Running, Advance
    PROVE  /\ op.kind \in Kind /\ op.tx \in TxId /\ op.hash \in Seq(Link)
           /\ op.pc \in DOMAIN Program[op.kind] /\ op.pc \in 1..EndAt(op.kind)
           /\ OpOK'
           /\ \/ op' = NoOp /\ ~Running' /\ op.pc = EndAt(op.kind)
              \/ /\ Running' /\ op'.pc = op.pc + 1 /\ op.pc < EndAt(op.kind)
                 /\ op'.kind = op.kind /\ op'.tx = op.tx /\ op'.hash = op.hash
<1>1. /\ op \in [kind : Kind, tx : TxId, pc : Nat, hash : Seq(Link)]
      /\ op.pc \in DOMAIN Program[op.kind]
  BY DEF ShapeOK, OpOK, Running, NoOp
<1>2. op.pc \in 1..EndAt(op.kind) /\ Len(Program[op.kind]) = EndAt(op.kind)
  BY <1>1, Places
<1>3. CASE op.pc = EndAt(op.kind)
  <2>1. op' = NoOp
    BY <1>2, <1>3 DEF Advance
  <2> QED
    BY <1>1, <1>2, <1>3, <2>1 DEF OpOK, Running, NoOp
<1>4. CASE op.pc # EndAt(op.kind)
  <2>1. op' = [op EXCEPT !.pc = @ + 1]
    BY <1>2, <1>4 DEF Advance
  <2>2. /\ op' \in [kind : Kind, tx : TxId, pc : Nat, hash : Seq(Link)]
        /\ op'.pc = op.pc + 1 /\ op.pc < EndAt(op.kind)
        /\ op'.kind = op.kind /\ op'.tx = op.tx /\ op'.hash = op.hash
    BY <1>1, <1>2, <1>4, <2>1 DEF EndAt
  <2>3. op'.pc \in DOMAIN Program[op'.kind]
    <3>1. DOMAIN Program[op.kind] = 1..EndAt(op.kind)
      BY <1>1, Lengths
    <3> QED
      BY <1>2, <2>2, <3>1 DEF EndAt
  <2>4. Running'
    BY <1>1, <2>2 DEF Running, Kind
  <2> QED
    BY <1>1, <1>2, <2>2, <2>3, <2>4 DEF OpOK
<1> QED
  BY <1>3, <1>4

\* A method begins, on an unfinished chain of which its block is the end.
LEMMA Starting ==
    ASSUME IInv, ~Running, NEW k \in Kind, NEW t \in TxId,
           NEW maker \in {"us", "peer"}, NEW i \in 1..4,
           op' = [kind |-> k, tx |-> t, pc |-> i, hash |-> Append(current, <<maker, t>>)],
           i = 4 => t \in txKeys, i < 4 => t \notin txKeys,
           i > 1 => k = "block", i = 2 => t \in FromSystem,
           t \in FromSystem => k \notin {"tx", "pay"},
           k = "reply" => promised,
           UNCHANGED <<disk, memory, history>>
    PROVE  IInv'
<1> USE DEF disk, memory, history
<1>1. Append(current, <<maker, t>>) \in Seq(Link)
  BY DEF IInv, ShapeOK, Link
<1>2. i \in DOMAIN Program[k]
  BY Lengths DEF Kind, EndAt
<1>3. OpOK' /\ Running'
  BY <1>1, <1>2 DEF OpOK, Running, Kind
<1>4. ShapeOK'
  BY <1>3 DEF IInv, ShapeOK, TypeOK, OpOK, NoOp, Running
<1>5. ChainOK'
  <2>1. /\ Len(op'.hash) = Len(current) + 1
        /\ \A j \in 1..Len(current) : op'.hash[j] = current[j]
    BY DEF IInv, ShapeOK
  <2>2. op'.pc <= BlockAt(op'.kind) /\ op'.pc <= FinishAt(op'.kind)
    BY DEF BlockAt, FinishAt, Kind
  <2>3. BlockAt(op'.kind) \in Nat /\ FinishAt(op'.kind) \in Nat /\ op'.pc \in Nat
    BY DEF BlockAt, FinishAt
  <2>4. Stored(current)' /\ Stored(blocks[last])'
    BY DEF IInv, ChainOK, Stored
  <2>5. last' \in {Len(current'), Len(current') + 1} /\ last' \in DOMAIN blocks'
    BY DEF IInv, ChainOK
  <2> QED
    BY <2>1, <2>2, <2>3, <2>4, <2>5 DEF ChainOK
<1>6. KeysOK'
  BY <1>3 DEF IInv, KeysOK, BlockAt, Kind
<1>7. CountsOK'
  BY SMTT(30), <1>3 DEF IInv, CountsOK, DebitsOK, CreditsOK, Excused, ExcusedCredit,
     Owed, AtCredit, ShapeOK, TypeOK, Kind
<1>8. RewardsOK'
  BY <1>3 DEF IInv, RewardsOK, ShapeOK, TypeOK, Kind
<1> QED
  BY <1>4, <1>5, <1>6, <1>7, <1>8 DEF IInv

-----------------------------------------------------------------------------
\* What a write has to say of the method that makes it.
LEMMA Writing ==
    ASSUME ShapeOK, NEW step, At(step), Advance
    PROVE  /\ Running /\ op.kind \in Kind /\ op.tx \in TxId /\ op.hash \in Seq(Link)
           /\ Program[op.kind][op.pc] = step
           /\ op.pc \in DOMAIN Program[op.kind] /\ op.pc \in 1..EndAt(op.kind)
           /\ OpOK'
           /\ \/ op' = NoOp /\ ~Running' /\ op.pc = EndAt(op.kind)
              \/ /\ Running' /\ op'.pc = op.pc + 1 /\ op.pc < EndAt(op.kind)
                 /\ op'.kind = op.kind /\ op'.tx = op.tx /\ op'.hash = op.hash
<1>1. Running /\ Program[op.kind][op.pc] = step
  BY DEF At
<1> QED
  BY <1>1, Advancing

\* ChainOK across a write that leaves chain, disk and memory.
LEMMA QuietChain ==
    ASSUME IInv, NEW step, At(step), Advance,
           step \notin {"putBlock", "putLast", "finish"},
           UNCHANGED <<blocks, last, current>>
    PROVE  ChainOK'
<1> DEFINE k == op.kind
<1>1. /\ Running /\ k \in Kind /\ op.pc \in 1..EndAt(k) /\ op.pc \in DOMAIN Program[k]
      /\ Program[k][op.pc] = step
      /\ \/ ~Running'
         \/ /\ Running' /\ op'.pc = op.pc + 1
            /\ op'.kind = op.kind /\ op'.tx = op.tx /\ op'.hash = op.hash
  BY Writing DEF IInv
<1>2. op.pc # BlockAt(k) /\ op.pc # BlockAt(k) + 1 /\ op.pc # FinishAt(k)
  BY <1>1, Places
<1>3. Stored(current)' /\ Stored(blocks[last])'
  BY DEF IInv, ChainOK, Stored
<1>4. last' \in {Len(current'), Len(current') + 1} /\ last' \in DOMAIN blocks'
  BY DEF IInv, ChainOK
<1>5. BlockAt(k) \in Nat /\ FinishAt(k) \in Nat /\ op.pc \in Nat
  BY <1>1 DEF BlockAt, FinishAt
<1>6. CASE ~Running'
  BY <1>3, <1>4, <1>6 DEF ChainOK
<1>7. CASE Running'
  <2>1. op'.pc = op.pc + 1 /\ op'.kind = k /\ op'.hash = op.hash
    BY <1>1, <1>7
  <2>2. /\ op'.pc <= FinishAt(k) => op.pc <= FinishAt(k)
        /\ op'.pc > FinishAt(k) => op.pc > FinishAt(k)
        /\ op'.pc > BlockAt(k) => op.pc > BlockAt(k)
        /\ op'.pc > BlockAt(k) + 1 => op.pc > BlockAt(k) + 1
    BY <1>2, <1>5, <2>1
  <2>3. /\ op.pc <= FinishAt(op.kind) =>
              Len(op.hash) = Len(current) + 1
              /\ \A i \in 1..Len(current) : op.hash[i] = current[i]
        /\ op.pc > FinishAt(op.kind) => op.hash = current
        /\ op.pc > BlockAt(op.kind) =>
              Len(op.hash) \in DOMAIN blocks /\ blocks[Len(op.hash)] = op.hash
        /\ op.pc > BlockAt(op.kind) + 1 => last = Len(op.hash)
    BY <1>1 DEF IInv, ChainOK
  <2> HIDE DEF k
  <2> QED
    BY <1>3, <1>4, <2>1, <2>2, <2>3 DEF ChainOK, k
<1> QED
  BY <1>6, <1>7

\* The same for the keys, the counts and the rewards, and writes that leave
\* what these are about.
LEMMA QuietKeys ==
    ASSUME IInv, NEW step, At(step), Advance, step \notin {"putTx", "markTx", "outputs"},
           UNCHANGED <<outs, txKeys>>
    PROVE  KeysOK'
<1> DEFINE k == op.kind
<1>1. /\ Running /\ k \in Kind /\ op.pc \in 1..EndAt(k) /\ op.pc \in DOMAIN Program[k]
      /\ Program[k][op.pc] = step
      /\ \/ ~Running'
         \/ /\ Running' /\ op'.pc = op.pc + 1
            /\ op'.kind = op.kind /\ op'.tx = op.tx /\ op'.hash = op.hash
  BY Writing DEF IInv
<1>2. op.pc # BlockAt(k) + 2 /\ (k = "block" => op.pc # 3)
  BY <1>1, Places
<1> QED
  BY <1>1, <1>2 DEF IInv, KeysOK, BlockAt, Kind

LEMMA QuietCounts ==
    ASSUME IInv, NEW step, At(step), Advance, step \notin {"debit", "credit"},
           txKeys \subseteq txKeys',
           txKeys' \subseteq txKeys \cup {op.tx},
           UNCHANGED <<debits, credits, cuts>>
    PROVE  CountsOK'
<1> DEFINE k == op.kind
<1>1. /\ Running /\ k \in Kind /\ op.pc \in 1..EndAt(k) /\ op.pc \in DOMAIN Program[k]
      /\ Program[k][op.pc] = step
      /\ \/ ~Running' /\ op.pc = EndAt(k)
         \/ /\ Running' /\ op'.pc = op.pc + 1
            /\ op'.kind = op.kind /\ op'.tx = op.tx /\ op'.hash = op.hash
  BY Writing DEF IInv
<1>2. /\ <<k, op.pc>> \notin {<<"tx", 4>>, <<"pay", 5>>, <<"block", 1>>}
      /\ <<k, op.pc>> \notin {<<"tx", 5>>, <<"pay", 6>>, <<"block", 2>>}
  BY <1>1, Places
<1>3. k = "block" /\ op.pc >= 4 => op.tx \in txKeys
  BY <1>1 DEF IInv, KeysOK
<1>4. op.pc \in Nat /\ op.pc <= 8
  BY <1>1 DEF EndAt
<1>5. ASSUME NEW t \in TxId
      PROVE  /\ ~Excused(t)' => ~Excused(t)
             /\ ~ExcusedCredit(t)' => ~ExcusedCredit(t)
             /\ AtCredit(t)' => AtCredit(t)
  BY <1>1, <1>2, <1>3, <1>4 DEF Excused, ExcusedCredit, Owed, AtCredit, EndAt
<1> QED
  BY <1>5 DEF IInv, CountsOK, DebitsOK, CreditsOK

LEMMA QuietRewards ==
    ASSUME IInv, NEW step, At(step), Advance,
           step \notin {"message", "promise", "forget", "savePending", "outputs"},
           UNCHANGED <<messages, promised, saved, paid>>
    PROVE  RewardsOK'
<1> DEFINE k == op.kind
<1>1. /\ Running /\ k \in Kind /\ op.pc \in 1..EndAt(k) /\ op.pc \in DOMAIN Program[k]
      /\ Program[k][op.pc] = step
      /\ \/ ~Running' /\ op.pc = EndAt(k)
         \/ /\ Running' /\ op'.pc = op.pc + 1
            /\ op'.kind = op.kind /\ op'.tx = op.tx /\ op'.hash = op.hash
  BY Writing DEF IInv
<1>2. <<k, op.pc>> \notin {<<"send", 5>>, <<"reply", 8>>, <<"send", 6>>, <<"reply", 1>>,
                          <<"send", 7>>, <<"reply", 2>>, <<"reply", 7>>}
  BY <1>1, Places
<1> QED
  BY <1>1, <1>2 DEF IInv, RewardsOK, EndAt

-----------------------------------------------------------------------------
\* The writes, one by one.
LEMMA PutBlockIInv == ASSUME IInv, PutBlock PROVE IInv'
<1> DEFINE k == op.kind
           n == Len(op.hash)
<1>1. /\ Running /\ k \in Kind /\ op.hash \in Seq(Link) /\ op.pc = BlockAt(k) /\ OpOK'
      /\ \/ ~Running'
         \/ /\ Running' /\ op'.pc = op.pc + 1
            /\ op'.kind = op.kind /\ op'.tx = op.tx /\ op'.hash = op.hash
  BY Writing, Places DEF IInv, PutBlock
<1>2. n = Len(current) + 1 /\ \A i \in 1..Len(current) : op.hash[i] = current[i]
  <2>1. op.pc <= FinishAt(k)
    BY <1>1 DEF BlockAt, FinishAt, Kind
  <2> QED
    BY <1>1, <2>1 DEF IInv, ChainOK
<1>3. current \in Seq(Link) /\ Len(current) \in Nat /\ n \in Nat
  BY <1>1 DEF IInv, ShapeOK
<1>4. blocks' = [h \in DOMAIN blocks \cup {n} |-> IF h = n THEN op.hash ELSE blocks[h]]
  BY DEF PutBlock, Height
<1> HIDE DEF n
<1>5. DOMAIN blocks' = DOMAIN blocks \cup {n} /\ blocks'[n] = op.hash
  BY <1>4
<1>6. \A h \in 0..Len(current) : h \in DOMAIN blocks' /\ blocks'[h] = blocks[h]
  BY <1>2, <1>3, <1>4 DEF IInv, ChainOK, Stored
<1>7. UNCHANGED <<last, current, txKeys, outs, debits, credits, cuts, messages, promised,
                  saved, paid>>
  BY DEF PutBlock, memory, history
<1>8. ShapeOK'
  <2>1. \A h \in DOMAIN blocks' : blocks'[h] \in Seq(Link) /\ Len(blocks'[h]) = h
    BY <1>1, <1>4 DEF IInv, ShapeOK, TypeOK, Height, n
  <2>2. blocks' \in [DOMAIN blocks' -> Seq(Link)] /\ DOMAIN blocks' \subseteq Nat
    BY <1>3, <1>4, <1>5, <2>1 DEF IInv, ShapeOK
  <2> QED
    BY <1>1, <1>7, <2>1, <2>2 DEF IInv, ShapeOK, TypeOK, Height, OpOK, NoOp, Running
<1>9. ChainOK'
  <2>1. Stored(current)'
    BY <1>6, <1>7 DEF IInv, ChainOK, Stored
  <2>2. last' \in {Len(current'), Len(current') + 1} /\ last' \in DOMAIN blocks'
    BY <1>5, <1>7 DEF IInv, ChainOK
  <2>3. Stored(blocks[last])'
    <3>1. CASE last = Len(current)
      <4>1. blocks'[last] = blocks[last] /\ Len(blocks[last]) = Len(current)
        BY <1>3, <1>6, <3>1 DEF IInv, ShapeOK, TypeOK, Height, ChainOK
      <4> QED
        BY <1>6, <1>7, <3>1, <4>1 DEF IInv, ChainOK, Stored
    <3>2. CASE last = Len(current) + 1
      <4>1. blocks'[last'] = op.hash /\ last = n
        BY <1>2, <1>5, <1>7, <3>2
      <4>2. \A h \in 0..n : h \in DOMAIN blocks' /\ \A i \in 1..h : blocks'[h][i] = op.hash[i]
        <5>1. \A h \in 0..Len(current) :
                h \in DOMAIN blocks' /\ \A i \in 1..h : blocks'[h][i] = current[i]
          BY <1>6 DEF IInv, ChainOK, Stored
        <5> QED
          BY <1>2, <1>3, <1>5, <5>1
      <4> QED
        BY <4>1, <4>2 DEF Stored, n
    <3> QED
      BY <3>1, <3>2 DEF IInv, ChainOK
  <2>4. CASE ~Running'
    BY <2>1, <2>2, <2>3, <2>4 DEF ChainOK
  <2>5. CASE Running'
    <3>1. /\ op'.pc <= FinishAt(op'.kind) /\ ~(op'.pc > BlockAt(op'.kind) + 1)
          /\ op'.hash = op.hash
      BY <1>1, <2>5 DEF BlockAt, FinishAt, Kind
    <3>2. BlockAt(op'.kind) \in Nat /\ FinishAt(op'.kind) \in Nat /\ op'.pc \in Nat
      BY <1>1, <2>5 DEF BlockAt, FinishAt
    <3> QED
      BY <1>2, <1>5, <1>7, <2>1, <2>2, <2>3, <3>1, <3>2 DEF ChainOK, n
  <2> QED
    BY <2>4, <2>5
<1>10. KeysOK' /\ CountsOK' /\ RewardsOK'
  BY <1>7, QuietKeys, QuietCounts, QuietRewards DEF PutBlock
<1> QED
  BY <1>8, <1>9, <1>10 DEF IInv

LEMMA PutLastIInv == ASSUME IInv, PutLast PROVE IInv'
<1> DEFINE k == op.kind
<1>1. /\ Running /\ k \in Kind /\ op.hash \in Seq(Link) /\ op.pc = BlockAt(k) + 1 /\ OpOK'
      /\ \/ ~Running'
         \/ /\ Running' /\ op'.pc = op.pc + 1
            /\ op'.kind = op.kind /\ op'.tx = op.tx /\ op'.hash = op.hash
  BY Writing, Places DEF IInv, PutLast
<1>2. /\ last' = Len(op.hash)
      /\ UNCHANGED <<blocks, current, txKeys, outs, debits, credits, cuts, messages,
                     promised, saved, paid>>
  BY DEF PutLast, Height, memory, history
<1>3. /\ Len(op.hash) = Len(current) + 1
      /\ \A i \in 1..Len(current) : op.hash[i] = current[i]
      /\ Len(op.hash) \in DOMAIN blocks /\ blocks[Len(op.hash)] = op.hash
  <2>1. op.pc <= FinishAt(k) /\ op.pc > BlockAt(k)
    BY <1>1 DEF BlockAt, FinishAt, Kind
  <2> QED
    BY <1>1, <2>1 DEF IInv, ChainOK
<1>4. ShapeOK'
  BY <1>1, <1>2 DEF IInv, ShapeOK, TypeOK, Height, OpOK, NoOp, Running
<1>5. ChainOK'
  <2>1. Stored(current)'
    BY <1>2 DEF IInv, ChainOK, Stored
  <2>2. Stored(blocks[last])'
    <3>1. \A h \in 0..Len(op.hash) :
             h \in DOMAIN blocks /\ \A i \in 1..h : blocks[h][i] = op.hash[i]
      <4>1. Len(current) \in Nat
        BY DEF IInv, ShapeOK
      <4> QED
        BY <1>3, <4>1 DEF IInv, ChainOK, Stored
    <3> QED
      BY <1>2, <1>3, <3>1 DEF Stored
  <2>3. CASE ~Running'
    BY <1>2, <1>3, <2>1, <2>2, <2>3 DEF ChainOK
  <2>4. CASE Running'
    <3>1. op'.pc <= FinishAt(op'.kind) /\ op'.hash = op.hash
      BY <1>1, <2>4 DEF BlockAt, FinishAt, Kind
    <3>2. FinishAt(op'.kind) \in Nat /\ op'.pc \in Nat
      BY <1>1, <2>4 DEF BlockAt, FinishAt
    <3> QED
      BY <1>2, <1>3, <2>1, <2>2, <3>1, <3>2 DEF ChainOK
  <2> QED
    BY <2>3, <2>4
<1>6. KeysOK' /\ CountsOK' /\ RewardsOK'
  BY <1>2, QuietKeys, QuietCounts, QuietRewards DEF PutLast
<1> QED
  BY <1>4, <1>5, <1>6 DEF IInv

LEMMA SetCurrentIInv == ASSUME IInv, SetCurrent PROVE IInv'
<1> DEFINE k == op.kind
<1>1. /\ Running /\ k \in Kind /\ op.hash \in Seq(Link) /\ op.pc = FinishAt(k) /\ OpOK'
      /\ \/ ~Running'
         \/ /\ Running' /\ op'.pc = op.pc + 1
            /\ op'.kind = op.kind /\ op'.tx = op.tx /\ op'.hash = op.hash
  BY Writing, Places DEF IInv, SetCurrent
<1>2. /\ current' = op.hash
      /\ UNCHANGED <<blocks, last, txKeys, outs, debits, credits, cuts, messages,
                     promised, saved, paid>>
  BY DEF SetCurrent, disk, history
<1>3. /\ Len(op.hash) = Len(current) + 1
      /\ \A i \in 1..Len(current) : op.hash[i] = current[i]
      /\ Len(op.hash) \in DOMAIN blocks /\ blocks[Len(op.hash)] = op.hash
      /\ last = Len(op.hash)
  <2>1. op.pc <= FinishAt(k) /\ op.pc > BlockAt(k) /\ op.pc > BlockAt(k) + 1
    BY <1>1 DEF BlockAt, FinishAt, Kind
  <2> QED
    BY <1>1, <2>1 DEF IInv, ChainOK
<1>4. ShapeOK'
  BY <1>1, <1>2 DEF IInv, ShapeOK, TypeOK, Height, OpOK, NoOp, Running
<1>5. ChainOK'
  <2>1. Stored(current)' /\ Stored(blocks[last])'
    BY <1>2, <1>3 DEF IInv, ChainOK, Stored
  <2>2. CASE ~Running'
    BY <1>2, <1>3, <2>1, <2>2 DEF ChainOK
  <2>3. CASE Running'
    <3>1. ~(op'.pc <= FinishAt(op'.kind)) /\ op'.hash = op.hash
      BY <1>1, <2>3 DEF BlockAt, FinishAt, Kind
    <3> QED
      BY <1>2, <1>3, <2>1, <3>1 DEF ChainOK
  <2> QED
    BY <2>2, <2>3
<1>6. KeysOK' /\ CountsOK' /\ RewardsOK'
  BY <1>2, QuietKeys, QuietCounts, QuietRewards DEF SetCurrent
<1> QED
  BY <1>4, <1>5, <1>6 DEF IInv

LEMMA PutTxIInv == ASSUME IInv, PutTx PROVE IInv'
<1> SUFFICES ASSUME NEW step \in {"putTx", "markTx"}, At(step), Advance PROVE IInv'
  BY DEF PutTx
<1>1. /\ Running /\ op.kind \in Kind /\ op.tx \in TxId /\ op.pc \in 1..EndAt(op.kind) /\ OpOK'
      /\ \/ op.pc = BlockAt(op.kind) + 2
         \/ <<op.kind, op.pc>> \in {<<"block", 3>>, <<"figure", 5>>}
      /\ \/ ~Running' /\ op.pc = EndAt(op.kind)
         \/ /\ Running' /\ op'.pc = op.pc + 1
            /\ op'.kind = op.kind /\ op'.tx = op.tx /\ op'.hash = op.hash
  BY Writing, Places DEF IInv, PutTx
<1>2. /\ txKeys' = txKeys \cup {op.tx}
      /\ UNCHANGED <<blocks, last, current, outs, debits, credits, cuts, messages,
                     promised, saved, paid>>
  BY DEF PutTx, memory, history
<1>3. ShapeOK'
  BY <1>1, <1>2 DEF IInv, ShapeOK, TypeOK, Height, OpOK, NoOp, Running
<1>4. KeysOK'
  BY <1>1, <1>2 DEF IInv, KeysOK, BlockAt, Kind
<1>5. ChainOK' /\ CountsOK' /\ RewardsOK'
  BY <1>2, QuietChain, QuietCounts, QuietRewards
<1> QED
  BY <1>3, <1>4, <1>5 DEF IInv

LEMMA DebitIInv == ASSUME IInv, Debit PROVE IInv'
<1>1. /\ Running /\ op.kind \in Kind /\ op.tx \in TxId /\ op.pc \in 1..EndAt(op.kind) /\ OpOK'
      /\ <<op.kind, op.pc>> \in {<<"tx", 4>>, <<"pay", 5>>, <<"block", 1>>}
      /\ \/ ~Running' /\ op.pc = EndAt(op.kind)
         \/ /\ Running' /\ op'.pc = op.pc + 1
            /\ op'.kind = op.kind /\ op'.tx = op.tx /\ op'.hash = op.hash
  BY Writing, Places DEF IInv, Debit
<1>2. /\ debits' = [debits EXCEPT ![op.tx] = @ + 1]
      /\ UNCHANGED <<blocks, last, current, txKeys, outs, credits, cuts, messages,
                     promised, saved, paid>>
  BY DEF Debit, memory, history
<1>3. ShapeOK'
  BY <1>1, <1>2 DEF IInv, ShapeOK, TypeOK, Height, OpOK, NoOp, Running
<1>4. CountsOK'
  <2> SUFFICES ASSUME NEW t \in TxId
               PROVE  /\ debits'[t] <= cuts + 1
                      /\ ~Excused(t)' => debits'[t] <= cuts
                      /\ t \notin FromSystem =>
                            credits[t] <= debits'[t] /\ (AtCredit(t)' => credits[t] < debits'[t])
                      /\ ~ExcusedCredit(t)' => ~ExcusedCredit(t)
    BY <1>2 DEF IInv, CountsOK, DebitsOK, CreditsOK
  <2>1. debits[t] \in Nat /\ credits[t] \in Nat /\ cuts \in Nat
    BY DEF IInv, ShapeOK, TypeOK
  <2>4. ~ExcusedCredit(t)' => ~ExcusedCredit(t)
    BY <1>1, <1>2 DEF ExcusedCredit
  <2>2. CASE t = op.tx
    <3>1. debits'[t] = debits[t] + 1
      BY <1>2, <2>2 DEF IInv, ShapeOK, TypeOK
    <3>2. ~Excused(t)
      BY <1>1, <2>2 DEF Excused, Owed
    <3>3. Excused(t)'
      <4>1. op.kind # "block" => op.tx \in txKeys
        BY <1>1 DEF IInv, KeysOK, BlockAt
      <4> QED
        BY <1>1, <1>2, <2>2, <4>1 DEF Excused, Owed, EndAt
    <3> QED
      BY <1>2, <2>1, <2>4, <3>1, <3>2, <3>3 DEF IInv, CountsOK, DebitsOK, CreditsOK
  <2>3. CASE t # op.tx
    <3>1. debits'[t] = debits[t]
      BY <1>2, <2>3 DEF IInv, ShapeOK, TypeOK
    <3>2. (~Excused(t)' => ~Excused(t)) /\ ~AtCredit(t)'
      BY <1>1, <1>2, <2>3 DEF Excused, Owed, AtCredit
    <3> QED
      BY <1>2, <2>4, <3>1, <3>2 DEF IInv, CountsOK, DebitsOK, CreditsOK
  <2> QED
    BY <2>2, <2>3
<1>5. ChainOK' /\ KeysOK' /\ RewardsOK'
  BY <1>2, QuietChain, QuietKeys, QuietRewards DEF Debit
<1> QED
  BY <1>3, <1>4, <1>5 DEF IInv

LEMMA RejectDebitIInv == ASSUME IInv, RejectDebit PROVE IInv'
<1>1. /\ Running /\ op.kind = "tx" /\ op.pc = 4 /\ op.tx \in TxId
      /\ op' = NoOp /\ ~Running'
  <2>1. /\ op \in [kind : Kind, tx : TxId, pc : Nat, hash : Seq(Link)]
        /\ op.pc \in DOMAIN Program[op.kind]
        /\ op.kind = "tx" /\ Program[op.kind][op.pc] = "debit"
    BY DEF RejectDebit, At, IInv, ShapeOK, OpOK, Running, NoOp
  <2> QED
    BY <2>1, Places DEF RejectDebit, At, Running, NoOp
<1>2. UNCHANGED <<blocks, last, current, txKeys, outs, debits, credits, cuts, messages,
                  promised, saved, paid>>
  BY DEF RejectDebit, disk, memory, history
<1>3. ShapeOK'
  BY <1>1, <1>2 DEF IInv, ShapeOK, TypeOK, OpOK, NoOp, Height
<1>4. ChainOK'
  BY <1>1, <1>2 DEF IInv, ChainOK, Stored
<1>5. KeysOK' /\ op.tx \in txKeys
  BY <1>1, <1>2 DEF IInv, KeysOK, BlockAt
<1>6. CountsOK'
  BY <1>1, <1>2, <1>5 DEF IInv, CountsOK, DebitsOK, CreditsOK, Excused, ExcusedCredit,
     Owed, AtCredit
<1>7. RewardsOK'
  BY <1>1, <1>2 DEF IInv, RewardsOK
<1> QED
  BY <1>3, <1>4, <1>5, <1>6, <1>7 DEF IInv

\* Past the debit and the credit, at the outputs.
LEMMA TakeInputsIInv == ASSUME IInv, TakeInputs PROVE IInv'
<1>1. /\ Running /\ op.kind = "tx" /\ op.pc = 4 /\ op.tx \in TxId
      /\ op \in [kind : Kind, tx : TxId, pc : Nat, hash : Seq(Link)]
      /\ op' = [op EXCEPT !.pc = 6]
  <2>1. /\ op \in [kind : Kind, tx : TxId, pc : Nat, hash : Seq(Link)]
        /\ op.pc \in DOMAIN Program[op.kind]
        /\ op.kind = "tx" /\ Program[op.kind][op.pc] = "debit"
    BY DEF TakeInputs, At, IInv, ShapeOK, OpOK, Running, NoOp
  <2> QED
    BY <2>1, Places DEF TakeInputs, At
<1>2. /\ op' \in [kind : Kind, tx : TxId, pc : Nat, hash : Seq(Link)]
      /\ op'.kind = "tx" /\ op'.pc = 6 /\ op'.tx = op.tx /\ op'.hash = op.hash
      /\ Running'
  BY <1>1 DEF Running
<1>3. UNCHANGED <<blocks, last, current, txKeys, outs, debits, credits, cuts, messages,
                  promised, saved, paid>>
  BY DEF TakeInputs, disk, memory, history
<1>4. ShapeOK'
  <2>1. 6 \in DOMAIN Program["tx"]
    BY Lengths DEF Kind, EndAt
  <2> QED
    BY <1>2, <1>3, <2>1 DEF IInv, ShapeOK, TypeOK, OpOK, NoOp, Height, Running
<1>5. ChainOK'
  <2>1. BlockAt("tx") = 1 /\ FinishAt("tx") = 7
    BY DEF BlockAt, FinishAt
  <2> QED
    BY <1>1, <1>2, <1>3, <2>1 DEF IInv, ChainOK, Stored
<1>6. KeysOK' /\ op.tx \in txKeys
  BY <1>1, <1>2, <1>3 DEF IInv, KeysOK, BlockAt
<1>7. CountsOK'
  BY <1>1, <1>2, <1>3, <1>6 DEF IInv, CountsOK, DebitsOK, CreditsOK, Excused,
     ExcusedCredit, Owed, AtCredit
<1>8. RewardsOK'
  BY <1>1, <1>2, <1>3 DEF IInv, RewardsOK
<1> QED
  BY <1>4, <1>5, <1>6, <1>7, <1>8 DEF IInv

LEMMA CreditIInv == ASSUME IInv, Credit PROVE IInv'
<1>1. /\ Running /\ op.kind \in Kind /\ op.tx \in TxId /\ op.pc \in 1..EndAt(op.kind) /\ OpOK'
      /\ <<op.kind, op.pc>> \in {<<"tx", 5>>, <<"pay", 6>>, <<"block", 2>>}
      /\ \/ ~Running' /\ op.pc = EndAt(op.kind)
         \/ /\ Running' /\ op'.pc = op.pc + 1
            /\ op'.kind = op.kind /\ op'.tx = op.tx /\ op'.hash = op.hash
  BY Writing, Places DEF IInv, Credit
<1>2. /\ credits' = [credits EXCEPT ![op.tx] = @ + 1]
      /\ UNCHANGED <<blocks, last, current, txKeys, outs, debits, cuts, messages,
                     promised, saved, paid>>
  BY DEF Credit, memory, history
<1>3. ShapeOK'
  BY <1>1, <1>2 DEF IInv, ShapeOK, TypeOK, Height, OpOK, NoOp, Running
<1>4. CountsOK'
  <2> SUFFICES ASSUME NEW t \in TxId
               PROVE  /\ ~Excused(t)' => ~Excused(t)
                      /\ t \notin FromSystem =>
                            credits'[t] <= debits[t] /\ (AtCredit(t)' => credits'[t] < debits[t])
                      /\ t \in FromSystem =>
                            credits'[t] <= cuts + 1
                            /\ (~ExcusedCredit(t)' => credits'[t] <= cuts)
    BY <1>2 DEF IInv, CountsOK, DebitsOK, CreditsOK
  <2>1. debits[t] \in Nat /\ credits[t] \in Nat /\ cuts \in Nat
    BY DEF IInv, ShapeOK, TypeOK
  <2>2. /\ ~AtCredit(t)' /\ (~Excused(t)' => ~Excused(t))
        /\ ~ExcusedCredit(t)' => ~ExcusedCredit(t)
    BY <1>1, <1>2 DEF Excused, ExcusedCredit, Owed, AtCredit, EndAt
  <2>3. credits'[t] = IF t = op.tx THEN credits[t] + 1 ELSE credits[t]
    BY <1>2 DEF IInv, ShapeOK, TypeOK
  <2>4. t = op.tx => AtCredit(t)
    BY <1>1 DEF AtCredit
  <2>5. t = op.tx /\ t \in FromSystem => ~ExcusedCredit(t) /\ ExcusedCredit(t)'
    BY <1>1, <1>2 DEF ExcusedCredit, IInv, KeysOK, EndAt
  <2> QED
    BY <2>1, <2>2, <2>3, <2>4, <2>5 DEF IInv, CountsOK, CreditsOK
<1>5. ChainOK' /\ KeysOK' /\ RewardsOK'
  BY <1>2, QuietChain, QuietKeys, QuietRewards DEF Credit
<1> QED
  BY <1>3, <1>4, <1>5 DEF IInv

LEMMA PutOutputsIInv == ASSUME IInv, PutOutputs PROVE IInv'
<1>1. /\ Running /\ op.kind \in Kind /\ op.tx \in TxId /\ op.pc \in 1..EndAt(op.kind) /\ OpOK'
      /\ <<op.kind, op.pc>> \in {<<"tx", 6>>, <<"pay", 7>>, <<"figure", 6>>, <<"reply", 7>>}
      /\ \/ ~Running' /\ op.pc = EndAt(op.kind)
         \/ /\ Running' /\ op'.pc = op.pc + 1
            /\ op'.kind = op.kind /\ op'.tx = op.tx /\ op'.hash = op.hash
  BY Writing, Places DEF IInv, PutOutputs
<1>2. /\ outs' = outs \cup {op.tx}
      /\ paid' = paid + IF op.kind = "reply" THEN 1 ELSE 0
      /\ UNCHANGED <<blocks, last, current, txKeys, debits, credits, cuts, messages,
                     promised, saved>>
  BY DEF PutOutputs, memory
<1>3. ShapeOK'
  BY SMTT(30), <1>1, <1>2 DEF IInv, ShapeOK, TypeOK, Height, OpOK, NoOp, Running
<1>4. KeysOK'
  BY <1>1, <1>2 DEF IInv, KeysOK, BlockAt
<1>5. RewardsOK'
  <2>1. CASE op.kind = "reply"
    <3>1. op.pc = 7 /\ Running' /\ op'.pc = 8 /\ op'.kind = "reply"
      BY <1>1, <2>1 DEF EndAt
    <3>2. ~promised /\ ~saved /\ paid + 1 <= messages
      BY <1>1, <2>1, <3>1 DEF IInv, RewardsOK
    <3>3. paid' = paid + 1 /\ ~promised' /\ ~saved' /\ messages' = messages
      BY <1>2, <2>1, <3>2
    <3>4. paid' + (IF saved' THEN 1 ELSE 0) <= messages'
      BY <3>2, <3>3 DEF IInv, ShapeOK
    <3> QED
      BY <3>1, <3>3, <3>4 DEF RewardsOK
  <2>2. CASE op.kind # "reply"
    <3>1. op.kind \notin {"send", "reply"} /\ (Running' => op'.kind = op.kind)
      BY <1>1, <2>2
    <3>2. paid' = paid
      BY <1>2, <2>2 DEF IInv, ShapeOK
    <3> QED
      BY <1>2, <3>1, <3>2 DEF IInv, RewardsOK
  <2> QED
    BY <2>1, <2>2
<1>6. ChainOK' /\ CountsOK'
  BY <1>2, QuietChain, QuietCounts DEF PutOutputs
<1> QED
  BY <1>3, <1>4, <1>5, <1>6 DEF IInv

LEMMA MarkBlockIInv == ASSUME IInv, MarkBlock PROVE IInv'
<1>1. /\ Running /\ op.kind \in Kind /\ op.tx \in TxId /\ op.pc \in 1..EndAt(op.kind) /\ OpOK'
      /\ \/ ~Running' /\ op.pc = EndAt(op.kind)
         \/ /\ Running' /\ op'.pc = op.pc + 1
            /\ op'.kind = op.kind /\ op'.tx = op.tx /\ op'.hash = op.hash
  BY Writing, Places DEF IInv, MarkBlock
<1>2. UNCHANGED <<blocks, last, current, txKeys, outs, debits, credits, cuts, messages,
                  promised, saved, paid>>
  BY DEF MarkBlock, memory, history
<1>3. ShapeOK'
  BY <1>1, <1>2 DEF IInv, ShapeOK, TypeOK, Height, OpOK, NoOp, Running
<1>4. ChainOK' /\ KeysOK' /\ CountsOK' /\ RewardsOK'
  BY <1>2, QuietChain, QuietKeys, QuietCounts, QuietRewards DEF MarkBlock
<1> QED
  BY <1>3, <1>4 DEF IInv

LEMMA SaveMessageIInv == ASSUME IInv, SaveMessage PROVE IInv'
<1>1. /\ Running /\ op.kind \in Kind /\ op.tx \in TxId /\ op.pc \in 1..EndAt(op.kind) /\ OpOK'
      /\ <<op.kind, op.pc>> \in {<<"send", 5>>, <<"reply", 8>>}
      /\ \/ ~Running' /\ op.pc = EndAt(op.kind)
         \/ /\ Running' /\ op'.pc = op.pc + 1 /\ op.pc < EndAt(op.kind)
            /\ op'.kind = op.kind /\ op'.tx = op.tx /\ op'.hash = op.hash
  BY Writing, Places DEF IInv, SaveMessage
<1>2. /\ messages' = messages + IF op.kind = "send" THEN 1 ELSE 0
      /\ UNCHANGED <<blocks, last, current, txKeys, outs, debits, credits, cuts,
                     promised, saved, paid>>
  BY DEF SaveMessage, memory, history
<1>3. ShapeOK'
  BY SMTT(30), <1>1, <1>2 DEF IInv, ShapeOK, TypeOK, Height, OpOK, NoOp, Running
<1>4. RewardsOK'
  <2>1. CASE op.kind = "send"
    <3>1. op.pc = 5 /\ Running' /\ op'.pc = 6 /\ op'.kind = "send"
      BY <1>1, <2>1 DEF EndAt
    <3>2. promised = saved /\ paid + (IF saved THEN 1 ELSE 0) <= messages
      BY <1>1, <2>1, <3>1 DEF IInv, RewardsOK
    <3>3. messages' = messages + 1 /\ paid' = paid /\ saved' = saved /\ promised' = promised
      BY <1>2, <2>1
    <3>4. paid' + (IF saved' THEN 1 ELSE 0) + 1 <= messages'
      BY <3>2, <3>3 DEF IInv, ShapeOK
    <3>5. paid' + (IF saved' THEN 1 ELSE 0) <= messages'
      BY <3>4, <3>3 DEF IInv, ShapeOK
    <3> QED
      BY <3>1, <3>2, <3>3, <3>4, <3>5 DEF RewardsOK
  <2>2. CASE op.kind = "reply"
    <3>1. ~Running' /\ op.pc = 8
      BY <1>1, <2>2 DEF EndAt
    <3>2. ~promised /\ ~saved
      BY <1>1, <2>2, <3>1 DEF IInv, RewardsOK
    <3>3. messages' = messages
      BY <1>2, <2>2 DEF IInv, ShapeOK
    <3>4. promised = saved
      BY <3>2 DEF IInv, ShapeOK, TypeOK
    <3> QED
      BY <1>2, <3>1, <3>3, <3>4 DEF IInv, RewardsOK
  <2> QED
    BY <1>1, <2>1, <2>2
<1>5. ChainOK' /\ KeysOK' /\ CountsOK'
  BY <1>2, QuietChain, QuietKeys, QuietCounts DEF SaveMessage
<1> QED
  BY <1>3, <1>4, <1>5 DEF IInv

LEMMA SetPromiseIInv == ASSUME IInv, SetPromise PROVE IInv'
<1> SUFFICES ASSUME NEW step \in {"promise", "forget"}, At(step), Advance PROVE IInv'
  BY DEF SetPromise
<1>1. /\ Running /\ op.kind \in Kind /\ op.tx \in TxId /\ op.pc \in 1..EndAt(op.kind) /\ OpOK'
      /\ <<op.kind, op.pc>> = IF step = "promise" THEN <<"send", 6>> ELSE <<"reply", 1>>
      /\ \/ ~Running' /\ op.pc = EndAt(op.kind)
         \/ /\ Running' /\ op'.pc = op.pc + 1
            /\ op'.kind = op.kind /\ op'.tx = op.tx /\ op'.hash = op.hash
  BY Writing, Places DEF IInv, SetPromise
<1>2. /\ promised' = (step = "promise")
      /\ UNCHANGED <<blocks, last, current, txKeys, outs, debits, credits, cuts,
                     messages, saved, paid>>
  BY DEF SetPromise, At, disk, history
<1>3. ShapeOK'
  BY <1>1, <1>2 DEF IInv, ShapeOK, TypeOK, Height, OpOK, NoOp, Running
<1>4. RewardsOK'
  <2>1. CASE step = "promise"
    <3>1. op.kind = "send" /\ op.pc = 6 /\ Running' /\ op'.pc = 7 /\ op'.kind = "send"
      BY <1>1, <2>1 DEF EndAt
    <3>2. paid + (IF saved THEN 1 ELSE 0) <= messages
          /\ paid + (IF saved THEN 1 ELSE 0) + 1 <= messages
      BY <1>1, <3>1 DEF IInv, RewardsOK
    <3>3. promised'
      BY <1>2, <2>1
    <3>4. UNCHANGED <<messages, saved, paid>>
      BY <1>2
    <3> QED
      BY <3>1, <3>2, <3>3, <3>4 DEF RewardsOK
  <2>2. CASE step = "forget"
    <3>1. op.kind = "reply" /\ op.pc = 1 /\ Running' /\ op'.pc = 2 /\ op'.kind = "reply"
      BY <1>1, <2>2 DEF EndAt
    <3>2. saved /\ paid + (IF saved THEN 1 ELSE 0) <= messages
      BY <1>1, <3>1 DEF IInv, RewardsOK
    <3>3. ~promised'
      BY <1>2, <2>2
    <3>4. UNCHANGED <<messages, saved, paid>>
      BY <1>2
    <3> QED
      BY <3>1, <3>2, <3>3, <3>4 DEF RewardsOK
  <2> QED
    BY <2>1, <2>2
<1>5. ChainOK' /\ KeysOK' /\ CountsOK'
  BY <1>2, QuietChain, QuietKeys, QuietCounts
<1> QED
  BY <1>3, <1>4, <1>5 DEF IInv

LEMMA SavePendingRewardsIInv == ASSUME IInv, SavePendingRewards PROVE IInv'
<1>1. /\ Running /\ op.kind \in Kind /\ op.tx \in TxId /\ op.pc \in 1..EndAt(op.kind) /\ OpOK'
      /\ <<op.kind, op.pc>> \in {<<"send", 7>>, <<"reply", 2>>}
      /\ \/ ~Running' /\ op.pc = EndAt(op.kind)
         \/ /\ Running' /\ op'.pc = op.pc + 1
            /\ op'.kind = op.kind /\ op'.tx = op.tx /\ op'.hash = op.hash
  BY Writing, Places DEF IInv, SavePendingRewards
<1>2. /\ saved' = promised
      /\ UNCHANGED <<blocks, last, current, txKeys, outs, debits, credits, cuts,
                     messages, promised, paid>>
  BY DEF SavePendingRewards, memory, history
<1>3. ShapeOK'
  BY <1>1, <1>2 DEF IInv, ShapeOK, TypeOK, Height, OpOK, NoOp, Running
<1>4. RewardsOK'
  BY SMTT(30), <1>1, <1>2 DEF IInv, RewardsOK, EndAt, ShapeOK, TypeOK
<1>5. ChainOK' /\ KeysOK' /\ CountsOK'
  BY <1>2, QuietChain, QuietKeys, QuietCounts DEF SavePendingRewards
<1> QED
  BY <1>3, <1>4, <1>5 DEF IInv

\* A stop makes the disk's block the current one, its promise the promise.
LEMMA CrashAndRestartIInv == ASSUME IInv, CrashAndRestart PROVE IInv'
<1>1. /\ op' = NoOp /\ ~Running'
      /\ current' = blocks[last] /\ promised' = saved
      /\ cuts' = cuts + IF op.kind = "block" THEN 1 ELSE 0
      /\ UNCHANGED <<blocks, last, txKeys, outs, debits, credits, messages, saved, paid>>
  BY DEF CrashAndRestart, disk, Running, NoOp
<1>2. last \in DOMAIN blocks /\ Len(blocks[last]) = last /\ blocks[last] \in Seq(Link)
  BY DEF IInv, ShapeOK, TypeOK, ChainOK, Height
<1>3. ShapeOK'
  <2>1. cuts' \in Nat
    BY <1>1 DEF IInv, ShapeOK
  <2> QED
    BY <1>1, <1>2, <2>1 DEF IInv, ShapeOK, TypeOK, OpOK, Height
<1>4. ChainOK'
  BY <1>1, <1>2 DEF IInv, ChainOK, Stored
<1>5. KeysOK'
  BY <1>1 DEF IInv, KeysOK
<1>6. CountsOK'
  <2> SUFFICES ASSUME NEW t \in TxId
               PROVE  /\ debits[t] <= cuts' + 1
                      /\ t \notin txKeys => debits[t] <= cuts'
                      /\ t \notin FromSystem => credits[t] <= debits[t]
                      /\ t \in FromSystem =>
                            credits[t] <= cuts' + 1 /\ (t \notin txKeys => credits[t] <= cuts')
    BY <1>1 DEF CountsOK, DebitsOK, CreditsOK, Excused, ExcusedCredit, AtCredit, Owed
  <2>1. debits[t] \in Nat /\ credits[t] \in Nat /\ cuts \in Nat
    BY DEF IInv, ShapeOK, TypeOK
  <2>2. /\ debits[t] <= cuts + 1 /\ (t \notin FromSystem => credits[t] <= debits[t])
        /\ ~Excused(t) => debits[t] <= cuts
        /\ t \in FromSystem =>
              credits[t] <= cuts + 1 /\ (~ExcusedCredit(t) => credits[t] <= cuts)
    BY DEF IInv, CountsOK, DebitsOK, CreditsOK
  <2>3. CASE op.kind = "block"
    <3>1. cuts' = cuts + 1
      BY <1>1, <2>3
    <3> QED
      BY <2>1, <2>2, <3>1
  <2>4. CASE op.kind # "block"
    <3>1. cuts' = cuts
      BY <1>1, <2>1, <2>4
    <3>2. t \notin txKeys => ~Excused(t) /\ ~ExcusedCredit(t)
      BY <2>4 DEF Excused, ExcusedCredit
    <3> QED
      BY <2>1, <2>2, <3>1, <3>2
  <2> QED
    BY <2>3, <2>4
<1>7. RewardsOK'
  BY <1>1 DEF IInv, RewardsOK
<1> QED
  BY <1>3, <1>4, <1>5, <1>6, <1>7 DEF IInv

\* Every method starts with its first write, but a block known to AddBlock.
LEMMA CallIInv == ASSUME IInv, Call PROVE IInv'
<1> PICK t \in TxId :
        \/ ProcessTransaction(t) \/ AddBlock(t) \/ SendCoins(t) \/ UpdateBalance(t)
        \/ SendMessage(t) \/ ProcessMessageResponse(t)
  BY DEF Call
<1>a. ASSUME NEW k \in Kind, NEW maker \in {"us", "peer"}, NEW i \in 1..4,
            ~Running,
            op' = [kind |-> k, tx |-> t, pc |-> i, hash |-> Append(current, <<maker, t>>)],
            i = 4 => t \in txKeys, i < 4 => t \notin txKeys,
            i > 1 => k = "block", i = 2 => t \in FromSystem,
            t \in FromSystem => k \notin {"tx", "pay"},
            k = "reply" => promised,
            UNCHANGED <<disk, memory, history>>
      PROVE IInv'
  BY <1>a, Starting
<1>b. ASSUME NEW k \in {"tx", "pay", "figure", "send", "reply"}, Begin(k, t, "us"),
            t \notin txKeys, t \in FromSystem => k \notin {"tx", "pay"},
            k = "reply" => promised, UNCHANGED <<disk, memory, history>>
      PROVE IInv'
  <2>1. k \in Kind
    BY DEF Kind
  <2>2. ~Running
        /\ op' = [kind |-> k, tx |-> t, pc |-> 1, hash |-> Append(current, <<"us", t>>)]
    BY <1>b DEF Begin
  <2>3. /\ t \notin txKeys /\ (t \in FromSystem => k \notin {"tx", "pay"})
        /\ (k = "reply" => promised) /\ UNCHANGED <<disk, memory, history>>
    BY <1>b
  <2>4. "us" \in {"us", "peer"} /\ 1 \in 1..4 /\ ~(1 = 4) /\ ~(1 > 1) /\ ~(1 = 2)
    OBVIOUS
  <2> QED
    BY <1>a, <2>1, <2>2, <2>3, <2>4
<1>1. CASE ProcessTransaction(t)
  <2>1. Begin("tx", t, "us") /\ t \notin txKeys \cup FromSystem /\ UNCHANGED <<disk, memory, history>>
    BY <1>1 DEF ProcessTransaction
  <2> QED
    BY <1>b, <2>1
<1>2. CASE SendCoins(t)
  <2>1. Begin("pay", t, "us") /\ t \notin txKeys \cup FromSystem /\ UNCHANGED <<disk, memory, history>>
    BY <1>2 DEF SendCoins
  <2> QED
    BY <1>b, <2>1
<1>3. CASE UpdateBalance(t)
  <2>1. Begin("figure", t, "us") /\ t \notin txKeys /\ UNCHANGED <<disk, memory, history>>
    BY <1>3 DEF UpdateBalance
  <2> QED
    BY <1>b, <2>1
<1>4. CASE SendMessage(t)
  <2>1. Begin("send", t, "us") /\ t \notin txKeys /\ UNCHANGED <<disk, memory, history>>
    BY <1>4 DEF SendMessage
  <2> QED
    BY <1>b, <2>1
<1>5. CASE ProcessMessageResponse(t)
  <2>1. Begin("reply", t, "us") /\ t \notin txKeys /\ UNCHANGED <<disk, memory, history>>
    BY <1>5 DEF ProcessMessageResponse
  <2> QED
    BY <1>b, <2>1, <1>5 DEF ProcessMessageResponse
<1>6. CASE AddBlock(t)
  <2>1. ~Running /\ UNCHANGED <<disk, memory, history>>
    BY <1>6 DEF AddBlock
  <2>2. op' = [kind |-> "block", tx |-> t, pc |-> FirstPut(t),
               hash |-> Append(current, <<"peer", t>>)]
    BY <1>6 DEF AddBlock
  <2>3. /\ FirstPut(t) \in 1..4
        /\ FirstPut(t) = 4 => t \in txKeys
        /\ FirstPut(t) < 4 => t \notin txKeys
        /\ FirstPut(t) = 2 => t \in FromSystem
    BY DEF FirstPut
  <2> QED
    BY <1>a, <2>1, <2>2, <2>3 DEF Kind
<1> QED
  BY <1>1, <1>2, <1>3, <1>4, <1>5, <1>6

-----------------------------------------------------------------------------
LEMMA InitIInv == Init => IInv
<1> SUFFICES ASSUME Init PROVE IInv
  OBVIOUS
<1>1. /\ DOMAIN blocks = {0} /\ blocks[0] = << >> /\ last = 0 /\ current = << >>
      /\ ~Running /\ op = NoOp /\ outs = {} /\ txKeys = {}
      /\ \A t \in TxId : debits[t] = 0 /\ credits[t] = 0
      /\ messages = 0 /\ paid = 0 /\ cuts = 0 /\ ~saved /\ ~promised
  BY DEF Init, Running, NoOp
<1>2. ShapeOK
  <2>1. blocks \in [DOMAIN blocks -> Seq(Link)] /\ << >> \in Seq(Link)
    BY <1>1 DEF Init
  <2>2. debits \in [TxId -> Nat] /\ credits \in [TxId -> Nat]
    BY DEF Init
  <2> QED
    BY <1>1, <2>1, <2>2 DEF ShapeOK, TypeOK, OpOK, Height, Init
<1>3. ChainOK
  BY <1>1 DEF ChainOK, Stored
<1>4. KeysOK /\ CountsOK /\ RewardsOK
  BY <1>1 DEF KeysOK, CountsOK, DebitsOK, CreditsOK, RewardsOK, Excused, AtCredit
<1> QED
  BY <1>2, <1>3, <1>4 DEF IInv

LEMMA NextIInv == IInv /\ [Next]_vars => IInv'
<1> SUFFICES ASSUME IInv, [Next]_vars PROVE IInv'
  OBVIOUS
<1>1. CASE Call
  BY <1>1, CallIInv
<1>2. CASE Write
  BY <1>2, PutBlockIInv, PutLastIInv, PutTxIInv, DebitIInv, RejectDebitIInv, TakeInputsIInv,
     CreditIInv, PutOutputsIInv, SetCurrentIInv, MarkBlockIInv, SaveMessageIInv, SetPromiseIInv,
     SavePendingRewardsIInv DEF Write
<1>3. CASE CrashAndRestart
  BY <1>3, CrashAndRestartIInv
<1>4. CASE UNCHANGED vars
  <2> USE <1>4 DEF vars, disk, memory, history
  <2>1. ShapeOK'
    BY DEF IInv, ShapeOK, TypeOK, OpOK, Running, NoOp, Height
  <2>2. ChainOK' /\ KeysOK'
    BY DEF IInv, ChainOK, Stored, KeysOK, Running
  <2>3. CountsOK' /\ RewardsOK'
    BY DEF IInv, CountsOK, DebitsOK, CreditsOK, RewardsOK, Excused, ExcusedCredit, Owed,
       AtCredit, Running
  <2> QED
    BY <2>1, <2>2, <2>3 DEF IInv
<1> QED
  BY <1>1, <1>2, <1>3, <1>4 DEF Next

\* The chain the memory would be restarted from is stored to its genesis.
LEMMA ChainIsStored == IInv => ChainSurvivesCrash
<1> SUFFICES ASSUME IInv, NEW h \in 0..last
             PROVE  /\ last \in DOMAIN blocks
                    /\ h \in DOMAIN blocks /\ IsPrefix(blocks[h], blocks[last])
  BY DEF ChainSurvivesCrash, IInv, ChainOK
<1>1. last \in DOMAIN blocks /\ Len(blocks[last]) = last /\ blocks[last] \in Seq(Link)
  BY DEF IInv, ShapeOK, TypeOK, ChainOK, Height
<1>2. h \in DOMAIN blocks /\ \A i \in 1..h : blocks[h][i] = blocks[last][i]
  BY <1>1 DEF IInv, ChainOK, Stored
<1>3. blocks[h] \in Seq(Link) /\ Len(blocks[h]) = h
  BY <1>2 DEF IInv, ShapeOK, TypeOK, Height
<1>4. IsPrefix(blocks[h], blocks[last])
  BY <1>1, <1>2, <1>3 DEF IsPrefix
<1> QED
  BY <1>1, <1>2, <1>4

-----------------------------------------------------------------------------
\* The invariant that says which writes a method has made holds throughout.
THEOREM CrashInvariant == Spec => []IInv
<1> QED
  BY InitIInv, NextIInv, PTL DEF Spec

\* Every block lies at its own height and every amount is written whole times
\* (TypeOK), whatever the stops (SaveBlock, NewBlockchain).
THEOREM CrashTyping == Spec => []TypeOK
<1>1. IInv => TypeOK
  BY DEF IInv, ShapeOK
<1> QED
  BY <1>1, CrashInvariant, PTL

\* The block that last_block names has its whole chain stored below it after a
\* stop at any write (ChainSurvivesCrash; SaveBlock and NewBlockchain).
THEOREM CrashChain == Spec => []ChainSurvivesCrash
<1> QED
  BY ChainIsStored, CrashInvariant, PTL

\* Output records are never there without the tx_ key that keeps a transaction
\* from being processed again (OutputsHaveTheirKey; ProcessTransaction).
THEOREM CrashKeys == Spec => []OutputsHaveTheirKey
<1>1. IInv => OutputsHaveTheirKey
  BY DEF IInv, KeysOK, OutputsHaveTheirKey
<1> QED
  BY <1>1, CrashInvariant, PTL

\* An amount leaves and arrives at most once, but for one more time per stop
\* inside AddBlock, and arrives no more often than it left unless SYSTEM sent
\* it (MovedOnceUnlessBlockCut; ProcessTransaction, SendCoins, AddBlock).
THEOREM CrashMovedOnce == Spec => []MovedOnceUnlessBlockCut
<1>1. IInv => MovedOnceUnlessBlockCut
  <2> SUFFICES ASSUME IInv, NEW t \in TxId
               PROVE  /\ debits[t] <= 1 + cuts /\ credits[t] <= 1 + cuts
                      /\ t \notin FromSystem => credits[t] <= debits[t]
    BY DEF MovedOnceUnlessBlockCut
  <2>1. debits[t] \in Nat /\ credits[t] \in Nat /\ cuts \in Nat
    BY DEF IInv, ShapeOK, TypeOK
  <2> QED
    BY <2>1 DEF IInv, CountsOK, DebitsOK, CreditsOK
<1> QED
  BY <1>1, CrashInvariant, PTL

\* Rewards paid and promised on the disk never exceed the messages stored
\* (RewardsPaidForMessages; SendMessage, ProcessMessageResponse).
THEOREM CrashRewards == Spec => []RewardsPaidForMessages
<1>1. IInv => RewardsPaidForMessages
  BY DEF IInv, RewardsOK, RewardsPaidForMessages
<1> QED
  BY <1>1, CrashInvariant, PTL
=============================================================================
