-------------------------- MODULE BalanceSyncProofs ---------------------------
(***************************************************************************)
(* Balance synchronisation for any nodes, addresses and bounds: the types, *)
(* and that a reader never works with figures that are behind its node.    *)
(* The latter rests on the CLI: while it is between reading its node's     *)
(* height and its balances, only a restart could lower the height, and a   *)
(* restart ends the CLI too.  What is sent says a height that is not above *)
(* the one at which the balances were read, and a reader compares its own  *)
(* with it.                                                                *)
(***************************************************************************)
EXTENDS BalanceSync, TLAPS

LEMMA PairFacts ==
    ASSUME NEW p \in Pair
    PROVE  /\ p[1] \in Node /\ p[2] \in Node
           /\ <<p[2], p[1]>> \in Pair /\ <<p[2], p[1]>> # p
BY DEF Pair

LEMMA FigureFacts ==
    /\ Nothing \in Figures
    /\ \A a \in Addr, v \in Nat : Only(a, v) \in Figures
    /\ \A f \in Figures, a \in Addr : Without(f, a) \in Figures
BY DEF Nothing, Figures, Only, Without, NoFigure

LEMMA BalanceFacts ==
    ASSUME TypeOK, NEW n \in Node
    PROVE  /\ GetAllBalances(n) \in Figures
           /\ \A a \in Addr : GetBalance(n, a) \in Nat
<1>1. legacy[n] \in Figures /\ entries[n] \in [Addr -> Nat] /\ records[n] \in [Addr -> Nat]
  BY DEF TypeOK
<1>2. GetAllBalances(n) \in Figures
  BY <1>1 DEF GetAllBalances, Figures, NoFigure
<1>3. ASSUME NEW a \in Addr PROVE GetBalance(n, a) \in Nat
  BY <1>1 DEF GetBalance, Legacy, Figures, NoFigure
<1> QED  BY <1>2, <1>3

\* What a reader is when it is done with one of its addresses.
LEMMA DoneReader ==
    ASSUME TypeOK, NEW p \in Pair, NEW a \in Addr, Done(p, a)
    PROVE  /\ reader' \in [Pair -> [figures : Figures, due : Addr \cup {NoAddr},
                                    mine : Nat, read : Nat]]
           /\ \A q \in Pair :
                 /\ q # p => reader'[q] = reader[q]
                 /\ reader'[p].due = NoAddr
                 /\ \/ reader'[p].mine = 0 /\ reader'[p].read = 0
                    \/ reader'[p].mine = reader[p].mine /\ reader'[p].read = reader[p].read
<1>1. reader[p] \in [figures : Figures, due : Addr \cup {NoAddr}, mine : Nat, read : Nat]
  BY DEF TypeOK
<1>2. Without(reader[p].figures, a) \in Figures
  BY <1>1, FigureFacts
<1>3. Free \in [figures : Figures, due : Addr \cup {NoAddr}, mine : Nat, read : Nat]
  BY FigureFacts DEF Free
<1> DEFINE rest == [reader[p] EXCEPT !.figures = Without(reader[p].figures, a),
                                     !.due = NoAddr]
<1>4. /\ rest \in [figures : Figures, due : Addr \cup {NoAddr}, mine : Nat, read : Nat]
      /\ rest.due = NoAddr /\ rest.mine = reader[p].mine /\ rest.read = reader[p].read
  BY <1>1, <1>2
<1>5. Free.due = NoAddr /\ Free.mine = 0 /\ Free.read = 0
  BY DEF Free
<1>6. reader' = [reader EXCEPT ![p] = Free] \/ reader' = [reader EXCEPT ![p] = rest]
  BY DEF Done
<1> HIDE DEF rest
<1>7. CASE reader' = [reader EXCEPT ![p] = Free]
  BY <1>3, <1>5, <1>7 DEF TypeOK
<1>8. CASE reader' = [reader EXCEPT ![p] = rest]
  BY <1>4, <1>8 DEF TypeOK
<1> QED  BY <1>6, <1>7, <1>8

-----------------------------------------------------------------------------
\* Types

CliStates == [pc : {"idle", "balances", "stake", "read", "save", "credit", "count"},
              height : Nat, addr : Addr \cup {NoAddr}]

LEMMA TransferTypes ==
    ASSUME TypeOK, NEW n \in Node, NEW from \in Addr, NEW to \in Addr,
           Transfer(n, from, to, 1)
    PROVE  /\ legacy' \in [Node -> Figures]
           /\ records' \in [Node -> [Addr -> Nat]] /\ entries' \in [Node -> [Addr -> Nat]]
<1>1. legacy[n] \in Figures /\ entries[n] \in [Addr -> Nat] /\ records[n] \in [Addr -> Nat]
  BY DEF TypeOK
<1>2. CASE TransferByInputs(n, from, to, 1)
  <2>1. PICK change \in 0..1, spent \in 0..records[n][from] :
          LET made(a) == (IF a = to THEN 1 ELSE 0) + (IF a = from THEN change ELSE 0)
          IN  /\ records' = [records EXCEPT ![n] =
                   [a \in Addr |-> @[a] + made(a) - IF a = from THEN spent ELSE 0]]
              /\ entries' = [entries EXCEPT ![n] = [a \in Addr |-> @[a] + made(a)]]
              /\ UNCHANGED legacy
    BY <1>2 DEF TransferByInputs
  <2> DEFINE made(a) == (IF a = to THEN 1 ELSE 0) + (IF a = from THEN change ELSE 0)
             R == [a \in Addr |-> records[n][a] + made(a) - IF a = from THEN spent ELSE 0]
             E == [a \in Addr |-> entries[n][a] + made(a)]
  <2>2. ASSUME NEW a \in Addr PROVE made(a) \in Nat
    OBVIOUS
  <2>3. ASSUME NEW a \in Addr
        PROVE  records[n][a] + made(a) - (IF a = from THEN spent ELSE 0) \in Nat
    BY <1>1, <2>1, <2>2
  <2>4. R \in [Addr -> Nat] /\ E \in [Addr -> Nat]
    BY <1>1, <2>2, <2>3
  <2> HIDE DEF made
  <2>5. records' = [records EXCEPT ![n] = R] /\ entries' = [entries EXCEPT ![n] = E]
        /\ legacy' = legacy
    BY <2>1 DEF made
  <2> QED  BY <2>4, <2>5 DEF TypeOK
<1>3. CASE TransferByBalance(n, from, to, 1)
  <2> DEFINE rest == GetBalance(n, from) - 1
  <2>1. rest \in Nat /\ GetBalance(n, to) + 1 \in Nat
    BY <1>3, BalanceFacts DEF TransferByBalance
  <2>2. [legacy[n] EXCEPT ![from] = rest, ![to] = GetBalance(n, to) + 1] \in Figures
    BY <1>1, <2>1 DEF Figures
  <2>3. [records[n] EXCEPT ![from] = rest, ![to] = @ + 1] \in [Addr -> Nat]
    BY <1>1, <2>1
  <2> QED  BY <1>1, <1>3, <2>1, <2>2, <2>3 DEF TransferByBalance, TypeOK
<1> QED  BY <1>2, <1>3 DEF Transfer

LEMMA NewBlockTypes ==
    ASSUME TypeOK, NEW n \in Node, NewBlock(n)
    PROVE  /\ height' \in [Node -> Nat] /\ last' \in [Node -> Nat]
           /\ \A k \in Node : height'[k] >= height[k]
           /\ height'[n] = last'[n] /\ \A k \in Node \ {n} : last'[k] = last[k]
<1>1. height \in [Node -> Nat] /\ last \in [Node -> Nat]
  BY DEF TypeOK
<1> QED  BY <1>1 DEF NewBlock

LEMMA UpdateTypes ==
    ASSUME TypeOK, NEW n \in Node, NEW a \in Addr, NEW v \in Nat, UpdateBalance(n, a, v)
    PROVE  /\ legacy' \in [Node -> Figures]
           /\ records' \in [Node -> [Addr -> Nat]] /\ entries' \in [Node -> [Addr -> Nat]]
           /\ height' \in [Node -> Nat] /\ last' \in [Node -> Nat]
<1>1. legacy[n] \in Figures /\ entries[n] \in [Addr -> Nat] /\ records[n] \in [Addr -> Nat]
  BY DEF TypeOK
<1>2. [legacy[n] EXCEPT ![a] = v] \in Figures
  BY <1>1 DEF Figures
<1>3. legacy' = [legacy EXCEPT ![n] = [legacy[n] EXCEPT ![a] = v]]
  BY DEF UpdateBalance
<1>4. legacy' \in [Node -> Figures]
  BY <1>2, <1>3 DEF TypeOK
<1>5. CASE v > GetBalance(n, a)
  <2>1. /\ [records[n] EXCEPT ![a] = v] \in [Addr -> Nat]
        /\ [entries[n] EXCEPT ![a] = @ + v] \in [Addr -> Nat]
    BY <1>1
  <2>2. /\ records' = [records EXCEPT ![n] = [records[n] EXCEPT ![a] = v]]
        /\ entries' = [entries EXCEPT ![n] = [entries[n] EXCEPT ![a] = @ + v]]
    BY <1>5 DEF UpdateBalance
  <2>3. height' \in [Node -> Nat] /\ last' \in [Node -> Nat]
    BY <1>5, NewBlockTypes DEF UpdateBalance
  <2> QED  BY <1>4, <2>1, <2>2, <2>3 DEF TypeOK
<1>6. CASE ~(v > GetBalance(n, a))
  BY <1>4, <1>6 DEF UpdateBalance, TypeOK
<1> QED  BY <1>5, <1>6

\* What is put on links, and taken off them.
LEMMA LinkTypes ==
    ASSUME TypeOK, NEW p \in Pair
    PROVE  /\ \A m \in Message : Append(link[p], m) \in Seq(Message)
           /\ link[p] # << >> => /\ Head(link[p]) \in Message
                                /\ Tail(link[p]) \in Seq(Message)
<1>1. link[p] \in Seq(Message)
  BY DEF TypeOK
<1> QED  BY <1>1

LEMMA InitTypes == Init => TypeOK
<1> SUFFICES ASSUME Init PROVE TypeOK
  OBVIOUS
<1>1. Free \in [figures : Figures, due : Addr \cup {NoAddr}, mine : Nat, read : Nat]
      /\ Free.due = NoAddr
  BY FigureFacts DEF Free
<1>2. link \in [Pair -> Seq(Message)]
  BY DEF Init
<1> QED  BY <1>1, <1>2, FigureFacts DEF Init, TypeOK, Idle, Zero

\* The steps of one reader.
LEMMA ReadTypes ==
    ASSUME TypeOK, NEW p \in Pair, Read(p)
    PROVE  TypeOK'
<1> DEFINE R == [figures : Figures, due : Addr \cup {NoAddr}, mine : Nat, read : Nat]
<1>0. reader[p] \in R /\ p[2] \in Node /\ Free \in R
  BY PairFacts, FigureFacts DEF TypeOK, Free
<1>1. CASE AnswerBalance(p)
  <2> DEFINE a == Head(link[p]).addr
             back == <<p[2], p[1]>>
             m == [kind |-> "balance", figures |-> Only(a, GetBalance(p[2], a))]
  <2>1. a \in Addr
    BY <1>1, LinkTypes DEF AnswerBalance, Arrived, Message
  <2>2. m \in Message
    BY <1>0, <2>1, BalanceFacts, FigureFacts DEF Message
  <2>3. back \in Pair /\ back # p
    BY PairFacts
  <2>4. Append(link[back], m) \in Seq(Message) /\ Tail(link[p]) \in Seq(Message)
    BY <1>1, <2>2, <2>3, LinkTypes DEF AnswerBalance, Arrived
  <2>5. \/ link' = [[link EXCEPT ![p] = Tail(link[p])] EXCEPT ![back] = Append(link[back], m)]
        \/ link' = [link EXCEPT ![p] = Tail(link[p])]
    BY <1>1, <2>3 DEF AnswerBalance, Popped, TypeOK
  <2> HIDE DEF m, back, a
  <2>6. link' \in [Pair -> Seq(Message)]
    BY <2>3, <2>4, <2>5 DEF TypeOK
  <2> QED  BY <1>1, <2>6 DEF AnswerBalance, TypeOK, ledger
<1>2. CASE TakeBalance(p)
  <2>1. Head(link[p]).figures \in Figures /\ Tail(link[p]) \in Seq(Message)
    BY <1>2, LinkTypes DEF TakeBalance, Arrived, Message
  <2>2. /\ reader[p] = Free
        /\ reader' = [reader EXCEPT ![p] = [Free EXCEPT !.figures = Head(link[p]).figures]]
    BY <1>2 DEF TakeBalance, Arrived, TypeOK
  <2>3. [Free EXCEPT !.figures = Head(link[p]).figures] \in R
        /\ [Free EXCEPT !.figures = Head(link[p]).figures].due = NoAddr
    BY <2>1 DEF Free
  <2>4. link' \in [Pair -> Seq(Message)]
    BY <1>2, <2>1 DEF TakeBalance, Popped, TypeOK
  <2>5. /\ reader' \in [Pair -> R]
        /\ \A q \in Pair : reader'[q].due \in Told(reader'[q].figures) \cup {NoAddr}
    BY <2>2, <2>3 DEF TypeOK
  <2> QED  BY <1>2, <2>4, <2>5 DEF TakeBalance, TypeOK, ledger
<1>3. CASE TakeSync(p)
  <2> DEFINE m == Head(link[p])
             r == [Free EXCEPT !.figures = m.figures, !.mine = height[p[2]],
                               !.read = m.read]
  <2>1. m.figures \in Figures /\ m.read \in Nat /\ Tail(link[p]) \in Seq(Message)
    BY <1>3, LinkTypes DEF TakeSync, Arrived, Message
  <2>2. r \in R /\ r.due = NoAddr
    BY <1>0, <2>1 DEF Free, TypeOK
  <2>3. reader' = reader \/ reader' = [reader EXCEPT ![p] = r]
    BY <1>3 DEF TakeSync
  <2>4. link' \in [Pair -> Seq(Message)]
    BY <1>3, <2>1 DEF TakeSync, Popped, TypeOK
  <2> QED  BY <1>3, <2>2, <2>3, <2>4 DEF TakeSync, TypeOK, ledger
<1>4. ASSUME NEW a \in Addr, Compare(p, a) PROVE TypeOK'
  <2>1. CASE Done(p, a)
    BY <1>4, <2>1, DoneReader DEF Compare, TypeOK, ledger
  <2>2. CASE reader' = [reader EXCEPT ![p].due = a]
    <3>1. [reader[p] EXCEPT !.due = a] \in R
          /\ [reader[p] EXCEPT !.due = a].due = a
          /\ [reader[p] EXCEPT !.due = a].figures = reader[p].figures
      BY <1>0
    <3>2. reader' = [reader EXCEPT ![p] = [reader[p] EXCEPT !.due = a]]
      BY <2>2
    <3> QED  BY <1>4, <3>1, <3>2 DEF Compare, TypeOK, ledger
  <2> QED  BY <1>4, <2>1, <2>2 DEF Compare
<1>5. CASE Update(p)
  <2> DEFINE a == reader[p].due
  <2>1. a \in Told(reader[p].figures)
    BY <1>5 DEF Update, TypeOK
  <2>2. a \in Addr /\ reader[p].figures[a] \in Nat
    BY <1>0, <2>1 DEF Told, Figures, NoFigure
  <2>3. UpdateBalance(p[2], a, reader[p].figures[a]) /\ Done(p, a)
    BY <1>5 DEF Update
  <2> HIDE DEF a
  <2> QED  BY <1>0, <1>5, <2>2, <2>3, UpdateTypes, DoneReader DEF Update, TypeOK
<1> QED  BY <1>1, <1>2, <1>3, <1>4, <1>5 DEF Read

LEMMA SendTypes ==
    ASSUME TypeOK, NEW n \in Node, NEW m \in Message, ToAll(n, m)
    PROVE  link' \in [Pair -> Seq(Message)]
BY LinkTypes DEF ToAll, TypeOK

LEMMA UsedTypes ==
    ASSUME TypeOK,
           \/ used' = [used EXCEPT !.grants = @ + 1]
           \/ used' = [used EXCEPT !.exchanges = @ + 1]
           \/ used' = [used EXCEPT !.transfers = @ + 1]
           \/ used' = [used EXCEPT !.restarts = @ + 1]
           \/ used' = [used EXCEPT !.holds = @ + 1]
    PROVE  used' \in [grants : Nat, exchanges : Nat, transfers : Nat, restarts : Nat,
                      holds : Nat]
<1>1. used \in [grants : Nat, exchanges : Nat, transfers : Nat, restarts : Nat, holds : Nat]
  BY DEF TypeOK
<1> QED  BY <1>1

\* The CLI at one node changes its state.
LEMMA CliTypes ==
    ASSUME TypeOK, NEW n \in Node, NEW c \in CliStates, cli' = [cli EXCEPT ![n] = c],
           c.pc \in {"read", "save", "credit"} => c.addr \in Addr
    PROVE  /\ cli' \in [Node -> CliStates]
           /\ \A k \in Node : cli'[k].pc \in {"read", "save", "credit"} => cli'[k].addr \in Addr
<1>1. cli \in [Node -> CliStates]
  BY DEF TypeOK, CliStates
<1>2. cli' \in [Node -> CliStates]
  BY <1>1
<1>3. ASSUME NEW k \in Node, cli'[k].pc \in {"read", "save", "credit"} PROVE cli'[k].addr \in Addr
  BY <1>1, <1>3 DEF TypeOK
<1> QED  BY <1>2, <1>3

LEMMA IdleFacts == Idle \in CliStates /\ Idle.pc = "idle" /\ Idle.addr = NoAddr
BY DEF Idle, CliStates

\* One goes on with the rest of its state, and a lock that is taken for good.
LEMMA CliGoesTypes ==
    ASSUME TypeOK, NEW n \in Node, NEW pc \in {"stake", "save", "credit"}, NEW h \in Nat,
           pc \in {"save", "credit"} => cli[n].pc \in {"read", "save"},
           \/ cli' = [cli EXCEPT ![n] = [cli[n] EXCEPT !.pc = pc]]
           \/ cli' = [cli EXCEPT ![n] = [cli[n] EXCEPT !.pc = pc, !.height = h]]
    PROVE  /\ cli' \in [Node -> CliStates]
           /\ \A k \in Node : cli'[k].pc \in {"read", "save", "credit"} => cli'[k].addr \in Addr
<1> DEFINE c == [cli[n] EXCEPT !.pc = pc]
           d == [cli[n] EXCEPT !.pc = pc, !.height = h]
<1>1. cli[n] \in CliStates
  BY DEF TypeOK, CliStates
<1>2. c \in CliStates /\ c.pc = pc /\ c.addr = cli[n].addr
  BY <1>1 DEF CliStates
<1>3. d \in CliStates /\ d.pc = pc /\ d.addr = cli[n].addr
  BY <1>1 DEF CliStates
<1>4. pc \in {"read", "save", "credit"} => cli[n].addr \in Addr
  BY DEF TypeOK
<1> HIDE DEF c, d
<1>5. CASE cli' = [cli EXCEPT ![n] = c]
  BY <1>2, <1>4, <1>5, CliTypes
<1>6. CASE cli' = [cli EXCEPT ![n] = d]
  BY <1>3, <1>4, <1>6, CliTypes
<1> QED  BY <1>5, <1>6 DEF c, d

LEMMA WalletTypes ==
    ASSUME TypeOK, NEW n \in Node, WalletCreation(n)
    PROVE  TypeOK'
<1>0. last[n] \in Nat /\ last[n] + 1 \in Nat /\ cli[n] \in CliStates
  BY DEF TypeOK, CliStates
<1>1. ASSUME NEW a \in Addr, CreateNewWallet(n, a) PROVE TypeOK'
  <2> DEFINE c == [Idle EXCEPT !.pc = "read", !.addr = a]
  <2>1. c \in CliStates /\ c.addr \in Addr
    BY DEF Idle, CliStates
  <2>2. cli' = [cli EXCEPT ![n] = c]
    BY <1>1 DEF CreateNewWallet
  <2> HIDE DEF c
  <2>3. /\ cli' \in [Node -> CliStates]
        /\ \A k \in Node : cli'[k].pc \in {"read", "save", "credit"} => cli'[k].addr \in Addr
    BY <2>1, <2>2, CliTypes
  <2> QED  BY <1>1, <2>3, UsedTypes DEF CreateNewWallet, TypeOK, ledger, CliStates
<1>2. CASE ReadLastBlock(n)
  <2>1. cli' = [cli EXCEPT ![n] = [cli[n] EXCEPT !.pc = "save", !.height = last[n] + 1]]
        /\ cli[n].pc = "read"
    BY <1>2 DEF ReadLastBlock, CliAt, TypeOK
  <2>2. /\ cli' \in [Node -> CliStates]
        /\ \A k \in Node : cli'[k].pc \in {"read", "save", "credit"} => cli'[k].addr \in Addr
    BY <1>0, <2>1, CliGoesTypes
  <2> QED  BY <1>2, <2>2 DEF ReadLastBlock, TypeOK, ledger, CliStates
<1>3. CASE SaveGrant(n)
  <2>1. cli' = [cli EXCEPT ![n] = [cli[n] EXCEPT !.pc = "credit", !.height = 0]]
        /\ cli[n].pc = "save"
    BY <1>3 DEF SaveGrant, CliAt, TypeOK
  <2>2. /\ cli' \in [Node -> CliStates]
        /\ \A k \in Node : cli'[k].pc \in {"read", "save", "credit"} => cli'[k].addr \in Addr
    BY <2>1, CliGoesTypes
  <2>3. last' \in [Node -> Nat]
    BY <1>0, <1>3 DEF SaveGrant, TypeOK, CliStates
  <2> QED  BY <1>3, <2>2, <2>3 DEF SaveGrant, TypeOK, CliStates
<1>4. CASE CreditGrant(n)
  <2> DEFINE a == cli[n].addr
             c == [Idle EXCEPT !.pc = "count"]
  <2>1. a \in Addr
    BY <1>4 DEF CreditGrant, CliAt, TypeOK
  <2>2. [legacy[n] EXCEPT ![a] = Grant] \in Figures
    BY GrantAssumption DEF TypeOK, Figures
  <2>3. legacy' \in [Node -> Figures]
    BY <1>4, <2>2 DEF CreditGrant, TypeOK
  <2>4. c \in CliStates /\ c.pc = "count" /\ cli' = [cli EXCEPT ![n] = c]
    BY <1>4 DEF CreditGrant, Idle, CliStates
  <2> HIDE DEF c
  <2>5. /\ cli' \in [Node -> CliStates]
        /\ \A k \in Node : cli'[k].pc \in {"read", "save", "credit"} => cli'[k].addr \in Addr
    BY <2>4, CliTypes
  <2> QED  BY <1>4, <2>3, <2>5 DEF CreditGrant, TypeOK, CliStates
<1>5. CASE IncrementNodeCount(n)
  BY <1>5 DEF IncrementNodeCount, Hold, TypeOK, ledger
<1> QED  BY <1>1, <1>2, <1>3, <1>4, <1>5 DEF WalletCreation

LEMMA TypeStep == TypeOK /\ [Next]_vars => TypeOK'
<1> SUFFICES ASSUME TypeOK, [Next]_vars PROVE TypeOK'
  OBVIOUS
<1>0. CASE UNCHANGED vars
  BY <1>0 DEF vars, ledger, TypeOK
<1>1. ASSUME NEW n \in Node, WalletCreation(n) PROVE TypeOK'
  BY <1>1, WalletTypes
<1>2. ASSUME NEW n \in Node, NEW a \in Addr, AskBalance(n, a) PROVE TypeOK'
  <2>1. [kind |-> "ask", addr |-> a] \in Message
    BY DEF Message
  <2>2. link' \in [Pair -> Seq(Message)]
    BY <1>2, <2>1, SendTypes DEF AskBalance
  <2> QED  BY <1>2, <2>2, UsedTypes DEF AskBalance, TypeOK, ledger
<1>3. ASSUME NEW n \in Node, NEW from \in Addr, NEW to \in Addr, Transfer(n, from, to, 1)
      PROVE  TypeOK'
  <2>1. NewBlock(n)
    BY <1>3 DEF Transfer
  <2> QED  BY <1>3, <2>1, NewBlockTypes, TransferTypes, UsedTypes DEF Transfer, TypeOK
<1>4. ASSUME NEW n \in Node, ReadHeight(n) PROVE TypeOK'
  <2> DEFINE c == [cli[n] EXCEPT !.pc = "balances", !.height = height[n]]
  <2>1. c \in CliStates /\ c.pc = "balances" /\ cli' = [cli EXCEPT ![n] = c]
    <3>1. cli[n] \in CliStates /\ height[n] \in Nat
      BY DEF TypeOK, CliStates
    <3>2. c \in CliStates /\ c.pc = "balances"
      BY <3>1 DEF CliStates
    <3>3. cli' = [cli EXCEPT ![n].pc = "balances", ![n].height = height[n]]
      BY <1>4 DEF ReadHeight
    <3> QED  BY <3>2, <3>3, Zenon
  <2> HIDE DEF c
  <2>2. /\ cli' \in [Node -> CliStates]
        /\ \A k \in Node : cli'[k].pc \in {"read", "save", "credit"} => cli'[k].addr \in Addr
    BY <2>1, CliTypes
  <2> QED  BY <1>4, <2>2, UsedTypes DEF ReadHeight, TypeOK, ledger, CliStates
<1>5. ASSUME NEW n \in Node, SendBalances(n) PROVE TypeOK'
  <2> DEFINE m == [kind |-> "sync", figures |-> GetAllBalances(n),
                   height |-> cli[n].height, read |-> height[n]]
  <2>1. m \in Message
    BY BalanceFacts DEF Message, TypeOK
  <2>2. link' = link \/ ToAll(n, m)
    BY <1>5 DEF SendBalances
  <2> HIDE DEF m
  <2>3. link' \in [Pair -> Seq(Message)]
    BY <2>1, <2>2, SendTypes DEF TypeOK
  <2>4. /\ cli' \in [Node -> CliStates]
        /\ \A k \in Node : cli'[k].pc \in {"read", "save", "credit"} => cli'[k].addr \in Addr
    BY <1>5, IdleFacts, CliTypes DEF SendBalances
  <2> QED  BY <1>5, <2>3, <2>4 DEF SendBalances, TypeOK, ledger, CliStates
<1>6. ASSUME NEW n \in Node, Restart(n) PROVE TypeOK'
  <2>1. link' \in [Pair -> Seq(Message)]
    BY <1>6 DEF Restart, TypeOK
  <2>2. /\ Free \in [figures : Figures, due : Addr \cup {NoAddr}, mine : Nat, read : Nat]
        /\ Free.due = NoAddr
    BY FigureFacts DEF Free
  <2>3. /\ cli' \in [Node -> CliStates]
        /\ \A k \in Node : cli'[k].pc \in {"read", "save", "credit"} => cli'[k].addr \in Addr
    BY <1>6, IdleFacts, CliTypes DEF Restart
  <2>4. used' \in [grants : Nat, exchanges : Nat, transfers : Nat, restarts : Nat, holds : Nat]
    BY <1>6, UsedTypes DEF Restart
  <2>5. held' \in [Node -> {"none", "bc", "st"}] /\ height' \in [Node -> Nat]
    BY <1>6 DEF Restart, Hold, TypeOK
  <2>6. /\ reader' \in [Pair -> [figures : Figures, due : Addr \cup {NoAddr},
                                 mine : Nat, read : Nat]]
        /\ \A p \in Pair : reader'[p].due \in Told(reader'[p].figures) \cup {NoAddr}
    BY <1>6, <2>2 DEF Restart, TypeOK
  <2> QED  BY <1>6, <2>1, <2>3, <2>4, <2>5, <2>6 DEF Restart, TypeOK, CliStates
<1>7. ASSUME NEW n \in Node, NEW from \in Addr, RefuseTransfer(n, from, 1)
      PROVE  TypeOK'
  <2>1. last' \in [Node -> Nat]
    BY <1>7 DEF RefuseTransfer, TypeOK
  <2> QED  BY <1>7, <2>1, UsedTypes DEF RefuseTransfer, TypeOK
<1>8. ASSUME NEW n \in Node, IncreaseValidatorStake(n) PROVE TypeOK'
  <2>1. cli' = [cli EXCEPT ![n] = [cli[n] EXCEPT !.pc = "stake"]]
    BY <1>8 DEF IncreaseValidatorStake, CliGoes, TypeOK
  <2>2. /\ cli' \in [Node -> CliStates]
        /\ \A k \in Node : cli'[k].pc \in {"read", "save", "credit"} => cli'[k].addr \in Addr
    BY <2>1, CliGoesTypes
  <2> QED  BY <1>8, <2>2, UsedTypes DEF IncreaseValidatorStake, Hold, TypeOK, ledger, CliStates
<1>9. ASSUME NEW n \in Node, StarveStore(n) PROVE TypeOK'
  BY <1>9, UsedTypes DEF StarveStore, Hold, TypeOK, ledger
<1> QED
  BY <1>0, <1>1, <1>2, <1>3, <1>4, <1>5, <1>6, <1>7, <1>8, <1>9, ReadTypes DEF Next, User

-----------------------------------------------------------------------------
\* Heights

\* A message tells a height its node had before it read the figures.
SentInTime(m) == m.kind = "sync" => m.height <= m.read

CliOK == \A n \in Node : cli[n].pc = "balances" => cli[n].height <= height[n]
LinksOK == \A p \in Pair : \A i \in DOMAIN link[p] : SentInTime(link[p][i])
ReadersOK == \A p \in Pair : reader[p].mine <= reader[p].read

\* The CLI's height is not above the node's, and what waits on links and in
\* readers was read at that height or a greater one.
IInv == TypeOK /\ CliOK /\ LinksOK /\ ReadersOK

\* Only a restart lowers a node's height.
LEMMA HeightsGrow ==
    ASSUME TypeOK, NEW n \in Node, NewBlock(n) \/ height' = height
    PROVE  \A k \in Node : height'[k] >= height[k]
<1>1. height \in [Node -> Nat]
  BY DEF TypeOK
<1>2. CASE NewBlock(n)
  BY <1>2, NewBlockTypes
<1> QED  BY <1>1, <1>2

LEMMA CliStep ==
    ASSUME TypeOK, TypeOK', CliOK, [Next]_vars
    PROVE  CliOK'
<1> SUFFICES ASSUME NEW k \in Node, cli'[k].pc = "balances"
             PROVE  cli'[k].height <= height'[k]
  BY DEF CliOK
<1> DEFINE Goal == cli'[k].height <= height'[k]
<1>0. /\ height'[k] \in Nat /\ height[k] \in Nat
      /\ cli[k].pc = "balances" => cli[k].height \in Nat /\ cli[k].height <= height[k]
      /\ cli \in [Node -> CliStates]
  BY DEF TypeOK, CliOK, CliStates
<1>1. CASE cli'[k] = cli[k] /\ height'[k] >= height[k]
  BY <1>0, <1>1
<1>2. ASSUME NEW n \in Node, NewBlock(n) \/ height' = height, cli' = cli PROVE Goal
  BY <1>1, <1>2, HeightsGrow
<1>3. ASSUME NEW n \in Node, WalletCreation(n) PROVE Goal
  <2>1. height' = height
    BY <1>3 DEF WalletCreation, CreateNewWallet, ReadLastBlock, SaveGrant, CreditGrant,
                IncrementNodeCount, ledger
  <2>2. cli' = cli \/ \E c : cli' = [cli EXCEPT ![n] = c] /\ c.pc # "balances"
    <3> DEFINE Some == \E c : cli' = [cli EXCEPT ![n] = c] /\ c.pc # "balances"
    <3>1. ASSUME NEW c, cli' = [cli EXCEPT ![n] = c], c.pc # "balances" PROVE Some
      BY <3>1
    <3>2. cli[n] \in CliStates /\ DOMAIN cli = Node
      BY <1>0
    <3> HIDE DEF Some
    <3>3. ASSUME NEW a \in Addr, CreateNewWallet(n, a) PROVE Some
      <4>1. [Idle EXCEPT !.pc = "read", !.addr = a].pc # "balances"
        BY DEF Idle
      <4> QED  BY <3>1, <3>3, <4>1 DEF CreateNewWallet
    <3>4. ASSUME ReadLastBlock(n) PROVE Some
      <4> DEFINE c == [cli[n] EXCEPT !.pc = "save", !.height = last[n] + 1]
      <4>1. c.pc # "balances"
        BY <3>2 DEF CliStates
      <4>2. cli' = [cli EXCEPT ![n] = c]
        BY <3>2, <3>4 DEF ReadLastBlock
      <4> QED  BY <3>1, <4>1, <4>2
    <3>5. ASSUME SaveGrant(n) PROVE Some
      <4> DEFINE c == [cli[n] EXCEPT !.pc = "credit", !.height = 0]
      <4>1. c.pc # "balances"
        BY <3>2 DEF CliStates
      <4>2. cli' = [cli EXCEPT ![n] = c]
        BY <3>2, <3>5 DEF SaveGrant
      <4> QED  BY <3>1, <4>1, <4>2
    <3>6. ASSUME CreditGrant(n) PROVE Some
      <4>1. [Idle EXCEPT !.pc = "count"].pc # "balances"
        BY DEF Idle
      <4> QED  BY <3>1, <3>6, <4>1 DEF CreditGrant
    <3>7. ASSUME IncrementNodeCount(n) PROVE cli' = cli
      BY <3>7 DEF IncrementNodeCount
    <3> QED
      BY <1>3, <3>3, <3>4, <3>5, <3>6, <3>7 DEF WalletCreation, Some
  <2> QED  BY <1>0, <1>1, <2>1, <2>2
<1>4. ASSUME NEW n \in Node, ReadHeight(n) PROVE Goal
  <2>1. height' = height /\ cli' = [cli EXCEPT ![n].pc = "balances", ![n].height = height[n]]
    BY <1>4 DEF ReadHeight, ledger
  <2>2. CASE k = n
    BY <1>0, <2>1, <2>2 DEF CliStates
  <2>3. CASE k # n
    BY <1>0, <1>1, <2>1, <2>3
  <2> QED  BY <2>2, <2>3
<1>5. ASSUME NEW n \in Node, SendBalances(n) PROVE Goal
  BY <1>0, <1>1, <1>5, IdleFacts DEF SendBalances, ledger
<1>6. ASSUME NEW n \in Node, Restart(n) PROVE Goal
  <2>1. k # n
    BY <1>0, <1>6, IdleFacts DEF Restart
  <2> QED  BY <1>0, <1>1, <1>6, <2>1 DEF Restart, TypeOK
<1>7. ASSUME NEW n \in Node, IncreaseValidatorStake(n) PROVE Goal
  <2>1. height' = height /\ cli' = [cli EXCEPT ![n].pc = "stake"]
    BY <1>7 DEF IncreaseValidatorStake, CliGoes, ledger
  <2> QED  BY <1>0, <1>1, <2>1 DEF CliStates
<1>8. ASSUME NEW p \in Pair, Read(p) PROVE Goal
  <2>1. p[2] \in Node
    BY PairFacts
  <2>2. cli' = cli /\ (NewBlock(p[2]) \/ height' = height)
    BY <1>8 DEF Read, AnswerBalance, TakeBalance, TakeSync, Compare, Update, UpdateBalance, ledger
  <2> QED  BY <1>2, <2>1, <2>2
<1>9. ASSUME UNCHANGED vars PROVE Goal
  BY <1>0, <1>1, <1>9 DEF vars, ledger
<1>10. ASSUME NEW n \in Node,
              \/ StarveStore(n) \/ (\E a \in Addr : AskBalance(n, a))
              \/ (\E from, to \in Addr : Transfer(n, from, to, 1))
              \/ (\E from \in Addr : RefuseTransfer(n, from, 1))
       PROVE  Goal
  BY <1>2, <1>10 DEF StarveStore, AskBalance, Transfer, RefuseTransfer, ledger
<1> QED
  BY <1>3, <1>4, <1>5, <1>6, <1>7, <1>8, <1>9, <1>10 DEF Next, User

\* A link keeps its messages in time if it loses some or gets one in time.
LEMMA OneLink ==
    ASSUME TypeOK, LinksOK, NEW p \in Pair,
           \/ link'[p] = link[p]
           \/ link'[p] = << >>
           \/ link[p] # << >> /\ link'[p] = Tail(link[p])
           \/ \E m \in Message : SentInTime(m) /\ link'[p] = Append(link[p], m)
    PROVE  (\A i \in DOMAIN link[p] : SentInTime(link[p][i]))'
<1>1. link[p] \in Seq(Message)
  BY DEF TypeOK
<1>2. ASSUME NEW i \in DOMAIN link'[p]
      PROVE  SentInTime(link'[p][i])
  <2>1. CASE link'[p] = link[p]
    BY <2>1 DEF LinksOK
  <2>2. CASE link'[p] = << >>
    BY <2>2
  <2>3. CASE link[p] # << >> /\ link'[p] = Tail(link[p])
    <3>1. i + 1 \in DOMAIN link[p] /\ link'[p][i] = link[p][i + 1]
      BY <1>1, <2>3
    <3> QED  BY <3>1 DEF LinksOK
  <2>4. ASSUME NEW m \in Message, SentInTime(m), link'[p] = Append(link[p], m)
        PROVE  SentInTime(link'[p][i])
    <3>1. link'[p][i] = m \/ (i \in DOMAIN link[p] /\ link'[p][i] = link[p][i])
      BY <1>1, <2>4
    <3> QED  BY <2>4, <3>1 DEF LinksOK
  <2> QED  BY <2>1, <2>2, <2>3, <2>4
<1> SUFFICES ASSUME NEW i \in DOMAIN link'[p] PROVE SentInTime(link[p][i])'
  OBVIOUS
<1> QED  BY <1>2 DEF SentInTime

LEMMA LinksStep ==
    ASSUME TypeOK, CliOK, LinksOK, [Next]_vars
    PROVE  LinksOK'
<1> SUFFICES ASSUME NEW p \in Pair
             PROVE  (\A i \in DOMAIN link[p] : SentInTime(link[p][i]))'
  BY DEF LinksOK
<1> DEFINE Kept == link'[p] = link[p]
           Emptied == link'[p] = << >>
           Taken == link[p] # << >> /\ link'[p] = Tail(link[p])
           Given == \E m \in Message : SentInTime(m) /\ link'[p] = Append(link[p], m)
<1>0. DOMAIN link = Pair
  BY DEF TypeOK
<1>1. ASSUME link' = link PROVE Kept
  BY <1>1
<1>2. ASSUME NEW n \in Node, NEW m \in Message, SentInTime(m), ToAll(n, m)
      PROVE  Kept \/ Given
  BY <1>2 DEF ToAll
<1>3. ASSUME NEW n \in Node, NEW a \in Addr, AskBalance(n, a)
      PROVE  Kept \/ Given
  <2> DEFINE m == [kind |-> "ask", addr |-> a]
  <2>1. m \in Message /\ SentInTime(m)
    BY DEF Message, SentInTime
  <2> QED  BY <1>2, <1>3, <2>1 DEF AskBalance
<1>4. ASSUME NEW n \in Node, SendBalances(n)
      PROVE  Kept \/ Given
  <2> DEFINE m == [kind |-> "sync", figures |-> GetAllBalances(n),
                   height |-> cli[n].height, read |-> height[n]]
  <2>1. m \in Message
    BY BalanceFacts DEF Message, TypeOK
  <2>2. SentInTime(m)
    BY <1>4 DEF SentInTime, SendBalances, CliAt, CliOK, TypeOK
  <2>3. link' = link \/ ToAll(n, m)
    BY <1>4 DEF SendBalances
  <2> HIDE DEF m
  <2> QED  BY <1>1, <1>2, <2>1, <2>2, <2>3
<1>5. ASSUME NEW n \in Node, Restart(n)
      PROVE  Kept \/ Emptied
  BY <1>5 DEF Restart
<1>6. ASSUME NEW q \in Pair, TakeBalance(q) \/ TakeSync(q)
      PROVE  Kept \/ Taken
  BY <1>0, <1>6 DEF TakeBalance, TakeSync, Arrived, Popped
<1>7. ASSUME NEW q \in Pair, AnswerBalance(q)
      PROVE  Kept \/ Taken \/ Given
  <2> DEFINE a == Head(link[q]).addr
             back == <<q[2], q[1]>>
             m == [kind |-> "balance", figures |-> Only(a, GetBalance(q[2], a))]
  <2>1. a \in Addr
    BY <1>7, LinkTypes DEF AnswerBalance, Arrived, Message
  <2>2. m \in Message /\ SentInTime(m)
    BY <2>1, BalanceFacts, FigureFacts, PairFacts DEF Message, SentInTime
  <2>3. back \in Pair /\ back # q /\ link[q] # << >>
    BY <1>7, PairFacts DEF AnswerBalance, Arrived
  <2>4. \/ link' = [[link EXCEPT ![q] = Tail(link[q])] EXCEPT ![back] = Append(link[back], m)]
        \/ link' = [link EXCEPT ![q] = Tail(link[q])]
    BY <1>0, <1>7, <2>3 DEF AnswerBalance, Popped
  <2> HIDE DEF m, back, a
  <2> QED  BY <1>0, <2>2, <2>3, <2>4
<1>8. ASSUME NEW q \in Pair, Read(q) PROVE Kept \/ Taken \/ Given
  BY <1>1, <1>6, <1>7, <1>8 DEF Read, Compare, Update
<1> HIDE DEF Kept, Emptied, Taken, Given
<1>9. Kept \/ Emptied \/ Taken \/ Given
  BY <1>1, <1>3, <1>4, <1>5, <1>8
     DEF Next, User, WalletCreation, CreateNewWallet, ReadLastBlock, SaveGrant, CreditGrant,
         IncrementNodeCount, IncreaseValidatorStake, StarveStore, Transfer, RefuseTransfer,
         ReadHeight, vars
<1> QED  BY <1>9, OneLink DEF Kept, Emptied, Taken, Given

LEMMA ReadersStep ==
    ASSUME TypeOK, LinksOK, ReadersOK, [Next]_vars
    PROVE  ReadersOK'
<1> SUFFICES ASSUME NEW p \in Pair
             PROVE  reader'[p].mine <= reader'[p].read
  BY DEF ReadersOK
<1> DEFINE Goal == reader'[p].mine <= reader'[p].read
<1>0. /\ reader[p].mine \in Nat /\ reader[p].read \in Nat
      /\ reader[p].mine <= reader[p].read
      /\ DOMAIN reader = Pair
  BY DEF TypeOK, ReadersOK
<1>1. CASE reader'[p].mine = reader[p].mine /\ reader'[p].read = reader[p].read
  BY <1>0, <1>1
<1>2. CASE reader'[p].mine = 0 /\ reader'[p].read = 0
  BY <1>0, <1>2
<1>3. ASSUME NEW n \in Node, Restart(n) PROVE Goal
  BY <1>1, <1>2, <1>3 DEF Restart, Free
<1>4. ASSUME NEW q \in Pair, TakeBalance(q) PROVE Goal
  <2>1. CASE q = p
    <3>1. reader[p] = Free /\ reader'[p] = [reader[p] EXCEPT !.figures = Head(link[p]).figures]
      BY <1>0, <1>4, <2>1 DEF TakeBalance, Arrived
    <3> QED  BY <1>1, <3>1 DEF Free
  <2>2. CASE q # p
    BY <1>0, <1>1, <1>4, <2>2 DEF TakeBalance
  <2> QED  BY <2>1, <2>2
<1>5. ASSUME NEW q \in Pair, TakeSync(q) PROVE Goal
  <2>1. CASE reader' = reader
    BY <1>1, <2>1
  <2>2. CASE q # p
    BY <1>0, <1>1, <1>5, <2>2 DEF TakeSync
  <2>3. CASE q = p /\ reader' # reader
    <3> DEFINE m == Head(link[p])
               r == [Free EXCEPT !.figures = m.figures, !.mine = height[p[2]],
                                 !.read = m.read]
    <3>1. m \in Message /\ m.kind = "sync" /\ SentInTime(m)
      <4>1. link[p] \in Seq(Message) /\ link[p] # << >> /\ m.kind = "sync"
        BY <1>5, <2>3 DEF TakeSync, Arrived, TypeOK
      <4>2. 1 \in DOMAIN link[p] /\ m = link[p][1]
        BY <4>1
      <4> QED  BY <4>1, <4>2 DEF LinksOK
    <3>2. /\ ~(m.height < height[p[2]])
          /\ reader' = [reader EXCEPT ![p] = r]
      BY <1>5, <2>3 DEF TakeSync
    <3>3. m.height \in Nat /\ m.read \in Nat /\ height[p[2]] \in Nat
      BY <3>1, PairFacts DEF Message, TypeOK
    <3>4. r.mine = height[p[2]] /\ r.read = m.read
      BY DEF Free
    <3> HIDE DEF m, r
    <3>5. reader'[p] = r
      BY <1>0, <3>2
    <3> QED  BY <1>0, <3>1, <3>2, <3>3, <3>4, <3>5 DEF SentInTime
  <2> QED  BY <2>1, <2>2, <2>3
<1>6. ASSUME NEW q \in Pair, NEW a \in Addr, Compare(q, a) PROVE Goal
  <2>1. CASE Done(q, a)
    BY <1>1, <1>2, <2>1, DoneReader
  <2>2. CASE reader' = [reader EXCEPT ![q].due = a]
    <3>1. reader[p] \in [figures : Figures, due : Addr \cup {NoAddr}, mine : Nat, read : Nat]
      BY DEF TypeOK
    <3> QED  BY <1>0, <1>1, <2>2, <3>1
  <2> QED  BY <1>6, <2>1, <2>2 DEF Compare
<1>7. ASSUME NEW q \in Pair, Update(q) PROVE Goal
  <2>1. reader[q].due \in Addr
    BY <1>7 DEF Update, TypeOK
  <2> QED  BY <1>1, <1>2, <1>7, <2>1, DoneReader DEF Update
<1>8. CASE reader' = reader
  BY <1>1, <1>8
<1> QED
  BY <1>3, <1>4, <1>5, <1>6, <1>7, <1>8
     DEF Next, User, Read, AnswerBalance, WalletCreation, CreateNewWallet, ReadLastBlock, SaveGrant, CreditGrant,
         IncrementNodeCount, IncreaseValidatorStake, StarveStore,
         Transfer, RefuseTransfer, ReadHeight, SendBalances, AskBalance, vars

LEMMA InitInv == Init => IInv
<1> SUFFICES ASSUME Init PROVE IInv
  OBVIOUS
<1>1. CliOK /\ LinksOK
  BY DEF Init, CliOK, LinksOK, Idle
<1>2. ReadersOK
  <2>1. Free.mine = 0 /\ Free.read = 0
    BY DEF Free
  <2>2. \A p \in Pair : reader[p] = Free
    BY DEF Init
  <2> QED  BY <2>1, <2>2 DEF ReadersOK
<1> QED  BY <1>1, <1>2, InitTypes DEF IInv

LEMMA NextInv == IInv /\ [Next]_vars => IInv'
BY TypeStep, CliStep, LinksStep, ReadersStep DEF IInv

LEMMA AlwaysInv == Spec => []IInv
<1> QED  BY InitInv, NextInv, PTL DEF Spec

\* The types, for any nodes, addresses and number of exchanges.
THEOREM BalanceSyncTyping == Spec => []TypeOK
<1>1. IInv => TypeOK
  BY DEF IInv
<1> QED  BY <1>1, AlwaysInv, PTL

\* A reader works only with figures of a node that was at least as high when it
\* read them as its own was when it let them in.
THEOREM BalanceSyncNotBehind == Spec => []FiguresAreNotBehind
<1>1. IInv => FiguresAreNotBehind
  BY DEF IInv, ReadersOK, FiguresAreNotBehind
<1> QED  BY <1>1, AlwaysInv, PTL

\* An update never lowers what an address has in records.
THEOREM BalanceSyncRecords == Spec => RecordsAreNotLowered
<1>1. ASSUME TypeOK, NEW p \in Pair, NEW a \in Addr, Update(p), records[p[2]][a] > 0
      PROVE  records'[p[2]][a] >= records[p[2]][a]
  <2> DEFINE b == reader[p].due
             n == p[2]
             figure == reader[p].figures[b]
  <2>1. b \in Told(reader[p].figures) /\ n \in Node
    BY <1>1, PairFacts DEF Update, TypeOK
  <2>2. b \in Addr /\ figure \in Nat
    BY <1>1, <2>1 DEF Told, TypeOK, Figures, NoFigure
  <2>3. UpdateBalance(n, b, figure)
    BY <1>1 DEF Update
  <2>4. records \in [Node -> [Addr -> Nat]] /\ GetBalance(n, b) \in Nat
    BY <1>1, <2>1, <2>2, BalanceFacts DEF TypeOK
  <2> HIDE DEF b, n, figure
  <2>5. CASE figure > GetBalance(n, b)
    <3>1. records' = [records EXCEPT ![n][b] = figure]
      BY <2>3, <2>5 DEF UpdateBalance
    <3>2. CASE a = b
      BY <1>1, <2>1, <2>2, <2>4, <2>5, <3>1, <3>2 DEF GetBalance, n
    <3>3. CASE a # b
      BY <2>1, <2>2, <2>4, <3>1, <3>3 DEF n
    <3> QED  BY <3>2, <3>3
  <2>6. CASE ~(figure > GetBalance(n, b))
    BY <2>1, <2>3, <2>4, <2>6 DEF UpdateBalance, n
  <2> QED  BY <2>5, <2>6
<1>2. IInv => \A p \in Pair : \A a \in Addr :
         Update(p) /\ records[p[2]][a] > 0
           => records'[p[2]][a] >= records[p[2]][a]
  BY <1>1 DEF IInv
<1> QED  BY <1>2, AlwaysInv, PTL DEF RecordsAreNotLowered

\* When a reader is done with a figure, the address has it, or more.
THEOREM BalanceSyncTakesEffect == Spec => FiguresTakeEffect
<1>1. ASSUME TypeOK, [Next]_vars, NEW p \in Pair, NEW a \in Told(reader[p].figures),
             a \notin Told(reader'[p].figures), used'.restarts = used.restarts
      PROVE  GetBalance(p[2], a)' >= reader[p].figures[a]
  <2> DEFINE n == p[2]
             figure == reader[p].figures[a]
             Goal == GetBalance(n, a)' >= figure
  <2>0. /\ n \in Node /\ a \in Addr /\ figure \in Nat /\ reader[p].figures \in Figures
        /\ legacy[n] \in Figures /\ records[n] \in [Addr -> Nat]
        /\ DOMAIN reader = Pair /\ DOMAIN legacy = Node /\ DOMAIN records = Node
    <3>1. /\ n \in Node /\ reader[p].figures \in Figures
          /\ legacy[n] \in Figures /\ records[n] \in [Addr -> Nat]
          /\ DOMAIN reader = Pair /\ DOMAIN legacy = Node /\ DOMAIN records = Node
      BY <1>1, PairFacts DEF TypeOK
    <3>2. a \in Addr /\ figure # NoFigure
      BY <1>1 DEF Told
    <3> QED  BY <3>1, <3>2 DEF Figures
  <2>1. reader'[p] # reader[p] /\ reader[p] # Free
    <3>1. Free.figures = Nothing /\ Told(Nothing) = {}
      BY DEF Free, Told, Nothing
    <3> QED  BY <1>1, <3>1
  <2>2. ASSUME NEW k \in Node, Restart(k) PROVE FALSE
    <3>1. used.restarts \in Nat /\ used'.restarts = used.restarts + 1
      BY <1>1, <2>2 DEF Restart, TypeOK
    <3> QED  BY <1>1, <3>1
  <2>3. ASSUME NEW q \in Pair, NEW b \in Addr, Done(q, b) PROVE q = p /\ b = a
    <3>1. q = p
      BY <2>1, <2>3, <1>1, DoneReader
    <3>2. CASE Without(reader[p].figures, b) = Nothing /\ b # a
      <4>1. Nothing[a] = reader[p].figures[a] /\ Nothing[a] = NoFigure
        BY <2>0, <3>2 DEF Without, Figures, Nothing
      <4> QED  BY <1>1, <4>1 DEF Told
    <3>3. CASE Without(reader[p].figures, b) # Nothing /\ b # a
      <4>1. reader'[p].figures = Without(reader[p].figures, b)
        <5>1. reader' = [reader EXCEPT ![p] =
                [reader[p] EXCEPT !.figures = Without(reader[p].figures, b), !.due = NoAddr]]
          BY <2>3, <3>1, <3>3 DEF Done
        <5>2. reader[p] \in [figures : Figures, due : Addr \cup {NoAddr},
                             mine : Nat, read : Nat]
          BY <1>1 DEF TypeOK
        <5> QED  BY <2>0, <5>1, <5>2
      <4>2. reader'[p].figures[a] = reader[p].figures[a]
        BY <2>0, <3>3, <4>1 DEF Without, Figures
      <4> QED  BY <1>1, <2>0, <4>2 DEF Told
    <3> QED  BY <3>1, <3>2, <3>3
  <2>4. ASSUME NEW q \in Pair, NEW b \in Addr, Compare(q, b) PROVE Goal
    <3>1. CASE Done(q, b) /\ GetBalance(q[2], b) = reader[q].figures[b]
      <4>1. legacy' = legacy /\ records' = records /\ GetBalance(n, a) = figure
        BY <2>3, <2>4, <3>1 DEF Compare, ledger
      <4> QED  BY <2>0, <4>1 DEF GetBalance, Legacy
    <3>2. CASE reader' = [reader EXCEPT ![q].due = b]
      <4>1. reader'[p].figures = reader[p].figures
        BY <1>1, <2>0, <3>2 DEF TypeOK
      <4> QED  BY <1>1, <4>1
    <3> QED  BY <2>4, <3>1, <3>2 DEF Compare
  <2>5. ASSUME NEW q \in Pair, Update(q) PROVE Goal
    <3>1. reader[q].due \in Addr
      BY <1>1, <2>5 DEF Update, TypeOK, Told
    <3>2. q = p /\ reader[p].due = a /\ UpdateBalance(n, a, figure)
      BY <2>3, <2>5, <3>1 DEF Update
    <3>3. GetBalance(n, a) \in Nat
      BY <1>1, <2>0, BalanceFacts
    <3>4. /\ legacy'[n][a] = figure
          /\ records'[n][a] = IF figure > GetBalance(n, a) THEN figure ELSE records[n][a]
      <4> HIDE DEF n, figure
      <4> QED  BY <2>0, <3>2 DEF UpdateBalance, Figures
    <3> HIDE DEF n, figure
    <3>5. CASE figure > GetBalance(n, a)
      BY <2>0, <3>3, <3>4, <3>5 DEF GetBalance, Legacy
    <3>6. CASE ~(figure > GetBalance(n, a))
      BY <2>0, <3>3, <3>4, <3>6 DEF GetBalance, Legacy, NoFigure
    <3> QED  BY <3>5, <3>6
  <2>6. ASSUME NEW q \in Pair, TakeBalance(q) \/ TakeSync(q) PROVE FALSE
    <3>1. q # p => reader'[p] = reader[p]
      BY <2>0, <2>6 DEF TakeBalance, TakeSync
    <3>2. reader[q] = Free
      BY <2>6 DEF TakeBalance, TakeSync, Arrived
    <3> QED  BY <2>1, <3>1, <3>2
  <2>7. reader' # reader
    BY <2>1
  <2> HIDE DEF Goal
  <2>8. Goal
    BY <1>1, <2>2, <2>4, <2>5, <2>6, <2>7
       DEF Next, User, Read, AnswerBalance, WalletCreation, CreateNewWallet, ReadLastBlock,
           SaveGrant, CreditGrant, IncrementNodeCount, IncreaseValidatorStake, StarveStore,
           Transfer, RefuseTransfer, ReadHeight, SendBalances, AskBalance, vars
  <2> QED  BY <2>8 DEF Goal
<1>2. IInv /\ [Next]_vars =>
        \A p \in Pair : \A a \in Told(reader[p].figures) :
          a \notin Told(reader'[p].figures) /\ used'.restarts = used.restarts
            => GetBalance(p[2], a)' >= reader[p].figures[a]
  BY <1>1 DEF IInv
<1> QED  BY <1>2, AlwaysInv, PTL DEF Spec, FiguresTakeEffect
=============================================================================
