---------------------------- MODULE GossipProofs -----------------------------
(***************************************************************************)
(* Two safety properties of the flooding, for every set of nodes, networks *)
(* and transactions: whatever is under way is known where it comes from,   *)
(* and a refusal is final.                                                 *)
(***************************************************************************)
EXTENDS Gossip, TLAPS

\* The connections the node started with, in both directions of which there
\* are queues and readers to the end.
LinksOK ==
    /\ DOMAIN queue \subseteq Node \X Node
    /\ \A l \in DOMAIN queue : l[1] # l[2]
    /\ links \subseteq DOMAIN queue
    /\ queue \in [DOMAIN queue -> Seq(Tx)]
    /\ handling \in [DOMAIN queue -> Tx \cup {Nothing}]

NodesOK ==
    known \in [Node -> SUBSET Tx] /\ applied \in [Node -> SUBSET Tx]

IInv == LinksOK /\ NodesOK /\ UnderWayIsKnown

\* The part of UnderWayIsKnown about one connection.
KnownOn(l) ==
    /\ handling[l] \in known[l[2]] \cup {Nothing}
    /\ \A i \in DOMAIN queue[l] : queue[l][i] \in known[l[1]]

-----------------------------------------------------------------------------
\* Nobody forgets: what is said of a connection stays true when its nodes get
\* to know more.
LEMMA KnowingMore ==
    ASSUME IInv, \A n \in Node : known[n] \subseteq known'[n],
           NEW l \in DOMAIN queue
    PROVE  /\ queue[l] \in Seq(Tx)
           /\ handling[l] \in known'[l[2]] \cup {Nothing}
           /\ \A i \in 1..Len(queue[l]) : queue[l][i] \in known'[l[1]]
<1>1. l[1] \in Node /\ l[2] \in Node
  BY DEF IInv, LinksOK
<1>2. queue[l] \in Seq(Tx)
  BY DEF IInv, LinksOK
<1>3. DOMAIN queue[l] = 1..Len(queue[l])
  BY <1>2
<1> QED
  BY <1>1, <1>2, <1>3 DEF IInv, UnderWayIsKnown

\* Sending t over connections out of nodes that know it.
LEMMA SendingKnown ==
    ASSUME IInv, NEW out \in SUBSET links, NEW t \in Tx, SendOver(out, t),
           \A n \in Node : known[n] \subseteq known'[n],
           \A l \in out : t \in known'[l[1]]
    PROVE  /\ DOMAIN queue' = DOMAIN queue
           /\ queue' \in [DOMAIN queue -> Seq(Tx)]
           /\ \A l \in DOMAIN queue :
                 \A i \in DOMAIN queue'[l] : queue'[l][i] \in known'[l[1]]
<1>0. PICK late \in SUBSET out :
         queue' = [l \in DOMAIN queue |->
                     IF l \in out \ late THEN Append(queue[l], t) ELSE queue[l]]
  BY DEF SendOver
<1> DEFINE sent(l) == IF l \in out \ late THEN Append(queue[l], t) ELSE queue[l]
<1>1. queue' = [l \in DOMAIN queue |-> sent(l)]
  BY <1>0
<1>2. ASSUME NEW l \in DOMAIN queue
      PROVE  /\ sent(l) \in Seq(Tx)
             /\ \A i \in DOMAIN sent(l) : sent(l)[i] \in known'[l[1]]
  <2>1. /\ queue[l] \in Seq(Tx)
        /\ \A j \in 1..Len(queue[l]) : queue[l][j] \in known'[l[1]]
    BY KnowingMore
  <2>2. CASE l \notin out \ late
    BY <2>1, <2>2
  <2>3. CASE l \in out \ late
    <3>1. sent(l) = Append(queue[l], t) /\ t \in known'[l[1]]
      BY <2>3
    <3>2. /\ Append(queue[l], t) \in Seq(Tx)
          /\ DOMAIN Append(queue[l], t) = 1..Len(queue[l]) + 1
          /\ \A i \in 1..Len(queue[l]) + 1 :
                Append(queue[l], t)[i] = IF i = Len(queue[l]) + 1 THEN t ELSE queue[l][i]
      BY <2>1
    <3>3. \A i \in 1..Len(queue[l]) + 1 : i = Len(queue[l]) + 1 \/ i \in 1..Len(queue[l])
      BY <2>1
    <3> HIDE DEF sent
    <3> QED
      BY <2>1, <3>1, <3>2, <3>3
  <2> QED
    BY <2>2, <2>3
<1> HIDE DEF sent
<1> QED
  BY <1>1, <1>2

-----------------------------------------------------------------------------
LEMMA InitIInv == Init => IInv
<1> SUFFICES ASSUME Init PROVE IInv
  OBVIOUS
<1>1. links \subseteq Node \X Node /\ \A l \in links : l[1] # l[2]
  BY NetworksAssumption DEF Init
<1> QED
  BY <1>1 DEF Init, IInv, LinksOK, NodesOK, UnderWayIsKnown

LEMMA SendCoinsIInv ==
    ASSUME IInv, NEW t \in Tx, SendCoins(t)
    PROVE  IInv'
<1> DEFINE n == Origin[t]
<1>1. n \in Node
  BY TransactionsAssumption
<1>2. /\ known' = [known EXCEPT ![n] = @ \cup {t}]
      /\ applied' = [applied EXCEPT ![n] = @ \cup {t}]
      /\ SendOver(From(n), t)
      /\ links' = links /\ handling' = handling
  BY DEF SendCoins
<1> HIDE DEF n
<1>3. \A m \in Node : known[m] \subseteq known'[m]
  BY <1>2 DEF IInv, NodesOK
<1>4. t \in known'[n]
  BY <1>1, <1>2 DEF IInv, NodesOK
<1>5. /\ DOMAIN queue' = DOMAIN queue
      /\ queue' \in [DOMAIN queue -> Seq(Tx)]
      /\ \A l \in DOMAIN queue :
            \A i \in DOMAIN queue'[l] : queue'[l][i] \in known'[l[1]]
  <2>1. From(n) \in SUBSET links /\ \A l \in From(n) : t \in known'[l[1]]
    BY <1>4 DEF From
  <2> QED
    BY <1>2, <1>3, <2>1, SendingKnown
<1>6. \A l \in DOMAIN queue : handling'[l] \in known'[l[2]] \cup {Nothing}
  BY <1>2, <1>3, KnowingMore
<1>7. NodesOK' /\ \A m \in Node : applied'[m] \subseteq known'[m]
  BY <1>1, <1>2 DEF IInv, NodesOK, UnderWayIsKnown
<1>8. LinksOK'
  BY <1>2, <1>5 DEF IInv, LinksOK
<1> QED
  BY <1>5, <1>6, <1>7, <1>8 DEF IInv, UnderWayIsKnown

LEMMA ProcessIInv ==
    ASSUME IInv, NEW l \in DOMAIN queue, Process(l)
    PROVE  IInv'
<1> DEFINE t == Head(queue[l])
           n == l[2]
<1>1. /\ n \in Node /\ queue[l] \in Seq(Tx) /\ queue[l] # << >> /\ t \in Tx
  BY DEF Process, IInv, LinksOK
<1>2. /\ known' = [known EXCEPT ![n] = @ \cup {t}]
      /\ handling' = [handling EXCEPT ![l] = t] \/ handling' = handling
      /\ applied' = [applied EXCEPT ![n] = @ \cup {t}] \/ applied' = applied
      /\ queue' = [queue EXCEPT ![l] = Tail(@)]
      /\ links' = links
  BY DEF Process
<1> HIDE DEF n, t
<1>3. \A m \in Node : known[m] \subseteq known'[m]
  BY <1>2 DEF IInv, NodesOK
<1>4. t \in known'[n]
  BY <1>1, <1>2 DEF IInv, NodesOK
<1>5. NodesOK' /\ \A m \in Node : applied'[m] \subseteq known'[m]
  BY <1>1, <1>2 DEF IInv, NodesOK, UnderWayIsKnown
<1>6. LinksOK'
  <2>1. Tail(queue[l]) \in Seq(Tx)
    BY <1>1
  <2>2. queue' \in [DOMAIN queue -> Seq(Tx)] /\ DOMAIN queue' = DOMAIN queue
    BY <1>2, <2>1 DEF IInv, LinksOK
  <2>3. handling' \in [DOMAIN queue -> Tx \cup {Nothing}]
    BY <1>1, <1>2 DEF IInv, LinksOK
  <2> QED
    BY <1>2, <2>2, <2>3 DEF IInv, LinksOK
<1>7. ASSUME NEW k \in DOMAIN queue'
      PROVE  handling'[k] \in known'[k[2]] \cup {Nothing}
  <2>1. k \in DOMAIN queue
    BY <1>2, <1>7
  <2>2. handling[k] \in known'[k[2]] \cup {Nothing}
    BY <1>3, <2>1, KnowingMore
  <2> QED
    BY <1>2, <1>4, <2>1, <2>2 DEF n, IInv, LinksOK
<1>8. ASSUME NEW k \in DOMAIN queue', NEW i \in DOMAIN queue'[k]
      PROVE  queue'[k][i] \in known'[k[1]]
  <2>1. k \in DOMAIN queue /\ queue[k] \in Seq(Tx)
    BY <1>2, <1>8 DEF IInv, LinksOK
  <2>2. \A j \in DOMAIN queue[k] : queue[k][j] \in known'[k[1]]
    BY <1>3, <2>1, KnowingMore
  <2>3. CASE k # l
    BY <1>2, <1>8, <2>1, <2>2, <2>3
  <2>4. CASE k = l
    <3>1. queue'[k] = Tail(queue[k])
      BY <1>2, <2>1, <2>4
    <3>2. i \in 1..Len(queue[k]) - 1 /\ queue'[k][i] = queue[k][i + 1]
      BY <1>1, <1>8, <2>1, <2>4, <3>1
    <3> QED
      BY <2>1, <2>2, <3>2
  <2> QED
    BY <2>3, <2>4
<1> QED
  BY <1>5, <1>6, <1>7, <1>8 DEF IInv, UnderWayIsKnown

LEMMA ForwardIInv ==
    ASSUME IInv, NEW l \in DOMAIN queue, Forward(l)
    PROVE  IInv'
<1> DEFINE t == handling[l]
           out == From(l[2]) \ {BackLink(l)}
<1>1. l[2] \in Node /\ t \in Tx /\ t \in known[l[2]]
  BY DEF Forward, IInv, LinksOK, UnderWayIsKnown
<1>2. /\ SendOver(out, t)
      /\ handling' = [handling EXCEPT ![l] = Nothing]
      /\ links' = links /\ known' = known /\ applied' = applied
  BY DEF Forward
<1>3. out \in SUBSET links /\ \A k \in out : k[1] = l[2]
  BY DEF From
<1>7. /\ \A m \in Node : known[m] \subseteq known'[m]
      /\ \A k \in out : t \in known'[k[1]]
  BY <1>1, <1>2, <1>3
<1> HIDE DEF t, out
<1>4. /\ DOMAIN queue' = DOMAIN queue
      /\ queue' \in [DOMAIN queue -> Seq(Tx)]
      /\ \A k \in DOMAIN queue :
            \A i \in DOMAIN queue'[k] : queue'[k][i] \in known[k[1]]
  BY <1>1, <1>2, <1>3, <1>7, SendingKnown
<1>5. LinksOK' /\ NodesOK'
  BY <1>2, <1>4 DEF IInv, LinksOK, NodesOK
<1>6. \A k \in DOMAIN queue : handling'[k] \in known[k[2]] \cup {Nothing}
  BY <1>2 DEF IInv, LinksOK, UnderWayIsKnown
<1> QED
  BY <1>2, <1>4, <1>5, <1>6 DEF IInv, UnderWayIsKnown

LEMMA BreakIInv ==
    ASSUME IInv, NEW l \in links, Break(l)
    PROVE  IInv'
<1> DEFINE back == BackLink(l)
<1>1. /\ links' = links \ {l, back}
      /\ known' = known /\ applied' = applied /\ handling' = handling
  BY DEF Break
<1>2. PICK i \in 0..Len(queue[l]), j \in 0..Len(queue[back]) :
         queue' = [queue EXCEPT ![l] = SubSeq(@, 1, i), ![back] = SubSeq(@, 1, j)]
  BY DEF Break
<1>3. l \in DOMAIN queue /\ queue \in [DOMAIN queue -> Seq(Tx)]
  BY DEF IInv, LinksOK
<1>4. ASSUME NEW s \in Seq(Tx), NEW m \in 0..Len(s)
      PROVE  /\ SubSeq(s, 1, m) \in Seq(Tx)
             /\ Len(SubSeq(s, 1, m)) = m
             /\ \A k \in 1..m : SubSeq(s, 1, m)[k] = s[k]
  BY <1>4
<1>9. back # l
  <2>1. l[1] # l[2] /\ l = <<l[1], l[2]>>
    BY <1>3 DEF IInv, LinksOK
  <2> QED
    BY <2>1 DEF BackLink
<1> HIDE DEF back
<1>5. DOMAIN queue' = DOMAIN queue
  BY <1>2
<1>6. ASSUME NEW k \in DOMAIN queue
      PROVE  /\ queue'[k] \in Seq(Tx)
             /\ \A x \in DOMAIN queue'[k] : queue'[k][x] \in known[k[1]]
  <2>1. queue[k] \in Seq(Tx) /\ \A x \in 1..Len(queue[k]) : queue[k][x] \in known[k[1]]
    BY <1>3 DEF IInv, UnderWayIsKnown
  <2>2. CASE k = l /\ k # back
    <3>1. queue'[k] = SubSeq(queue[k], 1, i)
      BY <1>2, <1>3, <2>2
    <3> QED
      BY <1>4, <2>1, <2>2, <3>1
  <2>3. CASE k = back /\ k # l
    <3>1. queue'[k] = SubSeq(queue[k], 1, j)
      BY <1>2, <1>3, <2>3
    <3> QED
      BY <1>4, <2>1, <2>3, <3>1
  <2>4. CASE k = l /\ k = back
    BY <1>3, <2>4, <1>9
  <2>5. CASE k # l /\ k # back
    <3>1. queue'[k] = queue[k]
      BY <1>2, <2>5
    <3> QED
      BY <2>1, <3>1
  <2> QED
    BY <2>2, <2>3, <2>4, <2>5
<1>7. queue' \in [DOMAIN queue -> Seq(Tx)]
  <2>1. queue' = [k \in DOMAIN queue |-> queue'[k]]
    BY <1>2
  <2> QED
    BY <1>6, <2>1
<1>8. LinksOK' /\ NodesOK'
  BY <1>1, <1>5, <1>7 DEF IInv, LinksOK, NodesOK
<1> QED
  BY <1>1, <1>5, <1>6, <1>8 DEF IInv, UnderWayIsKnown

LEMMA NextIInv == IInv /\ [Next]_vars => IInv'
<1> SUFFICES ASSUME IInv, [Next]_vars PROVE IInv'
  OBVIOUS
<1>1. CASE \E t \in Tx : SendCoins(t)
  BY <1>1, SendCoinsIInv
<1>2. CASE \E l \in DOMAIN queue : Process(l)
  BY <1>2, ProcessIInv
<1>3. CASE \E l \in DOMAIN queue : Forward(l)
  BY <1>3, ForwardIInv
<1>4. CASE \E l \in links : Break(l)
  BY <1>4, BreakIInv
<1>5. CASE UNCHANGED vars
  BY <1>5 DEF vars, IInv, LinksOK, NodesOK, UnderWayIsKnown
<1> QED
  BY <1>1, <1>2, <1>3, <1>4, <1>5 DEF Next

\* The implementation's order of writes keeps UnderWayIsKnown on any network:
\* ProcessTransaction saves the tx_ key before it moves the amount and returns,
\* and only then does handleTransaction forward.
THEOREM GossipKnown == Spec => []UnderWayIsKnown
<1>1. IInv => UnderWayIsKnown
  BY DEF IInv
<1> QED
  BY InitIInv, NextIInv, <1>1, PTL DEF Spec

\* A refused transaction is never applied by the node that refused it: the
\* duplicate check of ProcessTransaction does not ask whether the amount moved.
THEOREM GossipRefusals == Spec => RefusalIsFinal
<1>1. ASSUME IInv, [Next]_vars
      PROVE  \A n \in Node : applied'[n] \cap (known[n] \ applied[n]) = {}
  <2> SUFFICES ASSUME NEW n \in Node
               PROVE  applied'[n] \cap (known[n] \ applied[n]) = {}
    OBVIOUS
  <2>1. CASE applied' = applied
    BY <2>1
  <2>2. ASSUME NEW m \in Node, NEW t, t \notin known[m],
               applied' = [applied EXCEPT ![m] = @ \cup {t}]
        PROVE  applied'[n] \cap (known[n] \ applied[n]) = {}
    BY <1>1, <2>2 DEF IInv, NodesOK
  <2>3. CASE \E t \in Tx : SendCoins(t)
    BY <2>2, <2>3, TransactionsAssumption DEF SendCoins
  <2>4. ASSUME NEW l \in DOMAIN queue, Process(l)
        PROVE  applied'[n] \cap (known[n] \ applied[n]) = {}
    <3>1. l[2] \in Node
      BY <1>1 DEF IInv, LinksOK
    <3> QED
      BY <2>1, <2>2, <2>4, <3>1 DEF Process
  <2> QED
    BY <1>1, <2>1, <2>3, <2>4 DEF Next, Forward, Break, vars
<1> QED
  BY InitIInv, NextIInv, <1>1, PTL DEF Spec, RefusalIsFinal
=============================================================================
