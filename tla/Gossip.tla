------------------------------- MODULE Gossip --------------------------------
(***************************************************************************)
(* Transactions flooding a network of nodes: SendCoins broadcasts to every *)
(* peer, and the handler of each connection processes what it receives and *)
(* then forwards it to every peer but the one it came from.  A write that  *)
(* has not ended after five seconds fails and its message is lost, the     *)
(* connection staying up; connections may also break, with what is under   *)
(* way on them.  Nothing sends a message again.  The transactions are      *)
(* those without inputs (SendCoins builds them for senders whose outputs   *)
(* are not in the stored set): only these are refused by a node where the  *)
(* sender cannot pay.                                                      *)
(***************************************************************************)
EXTENDS Naturals, Sequences, FiniteSets

CONSTANTS Node,
          Networks,   \* the networks to consider, each a set of connections:
                      \* pairs of nodes, in both directions
          Tx,
          Origin,     \* transaction -> the node it is sent from
          Needs,      \* transaction -> those that must have given its sender the coins
          MaxQueue,   \* bound: messages waiting on one connection
          MaxBreaks,  \* bound: connections that break
          MaxLossy,   \* bound: connections that lose messages for another
                      \* reason than MaxQueue
          Nothing

Connected(net) ==
    \A part \in (SUBSET Node) \ {{}, Node} :
        \E l \in net : l[1] \in part /\ l[2] \notin part

ASSUME NetworksAssumption ==
    \A net \in Networks :
        /\ net \subseteq Node \X Node /\ Connected(net)
        /\ \A l \in net : l[1] # l[2] /\ <<l[2], l[1]>> \in net

ASSUME TransactionsAssumption == Origin \in [Tx -> Node] /\ Needs \in [Tx -> SUBSET Tx]

VARIABLES
    links,    \* the connections that are up
    known,    \* node -> transactions with a tx_ key
    applied,  \* node -> transactions whose amount it moved
    queue,    \* connection -> transactions under way
    lossy,    \* history: connections on which a write has failed
    handling, \* connection -> what its reader has processed but not forwarded
    breaks    \* connections that broke

vars == <<links, known, applied, queue, lossy, handling, breaks>>

From(n) == {l \in links : l[1] = n}
BackLink(l) == <<l[2], l[1]>>

\* One message with t on each of the connections out, but for those where the
\* write is too late (or follows the first half of a line that was): its
\* failure is logged and nothing else.
SendOver(out, t) ==
    \E late \in SUBSET out :
        LET full == {l \in out : Len(queue[l]) >= MaxQueue}
        IN  /\ full \subseteq late
            /\ late \subseteq full \cup lossy \/ Cardinality(lossy \cup late) <= MaxLossy
            /\ queue' = [l \in DOMAIN queue |->
                            IF l \in out \ late THEN Append(queue[l], t) ELSE queue[l]]
            /\ lossy' = lossy \cup late

CanPay(n, t) == Needs[t] \subseteq applied[n]

Init ==
    /\ links \in Networks
    /\ known = [n \in Node |-> {}] /\ applied = [n \in Node |-> {}]
    /\ queue = [l \in links |-> << >>] /\ lossy = {}
    /\ handling = [l \in links |-> Nothing]
    /\ breaks = 0

\* core.Blockchain.SendCoins, with the broadcast inside bc.mu.
SendCoins(t) ==
    LET n == Origin[t]
    IN  /\ t \notin known[n] /\ CanPay(n, t)
        /\ known' = [known EXCEPT ![n] = @ \cup {t}]
        /\ applied' = [applied EXCEPT ![n] = @ \cup {t}]
        /\ SendOver(From(n), t)
        /\ UNCHANGED <<links, handling, breaks>>

\* Mutants: move the amount without recording the transaction; take a
\* transaction for new until it is applied; forward only what was known before.
ProcessUnrecorded(l) ==
    /\ queue[l] # << >> /\ handling[l] = Nothing
    /\ handling' = [handling EXCEPT ![l] = Head(queue[l])]
    /\ applied' = [applied EXCEPT ![l[2]] = @ \cup {Head(queue[l])}]
    /\ queue' = [queue EXCEPT ![l] = Tail(@)]
    /\ UNCHANGED <<links, known, lossy, breaks>>
ProcessApplied(l) ==
    /\ queue[l] # << >> /\ handling[l] = Nothing
    /\ LET t == Head(queue[l])
           n == l[2]
       IN  /\ known' = [known EXCEPT ![n] = @ \cup {t}]
           /\ IF t \in applied[n] THEN
                  handling' = [handling EXCEPT ![l] = t] /\ UNCHANGED applied
              ELSE IF CanPay(n, t) THEN
                  /\ applied' = [applied EXCEPT ![n] = @ \cup {t}]
                  /\ handling' = [handling EXCEPT ![l] = t]
              ELSE UNCHANGED <<applied, handling>>
    /\ queue' = [queue EXCEPT ![l] = Tail(@)]
    /\ UNCHANGED <<links, lossy, breaks>>
ProcessKeeping(l) ==
    /\ queue[l] # << >> /\ handling[l] = Nothing
    /\ LET t == Head(queue[l])
           n == l[2]
       IN  /\ known' = [known EXCEPT ![n] = @ \cup {t}]
           /\ applied' = [applied EXCEPT ![n] = @ \cup {t}]
           /\ handling' = [handling EXCEPT ![l] = IF t \in known[n] THEN t ELSE @]
    /\ queue' = [queue EXCEPT ![l] = Tail(@)]
    /\ UNCHANGED <<links, lossy, breaks>>

\* The reader of connection l takes a transaction to ProcessTransaction: new
\* and paid for it is applied, known it is skipped without an error, and
\* either way it will be forwarded; new and not paid for it is an error, and
\* known from then on.
Process(l) ==
    /\ queue[l] # << >> /\ handling[l] = Nothing
    /\ LET t == Head(queue[l])
           n == l[2]
       IN  /\ known' = [known EXCEPT ![n] = @ \cup {t}]
           /\ IF t \in known[n] THEN
                  handling' = [handling EXCEPT ![l] = t] /\ UNCHANGED applied
              ELSE IF CanPay(n, t) THEN
                  /\ applied' = [applied EXCEPT ![n] = @ \cup {t}]
                  /\ handling' = [handling EXCEPT ![l] = t]
              ELSE UNCHANGED <<applied, handling>>
    /\ queue' = [queue EXCEPT ![l] = Tail(@)]
    /\ UNCHANGED <<links, lossy, breaks>>

\* Mutant: the test for the sender is turned round.
ForwardToSender(l) ==
    /\ handling[l] # Nothing
    /\ SendOver({BackLink(l)}, handling[l])
    /\ handling' = [handling EXCEPT ![l] = Nothing]
    /\ UNCHANGED <<links, known, applied, breaks>>

\* handleTransaction's second half, with peersMutex and not bc.mu.
Forward(l) ==
    /\ handling[l] # Nothing
    /\ SendOver(From(l[2]) \ {BackLink(l)}, handling[l])
    /\ handling' = [handling EXCEPT ![l] = Nothing]
    /\ UNCHANGED <<links, known, applied, breaks>>

\* A connection breaks: nothing more is written to it, and of what is under
\* way its readers get what had arrived.  They finish what they handle.
Break(l) ==
    LET back == BackLink(l)
    IN  /\ breaks < MaxBreaks
        /\ breaks' = breaks + 1
        /\ links' = links \ {l, back}
        /\ \E i \in 0..Len(queue[l]), j \in 0..Len(queue[back]) :
              queue' = [queue EXCEPT ![l] = SubSeq(@, 1, i), ![back] = SubSeq(@, 1, j)]
        /\ UNCHANGED <<known, applied, lossy, handling>>

Next == \/ \E t \in Tx : SendCoins(t)
        \/ \E l \in DOMAIN queue : Process(l) \/ Forward(l)
        \/ \E l \in links : Break(l)

\* Readers are goroutines of their own and a write ends within five seconds:
\* each connection is served, as long as no call hangs in the ledger (BalanceSync
\* has those that do).  The users of the origins do send.
Spec == /\ Init /\ [][Next]_vars
        /\ \A t \in Tx : WF_vars(SendCoins(t))
        /\ \A l \in UNION Networks : /\ WF_vars(l \in DOMAIN queue /\ Process(l))
                                     /\ WF_vars(l \in DOMAIN queue /\ Forward(l))

(***************************************************************************)
(* Properties                                                              *)
(***************************************************************************)
\* A node records a transaction before it moves the amount and before it
\* tells anyone: what a node has applied, is about to forward, or has under
\* way on a connection, it would recognise if it came back.
UnderWayIsKnown ==
    /\ \A n \in Node : applied[n] \subseteq known[n]
    /\ \A l \in DOMAIN queue :
          /\ handling[l] \in known[l[2]] \cup {Nothing}
          /\ \A i \in DOMAIN queue[l] : queue[l][i] \in known[l[1]]

\* A node that refused a transaction for want of coins never applies it, not
\* when the coins have come and the transaction comes again over another
\* connection: the block saved before the check made it known.
RefusalIsFinal ==
    [][\A n \in Node : applied'[n] \cap (known[n] \ applied[n]) = {}]_vars

\* A transaction that needs no other is applied by every node, though others
\* are refused, writes fail and connections break with what is under way on
\* them, as long as those that never break nor fail a write connect the nodes
\* in both directions (handleTransaction, SendCoins, Peer.SendMessage).
EveryoneApplies ==
    []Connected(links \ lossy) =>
        \A t \in Tx : Needs[t] = {} => <>(\A n \in Node : t \in applied[n])

\* The flood of a transaction ends.  p2p/server.go:538 says so of any network:
\* "Only forward to other peers if this is new information", "This prevents
\* endless broadcast loops"; the code does it only where there is no cycle.
FloodEnds == <>[](\A l \in DOMAIN queue : queue[l] = << >> /\ handling[l] = Nothing)

\* No cycle of connections: among any nodes there are fewer than the nodes.
HasNoCycle ==
    \A part \in (SUBSET Node) \ {{}} :
        Cardinality({l \in links : l[1] \in part /\ l[2] \in part})
            <= 2 * (Cardinality(part) - 1)

\* It does where there never was a cycle, and where one was and has broken,
\* with transactions going round it at the time.
FloodEndsWithoutCycles == <>[]HasNoCycle => FloodEnds
=============================================================================
