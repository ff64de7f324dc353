------------------------------ MODULE PeerTable ------------------------------
(***************************************************************************)
(* The peer table of p2p/server.go and the connections of p2p/peer.go: who *)
(* may add, overwrite and remove an entry of s.peers while dials run       *)
(* without the lock, give up after two seconds, and readers end on their   *)
(* own.  Each critical section of peersMutex is one action.                *)
(*                                                                         *)
(* A connection goes from "free" to "dialing" (AddPeer waits for Connect), *)
(* "dialed" (the result is in connectChan) and "reading" (in the table,    *)
(* its reader runs); from "dialing" to "abandoned" when AddPeer gave up    *)
(* first.  A Peer that nothing refers to any more is "free" again.         *)
(***************************************************************************)
EXTENDS Integers, FiniteSets

CONSTANTS Conn,       \* Peer objects that may exist at a time: a bound
          Bootstrap,  \* addresses of the bootstrap nodes
          Listed,     \* addresses peers tell us of
          Inbound,    \* remote addresses of connections we accept
          MaxPeers,   \* 20: maxTotalPeers
          MaxNewPeers,\* 5: maxNewPeers
          MaxOutages, \* bound on the outages of the network
          CanStop,    \* whether Stop is called
          NoConn

Addr == Bootstrap \cup Listed \cup Inbound

ASSUME PeerTableAssumption == Addr # {} /\ NoConn \notin Conn

VARIABLES
    peers,     \* s.peers: address -> connection
    phase, at, sock,    \* of each connection: phase, address, socket
    quitClosed,\* connections whose quit channel was closed
    spawned,   \* addresses for which handlePeerList started "go s.AddPeer"
    network,   \* "up" or "down"
    outages,
    stopped,   \* s.quit is closed
    panicked   \* a quit channel was closed twice

conns == <<phase, at, sock, quitClosed>>
env == <<network, outages>>
flags == <<stopped, panicked>>
vars == <<peers, conns, spawned, env, flags>>

Registered == {a \in Addr : peers[a] # NoConn}

Init ==
    /\ peers = [a \in Addr |-> NoConn]
    /\ phase = [c \in Conn |-> "free"]
    /\ at = [c \in Conn |-> CHOOSE a \in Addr : TRUE]
    /\ sock = [c \in Conn |-> "none"]
    /\ quitClosed = {} /\ spawned = {}
    /\ network = "up" /\ outages = 0
    /\ stopped = FALSE /\ panicked = FALSE

Become(c, p, s) == phase' = [phase EXCEPT ![c] = p] /\ sock' = [sock EXCEPT ![c] = s]

(***************************************************************************)
(* AddPeer                                                                 *)
(***************************************************************************)
\* The check under the lock, and the dial started outside it.
StartDial(c, a) ==
    /\ phase[c] = "free"
    /\ peers[a] = NoConn
    /\ Become(c, "dialing", "none")
    /\ at' = [at EXCEPT ![c] = a]
    /\ quitClosed' = quitClosed \ {c}
    /\ UNCHANGED <<peers, env, flags>>

\* From Start and ensureBootstrapConnections, every minute or sooner.
ensureBootstrapConnections(c, a) ==
    /\ ~stopped
    /\ StartDial(c, a) /\ UNCHANGED spawned

\* From a goroutine of handlePeerList; nothing happens if a is in the table.
AddListed(c, a) ==
    /\ a \in spawned
    /\ spawned' = spawned \ {a}
    /\ \/ StartDial(c, a)
       \/ peers[a] # NoConn /\ UNCHANGED <<peers, conns, env, flags>>

\* Connect returns.  An abandoned dial that succeeds leaves its socket open
\* with nobody to close it.
ConnectOk(c) ==
    /\ network = "up"
    /\ \/ phase[c] = "dialing" /\ Become(c, "dialed", "open")
       \/ phase[c] = "abandoned" /\ Become(c, "free", "none")
    /\ UNCHANGED <<peers, at, quitClosed, spawned, env, flags>>

ConnectFails(c) ==
    /\ network = "down"
    /\ phase[c] \in {"dialing", "abandoned"}
    /\ Become(c, "free", "none")
    /\ UNCHANGED <<peers, at, quitClosed, spawned, env, flags>>

\* Two seconds pass first: only a slow or broken network makes a dial last.
\* If the result is there too, select picks either.
GiveUp(c) ==
    /\ network = "down"
    /\ \/ phase[c] = "dialing" /\ Become(c, "abandoned", "none")
       \/ phase[c] = "dialed" /\ Become(c, "free", "none")
    /\ UNCHANGED <<peers, at, quitClosed, spawned, env, flags>>

\* Close of the connection d: its quit channel must be open.
Close(d) ==
    /\ quitClosed' = quitClosed \cup {d}
    /\ panicked' = (panicked \/ d \in quitClosed)

\* Mutants: the table is not looked at again; the older connection is closed.
RegisterAlways(c) ==
    /\ phase[c] = "dialed"
    /\ peers' = [peers EXCEPT ![at[c]] = c]
    /\ Become(c, "reading", sock[c])
    /\ UNCHANGED <<at, quitClosed, spawned, env, flags>>
RegisterCloses(c) ==
    /\ phase[c] = "dialed"
    /\ IF peers[at[c]] = NoConn
       THEN /\ peers' = [peers EXCEPT ![at[c]] = c]
            /\ Become(c, "reading", sock[c])
            /\ UNCHANGED <<quitClosed, panicked>>
       ELSE /\ Close(peers[at[c]])
            /\ Become(c, "free", "closed")
            /\ UNCHANGED peers
    /\ UNCHANGED <<at, spawned, env, stopped>>

\* The second critical section: registered, unless somebody else was first.
Register(c) ==
    /\ phase[c] = "dialed"
    /\ IF peers[at[c]] = NoConn
       THEN /\ peers' = [peers EXCEPT ![at[c]] = c]
            /\ Become(c, "reading", sock[c])
            /\ UNCHANGED <<quitClosed, panicked>>
       ELSE /\ Close(c)
            /\ Become(c, "free", "closed")
            /\ UNCHANGED peers
    /\ UNCHANGED <<at, spawned, env, stopped>>

(***************************************************************************)
(* Accepting, losing and removing connections                              *)
(***************************************************************************)
\* acceptConnections puts the peer in the table whatever is there.  The
\* address is free for the remote side once its older connection is gone.
Accept(c, a) ==
    /\ ~stopped /\ network = "up"
    /\ phase[c] = "free"
    /\ \A d \in Conn : at[d] = a /\ phase[d] = "reading" => sock[d] # "open"
    /\ peers' = [peers EXCEPT ![a] = c]
    /\ Become(c, "reading", "open")
    /\ at' = [at EXCEPT ![c] = a]
    /\ quitClosed' = quitClosed \ {c}
    /\ UNCHANGED <<spawned, env, flags>>

\* The other side or the network ends the connection; the reader does not
\* notice while it is handling a message.
Lose(c) ==
    /\ sock[c] = "open" /\ phase[c] \in {"dialed", "reading"}
    /\ network = "down"
    /\ sock' = [sock EXCEPT ![c] = "lost"]
    /\ UNCHANGED <<peers, phase, at, quitClosed, spawned, env, flags>>

\* Mutants: the entry may be missing; the entry is left in the table.
RemovePeerUnchecked(c) ==
    /\ phase[c] = "reading" /\ sock[c] # "open"
    /\ Close(peers[at[c]])
    /\ peers' = [peers EXCEPT ![at[c]] = NoConn]
    /\ Become(c, "free", sock[c])
    /\ UNCHANGED <<at, spawned, env, stopped>>
RemovePeerKeeps(c) ==
    /\ phase[c] = "reading" /\ sock[c] # "open"
    /\ Become(c, "free", "closed")
    /\ UNCHANGED <<peers, at, quitClosed, spawned, env, flags>>

\* The end of readMessages: RemovePeer closes and removes whatever is in the
\* table under the address of this connection.
RemovePeer(c) ==
    /\ phase[c] = "reading" /\ sock[c] # "open"
    /\ LET d == peers[at[c]]
       IN  IF d = NoConn
           THEN Become(c, "free", sock[c]) /\ UNCHANGED <<peers, quitClosed, panicked>>
           ELSE /\ Close(d)
                /\ peers' = [peers EXCEPT ![at[c]] = NoConn]
                /\ phase' = [phase EXCEPT ![c] = "free"]
                /\ sock' = [sock EXCEPT ![d] = "closed"]
    /\ UNCHANGED <<at, spawned, env, stopped>>

(***************************************************************************)
(* Peer lists, stopping, the network                                       *)
(***************************************************************************)
\* handlePeerList: the number of peers is read once, then a goroutine is
\* started for each new address, at most MaxNewPeers of them.
handlePeerList(list) ==
    /\ ~stopped
    /\ Cardinality(list) <= MaxNewPeers
    /\ Cardinality(Registered) < MaxPeers
    /\ spawned' = spawned \cup {a \in list : peers[a] = NoConn}
    /\ UNCHANGED <<peers, conns, env, flags>>

\* Stop closes every peer of the table and leaves them there.
Stop ==
    /\ CanStop /\ ~stopped
    /\ stopped' = TRUE
    /\ LET all == {peers[a] : a \in Registered}
       IN  /\ quitClosed' = quitClosed \cup all
           /\ panicked' = (panicked \/ all \cap quitClosed # {})
           /\ sock' = [c \in Conn |-> IF c \in all THEN "closed" ELSE sock[c]]
    /\ UNCHANGED <<peers, phase, at, spawned, env>>

NetworkChanges ==
    /\ \/ network = "up" /\ outages < MaxOutages /\ network' = "down" /\ outages' = outages + 1
       \/ network = "down" /\ network' = "up" /\ UNCHANGED outages
    /\ UNCHANGED <<peers, conns, spawned, flags>>

Next ==
    \/ \E c \in Conn :
        \/ \E a \in Bootstrap : ensureBootstrapConnections(c, a)
        \/ \E a \in Listed : AddListed(c, a)
        \/ \E a \in Inbound : Accept(c, a)
        \/ ConnectOk(c) \/ ConnectFails(c) \/ GiveUp(c) \/ Register(c)
        \/ Lose(c) \/ RemovePeer(c)
    \/ \E list \in SUBSET Listed : handlePeerList(list)
    \/ Stop
    \/ NetworkChanges

Spec == Init /\ [][Next]_vars

\* The tickers go on, goroutines are scheduled, a dial ends, a reader sees
\* the end of its connection, an outage ends.  The tickers need no free Peer
\* object, whose number is bounded here only: strong fairness.
Fairness ==
    /\ \A a \in Bootstrap : SF_vars(\E c \in Conn : ensureBootstrapConnections(c, a))
    /\ \A c \in Conn : WF_vars(ConnectOk(c) \/ ConnectFails(c))
                       /\ WF_vars(Register(c)) /\ WF_vars(RemovePeer(c))
    /\ WF_vars(network = "down" /\ NetworkChanges)

FairSpec == Spec /\ Fairness

(***************************************************************************)
(* Properties                                                              *)
(***************************************************************************)
\* The table refers to connections or to nothing.
TypeOK ==
    /\ peers \in [Addr -> Conn \cup {NoConn}]
    /\ phase \in [Conn -> {"free", "dialing", "dialed", "reading", "abandoned"}]
    /\ at \in [Conn -> Addr]
    /\ sock \in [Conn -> {"none", "open", "lost", "closed"}]
    /\ quitClosed \subseteq Conn /\ spawned \subseteq Listed

\* Every entry of the table is watched by a reader that will remove it when
\* its connection ends, whatever dials, accepts and removals came between: no
\* dead peer stays in the table for good.
EntriesAreWatched ==
    \A a \in Registered : phase[peers[a]] = "reading" /\ at[peers[a]] = a

\* Two AddPeer calls for one address (two tickers, a peer list and the CLI)
\* never leave two open connections to it.
OneConnectionPerAddress ==
    \A c, d \in Conn :
        c # d /\ phase[c] = "reading" /\ phase[d] = "reading" /\ at[c] = at[d]
            => ~(sock[c] = "open" /\ sock[d] = "open")

\* Until Stop is called no quit channel is closed twice, which would end the
\* whole program, although AddPeer, RemovePeer and Accept all handle peers.
NoPanic == panicked => stopped

\* Once the network stays up, the node is connected to every bootstrap node
\* and stays so until it stops (periodicSync, ensureBootstrapConnections,
\* RemovePeer).
StaysBootstrapped ==
    <>[](stopped \/ \A a \in Bootstrap : peers[a] # NoConn /\ sock[peers[a]] = "open")
=============================================================================
