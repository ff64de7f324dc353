--------------------------- MODULE PeerTableProofs ---------------------------
(***************************************************************************)
(* The peer table for any addresses and any number of connections alive at *)
(* a time.  Entries and readers are tied in both directions: an entry has  *)
(* its reader, and an open connection that is read is the entry of its     *)
(* address.  The second is what Accept and Register rely on and RemovePeer,*)
(* which goes by the address and not by the connection, keeps.             *)
(***************************************************************************)
EXTENDS PeerTable, TLAPS

\* An open connection with a reader is in the table.
OpenAreEntered ==
    \A c \in Conn :
        phase[c] = "reading" /\ sock[c] = "open" => peers[at[c]] = c

\* Until Stop, whatever may be closed has its quit channel open.
QuitOK ==
    ~stopped =>
        /\ ~panicked
        /\ \A a \in Registered : peers[a] \notin quitClosed
        /\ \A c \in Conn : phase[c] \in {"dialing", "dialed"} => c \notin quitClosed

IInv == TypeOK /\ EntriesAreWatched /\ OpenAreEntered /\ QuitOK

-----------------------------------------------------------------------------
LEMMA InitIInv == Init => IInv
<1> SUFFICES ASSUME Init PROVE IInv
  OBVIOUS
<1>1. TypeOK
  <2>1. (CHOOSE a \in Addr : TRUE) \in Addr
    BY PeerTableAssumption
  <2> QED
    BY <2>1 DEF Init, TypeOK
<1>2. EntriesAreWatched /\ OpenAreEntered /\ QuitOK
  BY DEF Init, EntriesAreWatched, OpenAreEntered, QuitOK, Registered
<1> QED
  BY <1>1, <1>2 DEF IInv

\* A dial begins on a connection that is in no entry.
LEMMA StartDialIInv ==
    ASSUME IInv, NEW c \in Conn, NEW a \in Addr, StartDial(c, a),
           spawned' \subseteq Listed
    PROVE  IInv'
<1> USE DEF IInv, StartDial, Become, env, flags
<1>1. TypeOK'
  BY DEF TypeOK
<1>2. EntriesAreWatched' /\ OpenAreEntered'
  BY DEF TypeOK, EntriesAreWatched, OpenAreEntered, Registered
<1>3. QuitOK'
  BY DEF TypeOK, QuitOK, Registered
<1> QED
  BY <1>1, <1>2, <1>3

\* A dial ends, or is given up, or a socket is lost: no entry changes.
LEMMA QuietIInv ==
    ASSUME IInv, NEW c \in Conn, UNCHANGED <<peers, at, quitClosed, spawned, flags>>,
           NEW p \in {"free", "dialed", "reading", "abandoned"},
           NEW s \in {"none", "open", "lost", "closed"},
           Become(c, p, s),
           \/ p = "reading" /\ phase[c] = "reading" /\ s # "open"
           \/ p # "reading" /\ phase[c] # "reading",
           p = "dialed" => phase[c] \in {"dialing", "dialed"}
    PROVE  IInv'
<1> USE DEF IInv, Become, flags
<1>1. TypeOK'
  BY DEF TypeOK
<1>2. EntriesAreWatched' /\ OpenAreEntered'
  BY DEF TypeOK, EntriesAreWatched, OpenAreEntered, Registered
<1>3. QuitOK'
  BY DEF TypeOK, QuitOK, Registered
<1> QED
  BY <1>1, <1>2, <1>3

\* A connection is entered under its own address, where no open one is read.
LEMMA EnteringIInv ==
    ASSUME IInv, NEW c \in Conn, NEW a \in Addr,
           phase[c] # "reading",
           peers' = [peers EXCEPT ![a] = c], Become(c, "reading", "open"),
           at' = [at EXCEPT ![c] = a], quitClosed' = quitClosed \ {c},
           \A d \in Conn : at[d] = a /\ phase[d] = "reading" => sock[d] # "open",
           UNCHANGED <<spawned, flags>>
    PROVE  IInv'
<1> USE DEF IInv, Become, flags
<1>1. TypeOK'
  BY DEF TypeOK
<1>2. EntriesAreWatched'
  BY DEF TypeOK, EntriesAreWatched, Registered
<1>3. OpenAreEntered'
  BY DEF TypeOK, OpenAreEntered
<1>4. QuitOK'
  BY DEF TypeOK, QuitOK, Registered
<1> QED
  BY <1>1, <1>2, <1>3, <1>4

LEMMA RegisterIInv == ASSUME IInv, NEW c \in Conn, Register(c) PROVE IInv'
<1> USE DEF IInv
<1>1. at[c] \in Addr /\ sock[c] \in {"none", "open", "lost", "closed"}
  BY DEF TypeOK
<1>2. CASE peers[at[c]] = NoConn
  <2>1. /\ peers' = [peers EXCEPT ![at[c]] = c] /\ Become(c, "reading", sock[c])
        /\ UNCHANGED <<at, quitClosed, spawned, flags>> /\ phase[c] = "dialed"
    BY <1>2 DEF Register, flags
  <2> USE DEF Become, flags
  <2>2. TypeOK'
    BY <1>1, <2>1 DEF TypeOK
  <2>3. EntriesAreWatched'
    BY <1>1, <2>1 DEF TypeOK, EntriesAreWatched, Registered
  <2>4. OpenAreEntered'
    BY <1>1, <1>2, <2>1, PeerTableAssumption DEF TypeOK, OpenAreEntered
  <2>5. QuitOK'
    BY <1>1, <2>1 DEF TypeOK, QuitOK, Registered
  <2> QED
    BY <2>2, <2>3, <2>4, <2>5
<1>3. CASE peers[at[c]] # NoConn
  <2>1. /\ Close(c) /\ Become(c, "free", "closed") /\ phase[c] = "dialed"
        /\ UNCHANGED <<peers, at, spawned, stopped>>
    BY <1>3 DEF Register
  <2> USE DEF Become, Close
  <2>2. TypeOK'
    BY <2>1 DEF TypeOK
  <2>3. EntriesAreWatched' /\ OpenAreEntered'
    BY <2>1 DEF TypeOK, EntriesAreWatched, OpenAreEntered, Registered
  <2>4. \A a \in Registered : peers[a] # c
    BY <2>1 DEF EntriesAreWatched
  <2>5. QuitOK'
    BY <2>1, <2>4 DEF TypeOK, QuitOK, Registered
  <2> QED
    BY <2>2, <2>3, <2>5
<1> QED
  BY <1>2, <1>3

LEMMA RemovePeerIInv == ASSUME IInv, NEW c \in Conn, RemovePeer(c) PROVE IInv'
<1> USE DEF IInv
<1> DEFINE d == peers[at[c]]
<1>1. at[c] \in Addr /\ phase[c] = "reading" /\ sock[c] # "open"
      /\ UNCHANGED <<at, spawned, stopped>>
  BY DEF TypeOK, RemovePeer
<1>2. CASE d = NoConn
  <2>1. Become(c, "free", sock[c]) /\ UNCHANGED <<peers, quitClosed, panicked>>
    BY <1>2 DEF RemovePeer
  <2>2. \A a \in Registered : peers[a] # c
    BY <1>2 DEF EntriesAreWatched, Registered
  <2> USE DEF Become
  <2>3. TypeOK'
    BY <1>1, <2>1 DEF TypeOK
  <2>4. EntriesAreWatched' /\ OpenAreEntered'
    BY <1>1, <2>1, <2>2 DEF TypeOK, EntriesAreWatched, OpenAreEntered, Registered
  <2>5. QuitOK'
    BY <1>1, <2>1 DEF TypeOK, QuitOK, Registered
  <2> QED
    BY <2>3, <2>4, <2>5
<1>3. CASE d # NoConn
  <2>1. /\ Close(d) /\ peers' = [peers EXCEPT ![at[c]] = NoConn]
        /\ phase' = [phase EXCEPT ![c] = "free"] /\ sock' = [sock EXCEPT ![d] = "closed"]
    BY <1>3 DEF RemovePeer
  <2>2. /\ at[c] \in Registered /\ d \in Conn /\ phase[d] = "reading" /\ at[d] = at[c]
    BY <1>1, <1>3 DEF TypeOK, EntriesAreWatched, Registered
  <2>3. \A a \in Registered : peers[a] \in {c, d} => a = at[c]
    BY <2>2 DEF EntriesAreWatched
  <2> HIDE DEF d
  <2>4. TypeOK'
    BY <1>1, <2>1, <2>2 DEF TypeOK, Close
  <2>5. EntriesAreWatched'
    BY <1>1, <2>1, <2>3 DEF TypeOK, EntriesAreWatched, Registered
  <2>6. OpenAreEntered'
    <3> SUFFICES ASSUME NEW e \in Conn, phase'[e] = "reading", sock'[e] = "open"
                 PROVE  peers'[at[e]] = e
      BY <1>1 DEF OpenAreEntered
    <3>1. e # d /\ sock[e] = "open" /\ phase[e] = "reading" /\ at[e] \in Addr
      BY <1>1, <2>1, <2>2 DEF TypeOK
    <3>2. peers[at[e]] = e
      BY <3>1 DEF OpenAreEntered
    <3>3. at[e] # at[c]
      BY <3>1, <3>2 DEF d
    <3> QED
      BY <2>1, <3>1, <3>2, <3>3 DEF TypeOK
  <2>7. QuitOK'
    <3> SUFFICES ASSUME ~stopped PROVE QuitOK'
      BY <1>1 DEF QuitOK
    <3>1. ~panicked /\ d \notin quitClosed
      BY <2>2 DEF QuitOK, d
    <3>2. ~panicked' /\ quitClosed' = quitClosed \cup {d}
      BY <2>1, <3>1 DEF Close
    <3>3. \A a \in Registered' : a \in Registered /\ peers'[a] = peers[a] /\ peers[a] # d
      BY <1>1, <2>1, <2>3 DEF TypeOK, Registered
    <3>4. \A e \in Conn : phase'[e] \in {"dialing", "dialed"} =>
                             phase[e] \in {"dialing", "dialed"} /\ e # d
      BY <1>1, <2>1, <2>2 DEF TypeOK
    <3> QED
      BY <3>2, <3>3, <3>4 DEF QuitOK
  <2> QED
    BY <2>4, <2>5, <2>6, <2>7
<1> QED
  BY <1>2, <1>3

LEMMA StopIInv == ASSUME IInv, Stop PROVE IInv'
<1> USE DEF IInv, Stop
<1>1. {peers[a] : a \in Registered} \subseteq Conn
  BY DEF TypeOK, Registered
<1>2. TypeOK'
  BY <1>1 DEF TypeOK
<1>3. EntriesAreWatched'
  BY DEF EntriesAreWatched, Registered
<1>4. OpenAreEntered'
  BY DEF TypeOK, OpenAreEntered
<1>5. QuitOK'
  BY DEF QuitOK
<1> QED
  BY <1>2, <1>3, <1>4, <1>5

LEMMA NextIInv == IInv /\ [Next]_vars => IInv'
<1> SUFFICES ASSUME IInv, [Next]_vars PROVE IInv'
  OBVIOUS
<1>1. ASSUME NEW c \in Conn, NEW a \in Bootstrap, ensureBootstrapConnections(c, a)
      PROVE  IInv'
  BY <1>1, StartDialIInv DEF ensureBootstrapConnections, Addr, IInv, TypeOK
<1>2. ASSUME NEW c \in Conn, NEW a \in Listed, AddListed(c, a) PROVE IInv'
  <2>1. spawned' \subseteq Listed
    BY <1>2 DEF AddListed, IInv, TypeOK
  <2>2. CASE StartDial(c, a)
    BY <2>1, <2>2, StartDialIInv DEF Addr
  <2>3. CASE UNCHANGED <<peers, conns, env, flags>>
    BY <2>1, <2>3 DEF conns, flags, IInv, TypeOK, EntriesAreWatched, OpenAreEntered,
       QuitOK, Registered
  <2> QED
    BY <1>2, <2>2, <2>3 DEF AddListed
<1>3. ASSUME NEW c \in Conn, NEW a \in Inbound, Accept(c, a) PROVE IInv'
  <2>1. a \in Addr
    BY DEF Addr
  <2>2. /\ phase[c] # "reading" /\ peers' = [peers EXCEPT ![a] = c]
        /\ Become(c, "reading", "open") /\ at' = [at EXCEPT ![c] = a]
        /\ quitClosed' = quitClosed \ {c} /\ UNCHANGED <<spawned, flags>>
        /\ \A d \in Conn : at[d] = a /\ phase[d] = "reading" => sock[d] # "open"
    BY <1>3 DEF Accept
  <2> QED
    BY <2>1, <2>2, EnteringIInv
<1>4. ASSUME NEW c \in Conn, ConnectOk(c) PROVE IInv'
  <2>1. UNCHANGED <<peers, at, quitClosed, spawned, flags>>
    BY <1>4 DEF ConnectOk
  <2>2. CASE phase[c] = "dialing" /\ Become(c, "dialed", "open")
    BY <2>1, <2>2, QuietIInv
  <2>3. CASE phase[c] = "abandoned" /\ Become(c, "free", "none")
    BY <2>1, <2>3, QuietIInv
  <2> QED
    BY <1>4, <2>2, <2>3 DEF ConnectOk
<1>5. ASSUME NEW c \in Conn, ConnectFails(c) PROVE IInv'
  BY <1>5, QuietIInv DEF ConnectFails
<1>6. ASSUME NEW c \in Conn, GiveUp(c) PROVE IInv'
  <2>1. UNCHANGED <<peers, at, quitClosed, spawned, flags>>
    BY <1>6 DEF GiveUp
  <2>2. CASE phase[c] = "dialing" /\ Become(c, "abandoned", "none")
    BY <2>1, <2>2, QuietIInv
  <2>3. CASE phase[c] = "dialed" /\ Become(c, "free", "none")
    BY <2>1, <2>3, QuietIInv
  <2> QED
    BY <1>6, <2>2, <2>3 DEF GiveUp
<1>7. ASSUME NEW c \in Conn, Lose(c) PROVE IInv'
  <2>1. phase[c] \in {"dialed", "reading"} /\ Become(c, phase[c], "lost")
        /\ UNCHANGED <<peers, at, quitClosed, spawned, flags>>
    BY <1>7 DEF Lose, Become, IInv, TypeOK
  <2> QED
    BY <2>1, QuietIInv
<1>8. ASSUME NEW list \in SUBSET Listed, handlePeerList(list) PROVE IInv'
  <2>1. spawned' \subseteq Listed /\ UNCHANGED <<peers, conns, flags>>
    BY <1>8 DEF handlePeerList, IInv, TypeOK
  <2> QED
    BY <2>1 DEF conns, flags, IInv, TypeOK, EntriesAreWatched, OpenAreEntered, QuitOK,
       Registered
<1>9. CASE NetworkChanges \/ UNCHANGED vars
  <2>1. UNCHANGED <<peers, conns, spawned, flags>>
    BY <1>9 DEF NetworkChanges, vars
  <2> QED
    BY <2>1 DEF conns, flags, IInv, TypeOK, EntriesAreWatched, OpenAreEntered, QuitOK,
       Registered
<1> QED
  BY <1>1, <1>2, <1>3, <1>4, <1>5, <1>6, <1>7, <1>8, <1>9, RegisterIInv, RemovePeerIInv,
     StopIInv DEF Next

-----------------------------------------------------------------------------
\* Entries and open connections agree throughout.
THEOREM PeerTableInvariant == Spec => []IInv
<1> QED
  BY InitIInv, NextIInv, PTL DEF Spec

\* The table refers to connections or to nothing (TypeOK; s.peers).
THEOREM PeerTableTyping == Spec => []TypeOK
<1>1. IInv => TypeOK
  BY DEF IInv
<1> QED
  BY <1>1, PeerTableInvariant, PTL

\* Every entry has a reader that will remove it (EntriesAreWatched; AddPeer,
\* acceptConnections, readMessages), for any number of dials at a time.
THEOREM PeerTableWatched == Spec => []EntriesAreWatched
<1>1. IInv => EntriesAreWatched
  BY DEF IInv
<1> QED
  BY <1>1, PeerTableInvariant, PTL

\* No two open connections to an address are read (OneConnectionPerAddress;
\* the second look at the table in AddPeer).
THEOREM PeerTableOneConnection == Spec => []OneConnectionPerAddress
<1>1. IInv => OneConnectionPerAddress
  BY DEF IInv, OpenAreEntered, OneConnectionPerAddress
<1> QED
  BY <1>1, PeerTableInvariant, PTL

\* No quit channel is closed twice before Stop (NoPanic; Close, called by
\* AddPeer and RemovePeer).
THEOREM PeerTableNoPanic == Spec => []NoPanic
<1>1. IInv => NoPanic
  BY DEF IInv, QuitOK, NoPanic
<1> QED
  BY <1>1, PeerTableInvariant, PTL
=============================================================================
