----------------------------- MODULE PeerObserver -----------------------------
(***************************************************************************)
(* PTPPeerObserver and its PTPPeerTable: two sockets on the PTP event and  *)
(* general ports, one thread that reads them, a table of clock identities  *)
(* with the message types each has sent, and peers(), which the HAL calls  *)
(* from its own threads and which is the only thing that sweeps.           *)
(***************************************************************************)
EXTENDS ObservationTable

CONSTANTS
    Clocks,        \* the clock identities on the segment
    MaxPeers,      \* kMaxPeers
    PeerTimeout    \* kPeerTimeout, in ticks

ASSUME PeerAssumption ==
    /\ IsFiniteSet(Clocks)
    /\ MaxPeers \in Nat \ {0}
    /\ PeerTimeout \in Nat /\ PeerTimeout < Old

VARIABLES
    fds,           \* the sockets that are open: a subset of Ports
    watching,      \* running_
    watcher,       \* the thread: "none", "loops", "ended"
    arrived,       \* per socket, the datagram not yet read, if any (a set)
    peers,         \* table_: clock identity -> row
    peersShown,    \* what peers() has just returned, if it has (a set)
    peersHeard     \* history: age of each identity's last recorded message

peerVars == <<fds, watching, watcher, arrived, peers, peersShown, peersHeard>>

Ports == {"event", "general"}

(***************************************************************************)
(* Message types by the port they arrive on, one for each thing the table  *)
(* tells apart: Sync and Announce are a master's, DelayReq a slave's;      *)
(* Short is a datagram under the 34 bytes of a PTP header.                 *)
(***************************************************************************)
TypesOn(port) == IF port = "event" THEN {"Sync", "DelayReq", "Short"}
                                   ELSE {"Announce"}

MasterTypes == {"Sync", "Announce"}
SlaveTypes == {"DelayReq"}

roleFromMask(types) ==
    LET m == types \cap MasterTypes # {}
        s == types \cap SlaveTypes # {}
    IN  IF m /\ s THEN "mixed" ELSE IF m THEN "master" ELSE IF s THEN "slave" ELSE "unknown"

PeerInit ==
    /\ fds = {}
    /\ watching = FALSE
    /\ watcher = "none"
    /\ arrived = [port \in Ports |-> {}]
    /\ peers = [c \in {} |-> 0]
    /\ peersShown = {}
    /\ peersHeard = [c \in Clocks |-> Old]

\* start(): either socket may fail to bind; both failing is a refusal.
startObserver ==
    /\ ~watching
    /\ watcher = "none"
    /\ \E opened \in SUBSET Ports :
          /\ fds' = opened
          /\ watching' = (opened # {})
          /\ watcher' = IF opened # {} THEN "loops" ELSE "none"
    /\ arrived' = [port \in Ports |-> {}]
    /\ peersShown' = {}
    /\ UNCHANGED <<peers, peersHeard>>

\* The network puts a datagram into a socket that is open and not shut down;
\* a full one loses it.
Datagram(port, clock, type) ==
    /\ port \in fds
    /\ watching
    /\ arrived[port] = {}
    /\ arrived' = [arrived EXCEPT ![port] = {[clock |-> clock, type |-> type]}]
    /\ peersShown' = {}
    /\ UNCHANGED <<fds, watching, watcher, peers, peersHeard>>

\* deliverMessage() with PTPPeerTable::record(), under the mutex.
recordPeer(m) ==
    IF m.type = "Short" THEN UNCHANGED <<peers, peersHeard>>
    ELSE /\ \E rows \in roomFor(peers, m.clock, MaxPeers) :
               peers' = put(rows, m.clock,
                            [types |-> {m.type} \cup
                                       (IF m.clock \in DOMAIN rows THEN rows[m.clock].types ELSE {}),
                             age |-> 0])
         /\ peersHeard' = [peersHeard EXCEPT ![m.clock] = 0]

\* One pass of run() that finds a socket readable: handleReadable().
readPort(port) ==
    /\ watcher = "loops"
    /\ \E m \in arrived[port] : recordPeer(m)
    /\ arrived' = [arrived EXCEPT ![port] = {}]
    /\ peersShown' = {}
    /\ UNCHANGED <<fds, watching, watcher>>

\* run() leaves: running_ was cleared, or select() failed.
watcherEnds ==
    /\ watcher = "loops"
    /\ watcher' = "ended"
    /\ peersShown' = {}
    /\ UNCHANGED <<fds, watching, arrived, peers, peersHeard>>

\* stop(): clears running_, then shuts the sockets down and waits ...
stopObserver ==
    /\ watching
    /\ watching' = FALSE
    /\ peersShown' = {}
    /\ UNCHANGED <<fds, watcher, arrived, peers, peersHeard>>

\* ... until the thread has gone, and closes the sockets.
joinObserver ==
    /\ ~watching
    /\ watcher = "ended"
    /\ watcher' = "none"
    /\ fds' = {}
    /\ arrived' = [port \in Ports |-> {}]
    /\ peersShown' = {}
    /\ UNCHANGED <<watching, peers, peersHeard>>

\* peers(), from any thread: sweep, then copy.
askPeers ==
    /\ peers' = sweep(peers, PeerTimeout)
    /\ peersShown' = {[c \in DOMAIN peers' |-> roleFromMask(peers'[c].types)]}
    /\ UNCHANGED <<fds, watching, watcher, arrived, peersHeard>>

\* A second passes (steady_clock).
PeerTick ==
    /\ peers' = aged(peers)
    /\ peersHeard' = [c \in Clocks |-> grownOlder(peersHeard[c])]
    /\ peersShown' = {}
    /\ UNCHANGED <<fds, watching, watcher, arrived>>

PeerNext ==
    \/ startObserver \/ stopObserver \/ joinObserver \/ watcherEnds
    \/ \E port \in Ports :
          \/ readPort(port)
          \/ \E clock \in Clocks, type \in TypesOn(port) : Datagram(port, clock, type)
    \/ askPeers
    \/ PeerTick

PeerSpec == PeerInit /\ [][PeerNext]_peerVars

(***************************************************************************)
(* peers() is "who is actually still on the PTP network right now"         *)
(* (AES67Device.cpp, GetPtpPeersProperty): nobody silent for longer than   *)
(* the timeout, and nobody heard within it left out unless the table was   *)
(* full of clocks heard since.  Rows are aged by queries alone and evicted *)
(* by messages alone, so the answer depends on both orders.                *)
(***************************************************************************)
PeersShownTruly ==
    \A answer \in peersShown :
        /\ AnswersTruly(DOMAIN answer, peersHeard, PeerTimeout, MaxPeers)
        /\ Cardinality(DOMAIN answer) <= MaxPeers
=============================================================================
