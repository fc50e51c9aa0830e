--------------------------- MODULE ReceiverMonitor ---------------------------
(***************************************************************************)
(* RTCPMonitor and its RTCPReceiverTable: a thread that asks the stream    *)
(* manager every few passes which streams are being transmitted, keeps one *)
(* joined socket for the RTCP port of each, and files who reports on them. *)
(***************************************************************************)
EXTENDS ObservationTable, Sequences

CONSTANTS
    RtpPorts,          \* destination ports of the streams that may be sent
    Ssrcs,             \* the reporters there may be
    MaxReporters,      \* kMaxReporters
    ReporterTimeout,   \* kReporterTimeout, in ticks
    ReconcileEvery,    \* passes between two reconcile(): 8
    MaxOpenFailures    \* bound: sockets the system refuses

ASSUME MonitorAssumption ==
    /\ IsFiniteSet(Ssrcs)
    /\ MaxReporters \in Nat \ {0}
    /\ ReporterTimeout \in Nat /\ ReporterTimeout < Old

VARIABLES
    transmitting,      \* the ports of getTransmitSessions()
    monitoring,        \* running_
    monitor,           \* the thread: "none", "loops", "ended"
    sinceReconcile,
    sockets,           \* RTCP ports with an open socket
    memberships,       \* those whose multicast join is in force
    openFailures,
    reporters,         \* table_: ssrc -> row
    reportersShown,    \* what reporters() has just returned, if it has (a set)
    reportersHeard     \* history: age of each reporter's last recorded report

monitorVars == <<transmitting, monitoring, monitor, sinceReconcile, sockets, memberships,
                 openFailures, reporters, reportersShown, reportersHeard>>

\* The device's endpoint provider: RTP destination + 1, in 16 bits.
rtcpPort(port) == (port + 1) % 65536

\* What reconcile() wants open: port 0 is no endpoint.
wanted == {rtcpPort(port) : port \in transmitting} \ {0}

(***************************************************************************)
(* A compound packet is a sequence of blocks.  "RR" stands for SR and RR,  *)
(* which parse() treats alike; "CUT" is a block that claims more bytes     *)
(* than are left or another version, at which parse() stops; "BYE" for the *)
(* types it skips.                                                         *)
(***************************************************************************)
Block(pt, ssrc) == [pt |-> pt, ssrc |-> ssrc]

Packets ==
    {<<Block("RR", a)>> : a \in Ssrcs}
    \cup {<<Block("RR", a), Block("SDES", a)>> : a \in Ssrcs}
    \cup {<<Block("SDES", a), Block("BYE", a)>> : a \in Ssrcs}
    \cup {<<Block("RR", a), Block("CUT", a), Block("RR", b)>> : a, b \in Ssrcs}
    \cup {<<Block("RR", a), Block("RR", b)>> : a, b \in Ssrcs}

\* The blocks parse() reads, by their place in the packet.
readableBlocks(packet) == {i \in DOMAIN packet : \A j \in 1..i : packet[j].pt # "CUT"}

\* parse(): every report there is, and the SSRCs that SDES names.
reports(packet) == {i \in readableBlocks(packet) : packet[i].pt = "RR"}
reporterSSRCs(packet) == {packet[i].ssrc : i \in reports(packet)}
cnames(packet) == {packet[i].ssrc : i \in {j \in readableBlocks(packet) : packet[j].pt = "SDES"}}

\* RTCPReceiverTable::record() for one report: the tables it may leave.  A
\* CNAME once learnt stays with the row.
recordReporter(rows, ssrc, named) ==
    {put(room, ssrc, [named |-> named \/ (ssrc \in DOMAIN room /\ room[ssrc].named), age |-> 0])
        : room \in roomFor(rows, ssrc, MaxReporters)}

\* deliverPacket(): every report of the packet in turn, under the mutex.
deliverPacket(packet) ==
    LET recorded[n \in 0..Len(packet)] ==
            IF n = 0 THEN {reporters}
            ELSE IF n \notin reports(packet) THEN recorded[n - 1]
            ELSE UNION {recordReporter(rows, packet[n].ssrc, packet[n].ssrc \in cnames(packet))
                           : rows \in recorded[n - 1]}
    IN  recorded[Len(packet)]

MonitorInit ==
    /\ transmitting = {}
    /\ monitoring = FALSE
    /\ monitor = "none"
    /\ sinceReconcile = ReconcileEvery
    /\ sockets = {}
    /\ memberships = {}
    /\ openFailures = 0
    /\ reporters = [s \in {} |-> 0]
    /\ reportersShown = {}
    /\ reportersHeard = [s \in Ssrcs |-> Old]

startMonitor ==
    /\ ~monitoring
    /\ monitor = "none"
    /\ monitoring' = TRUE
    /\ monitor' = "loops"
    /\ sinceReconcile' = ReconcileEvery     \* 1000: reconcile on the first pass
    /\ reportersShown' = {}
    /\ UNCHANGED <<transmitting, sockets, memberships, openFailures, reporters, reportersHeard>>

\* Mutant: only a socket that has just been opened is joined.
joinedBy_newOnly(kept, opened) == (memberships \cap kept) \cup opened

\* The join is issued again on every socket, the ones already open too.
joinedBy(kept, opened) == kept \cup opened

\* Close what is no longer wanted, open what is, join all of it again.
reconcile ==
    LET kept == sockets \cap wanted
    IN  \E opened \in SUBSET (wanted \ sockets) :
           LET refused == Cardinality((wanted \ sockets) \ opened)
           IN  /\ openFailures + refused <= MaxOpenFailures
               /\ openFailures' = openFailures + refused
               /\ sockets' = kept \cup opened
               /\ memberships' = joinedBy(kept, opened)

\* Whatever select() found: nothing in time, a signal, or one packet on a
\* socket that the group still reaches.
afterSelect ==
    \/ UNCHANGED <<reporters, reportersHeard>>
    \/ /\ memberships' # {}
       /\ \E packet \in Packets :
             /\ reporters' \in deliverPacket(packet)
             /\ reportersHeard' = [s \in Ssrcs |->
                    IF s \in reporterSSRCs(packet) THEN 0 ELSE reportersHeard[s]]

\* One pass of run().
monitorPass ==
    /\ monitor = "loops"
    /\ monitoring
    /\ IF sinceReconcile >= ReconcileEvery
       THEN reconcile /\ sinceReconcile' = 1
       ELSE sinceReconcile' = sinceReconcile + 1 /\ UNCHANGED <<sockets, memberships, openFailures>>
    /\ afterSelect
    /\ reportersShown' = {}
    /\ UNCHANGED <<transmitting, monitoring, monitor>>

\* run() leaves: running_ was cleared, or select() failed on a socket.
monitorEnds ==
    /\ monitor = "loops"
    /\ ~monitoring \/ sockets # {}
    /\ monitor' = "ended"
    /\ reportersShown' = {}
    /\ UNCHANGED <<transmitting, monitoring, sinceReconcile, sockets, memberships, openFailures,
                   reporters, reportersHeard>>

stopMonitor ==
    /\ monitoring
    /\ monitoring' = FALSE
    /\ reportersShown' = {}
    /\ UNCHANGED <<transmitting, monitor, sinceReconcile, sockets, memberships, openFailures,
                   reporters, reportersHeard>>

\* stop() after the join: the sockets are closed, the table stays.
joinMonitor ==
    /\ ~monitoring
    /\ monitor = "ended"
    /\ monitor' = "none"
    /\ sockets' = {}
    /\ memberships' = {}
    /\ reportersShown' = {}
    /\ UNCHANGED <<transmitting, monitoring, sinceReconcile, openFailures, reporters, reportersHeard>>

\* reporters(), from any thread: sweep, then copy.
askReporters ==
    /\ reporters' = sweep(reporters, ReporterTimeout)
    /\ reportersShown' = {DOMAIN reporters'}
    /\ UNCHANGED <<transmitting, monitoring, monitor, sinceReconcile, sockets, memberships,
                   openFailures, reportersHeard>>

\* A transmit stream is added or removed.
StreamChanges ==
    /\ \E port \in RtpPorts :
          transmitting' = IF port \in transmitting THEN transmitting \ {port}
                                                   ELSE transmitting \cup {port}
    /\ reportersShown' = {}
    /\ UNCHANGED <<monitoring, monitor, sinceReconcile, sockets, memberships, openFailures,
                   reporters, reportersHeard>>

\* The interface goes down and up: the kernel has forgotten the joins.
InterfaceFlaps ==
    /\ memberships # {}
    /\ memberships' = {}
    /\ reportersShown' = {}
    /\ UNCHANGED <<transmitting, monitoring, monitor, sinceReconcile, sockets, openFailures,
                   reporters, reportersHeard>>

MonitorTick ==
    /\ reporters' = aged(reporters)
    /\ reportersHeard' = [s \in Ssrcs |-> grownOlder(reportersHeard[s])]
    /\ reportersShown' = {}
    /\ UNCHANGED <<transmitting, monitoring, monitor, sinceReconcile, sockets, memberships,
                   openFailures>>

MonitorNext ==
    \/ startMonitor \/ stopMonitor \/ joinMonitor \/ monitorPass \/ monitorEnds
    \/ askReporters
    \/ StreamChanges \/ InterfaceFlaps
    \/ MonitorTick

\* The thread is scheduled as long as it loops; select() returns in 250 ms.
MonitorFairness == WF_monitorVars(monitorPass)

MonitorSpec == MonitorInit /\ [][MonitorNext]_monitorVars /\ MonitorFairness

(***************************************************************************)
(* reporters() is the receivers heard within the timeout, whatever order   *)
(* reports, sweeps and evictions came in.                                  *)
(***************************************************************************)
ReportersShownTruly ==
    \A answer \in reportersShown :
        /\ AnswersTruly(answer, reportersHeard, ReporterTimeout, MaxReporters)
        /\ Cardinality(answer) <= MaxReporters

(***************************************************************************)
(* A stream that goes on being transmitted is listened to again and again, *)
(* however often the interface loses the membership: reconcile() renews    *)
(* the join of the sockets it already has.                                 *)
(***************************************************************************)
ListenedAgain ==
    \A port \in RtpPorts :
        (rtcpPort(port) # 0 /\ <>[](port \in transmitting /\ monitoring /\ monitor = "loops"))
            => []<>(rtcpPort(port) \in memberships)
=============================================================================
