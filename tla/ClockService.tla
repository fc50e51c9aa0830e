----------------------------- MODULE ClockService -----------------------------
(***************************************************************************)
(* How a PTP lock reaches the audio side of one clock domain: the daemon   *)
(* aes67ptpd publishes its slave's status over a local socket              *)
(* (PTPService.cpp), PTPDInterface turns it into the state that PTPClock   *)
(* and the audio threads read, or runs an engine of its own when there is  *)
(* no daemon, and PTPClockManager creates and removes the clock.           *)
(*                                                                         *)
(* A tick is one heartbeat of the daemon (kPTPServiceHeartbeatMs). A       *)
(* status carries only its sequence number and its lock.                   *)
(***************************************************************************)
EXTENDS Naturals, Sequences

CONSTANTS
  MasterCapable,  \* PTPMasterSettings::masterCapable
  Stale,          \* kPTPServiceStaleMs in heartbeats (4)
  StatusNumbers,   \* sequence numbers, counted modulo this
  QueueMax,       \* statuses the socket holds for a reader that is behind
  MaxServiceFaults,      \* bound: daemon starts, stops, crashes, lock changes, ...
  SinceMax        \* bound: heartbeats counted since the daemon was locked

ASSUME ClockServiceAssumption ==
  /\ MasterCapable \in BOOLEAN
  /\ Stale \in Nat \ {0} /\ StatusNumbers \in Nat \ {0, 1, 2} /\ QueueMax \in Nat \ {0}
  /\ MaxServiceFaults \in Nat /\ SinceMax \in Nat /\ SinceMax > Stale + 2

VARIABLES
  daemonUp, daemonLocked, \* the daemon process and its slave's lock
  sameBuild,      \* it speaks this build's version of the status
  socketFile,     \* the socket's file exists
  seq,            \* PTPServiceServer::sequence_
  published,      \* it has published in this heartbeat
  served,         \* the server still has this client in clients_
  fd,             \* PTPServiceClient::fd_ is open
  queue,          \* statuses in the socket
  clientUp,       \* PTPServiceClient::running_
  haveStatus, status, statusAge, \* haveStatus_, status_, heartbeats since receivedAt_
  exists,         \* the domain is in PTPClockManager::clocks_
  ifaceRunning,   \* PTPClock::running_ and PTPDInterface::running_
  objs,           \* which of serviceClient_, ptpArbitrator_, ptpSlave_ are set
  stub,           \* stubMode_
  engineUp, engineLocked, \* the local arbitrator or slave
  isLocked,       \* state_.isLocked, what the audio side reads
  lastSeq,        \* lastServiceSequence_
  polled,         \* serviceLoop has run in this heartbeat
  since,          \* history: heartbeats since the daemon's slave was locked
  repeats,        \* history: statuses taken for the last one since that one was
  serviceFaults

daemonVars == <<daemonUp, daemonLocked, sameBuild, socketFile, seq, published>>
wireVars == <<served, fd, queue>>
clientVars == <<clientUp, haveStatus, status, statusAge, repeats>>
ifaceVars == <<exists, ifaceRunning, objs, stub, engineUp, engineLocked, isLocked, lastSeq, polled>>
serviceVars == <<daemonVars, wireVars, clientVars, ifaceVars, since, serviceFaults>>

NoStatus == [seq |-> 0, locked |-> FALSE]
Statuses == [seq : 0..(StatusNumbers - 1), locked : BOOLEAN]

ServiceInit ==
  /\ daemonUp = FALSE /\ daemonLocked = FALSE /\ sameBuild = TRUE
  /\ socketFile = FALSE /\ seq = 0 /\ published = FALSE
  /\ served = FALSE /\ fd = FALSE /\ queue = <<>>
  /\ clientUp = FALSE /\ haveStatus = FALSE /\ status = NoStatus /\ statusAge = 0
  /\ repeats = 0
  /\ exists = FALSE /\ ifaceRunning = FALSE /\ objs = {} /\ stub = FALSE
  /\ engineUp = FALSE /\ engineLocked = FALSE /\ isLocked = FALSE
  /\ lastSeq = 0 /\ polled = FALSE
  /\ since = SinceMax /\ serviceFaults = 0

ServiceFault == serviceFaults < MaxServiceFaults /\ serviceFaults' = serviceFaults + 1

(***************************************************************************)
(* The daemon                                                              *)
(***************************************************************************)

\* run(): the server takes the socket path over, then the slave starts.
daemonStart ==
  /\ ~daemonUp /\ ServiceFault
  /\ daemonUp' = TRUE /\ socketFile' = TRUE /\ seq' = 0 /\ published' = FALSE
  /\ daemonLocked' = FALSE
  /\ sameBuild' \in BOOLEAN
  /\ UNCHANGED <<wireVars, clientVars, ifaceVars, since>>

\* The end of run(): readers closed, socket unlinked; a crash leaves the file.
daemonEnd(crashed) ==
  /\ daemonUp /\ ServiceFault
  /\ daemonUp' = FALSE /\ daemonLocked' = FALSE
  /\ socketFile' = crashed
  /\ served' = FALSE
  /\ UNCHANGED <<sameBuild, seq, published, fd, queue, clientVars, ifaceVars, since>>

daemonLockChange ==
  /\ daemonUp /\ ServiceFault
  /\ daemonLocked' = ~daemonLocked
  /\ since' = IF daemonLocked' THEN 0 ELSE since
  /\ UNCHANGED <<daemonUp, sameBuild, socketFile, seq, published, wireVars,
                 clientVars, ifaceVars>>

\* publish(): a reader whose socket is full misses this status and is kept.
publish ==
  /\ daemonUp /\ ~published
  /\ published' = TRUE
  /\ seq' = (seq + 1) % StatusNumbers
  /\ queue' = IF served /\ Len(queue) < QueueMax
              THEN Append(queue, [seq |-> seq', locked |-> daemonLocked])
              ELSE queue
  /\ UNCHANGED <<daemonUp, daemonLocked, sameBuild, socketFile, served, fd,
                 clientVars, ifaceVars, since, serviceFaults>>

\* acceptLoop() at kMaxClients: the oldest reader is closed for a new one.
evict ==
  /\ served /\ ServiceFault
  /\ served' = FALSE
  /\ UNCHANGED <<daemonVars, fd, queue, clientVars, ifaceVars, since>>

(***************************************************************************)
(* PTPServiceClient                                                        *)
(***************************************************************************)

connectOnce ==
  /\ clientUp /\ ~fd /\ daemonUp
  /\ fd' = TRUE /\ served' = TRUE /\ queue' = <<>>
  /\ UNCHANGED <<daemonVars, clientVars, ifaceVars, since, serviceFaults>>

\* readLoop() with a whole status, and with the end of the stream. A status
\* of another build closes the connection instead of being taken.
readStatus ==
  /\ clientUp /\ fd /\ queue # <<>>
  /\ IF sameBuild
     THEN /\ status' = Head(queue) /\ haveStatus' = TRUE /\ statusAge' = 0
          /\ queue' = Tail(queue)
          /\ repeats' = IF isLocked /\ Head(queue).seq = lastSeq THEN repeats + 1 ELSE repeats
          /\ UNCHANGED <<fd, served>>
     ELSE /\ fd' = FALSE /\ served' = FALSE /\ queue' = <<>>
          /\ UNCHANGED <<status, haveStatus, statusAge, repeats>>
  /\ UNCHANGED <<daemonVars, clientUp, ifaceVars, since, serviceFaults>>

readEnd ==
  /\ clientUp /\ fd /\ queue = <<>> /\ ~served
  /\ fd' = FALSE
  /\ UNCHANGED <<daemonVars, served, queue, clientVars, ifaceVars, since, serviceFaults>>

\* Mutant: a status received once is good for ever.
hasFreshStatus_forever == haveStatus

hasFreshStatus == haveStatus /\ statusAge <= Stale

(***************************************************************************)
(* PTPDInterface and PTPClock                                              *)
(***************************************************************************)

\* init(): the engine it sets up; what an earlier init() set up stays.
chosen == IF MasterCapable THEN "arbitrator" ELSE IF socketFile THEN "client" ELSE "slave"

\* start() and stop() take the first of these that is set.
firstOf(os) == IF "client" \in os THEN "client"
               ELSE IF "arbitrator" \in os THEN "arbitrator"
               ELSE IF "slave" \in os THEN "slave" ELSE "none"

path == IF stub THEN "stub" ELSE firstOf(objs)

\* Mutant: the daemon's own answer is ignored.
nowLocked_noDaemon(daemonSays) == engineLocked /\ daemonSays \in BOOLEAN

\* The lock a measurement leaves: a local engine is asked when there is one,
\* whichever path the measurement came by.
nowLocked(daemonSays) ==
  IF objs \cap {"arbitrator", "slave"} # {} THEN engineLocked ELSE daemonSays

onPTPMeasurement(daemonSays) == isLocked' = nowLocked(daemonSays)

\* stop(): the path in use is stopped, its threads joined.
clientLeft == clientUp /\ path # "client"
engineLeft == engineUp /\ path \notin {"arbitrator", "slave"}

\* start() with the engines of os, after a stop() if there was one; a local
\* engine that cannot open its sockets turns this object into a stub for good.
startWith(os) ==
  /\ ifaceRunning' = TRUE
  /\ isLocked' = FALSE
  /\ engineLocked' = FALSE
  /\ objs' = os
  /\ polled' = FALSE
  /\ \/ stub /\ UNCHANGED stub /\ clientUp' = clientLeft /\ engineUp' = engineLeft
     \/ ~stub /\ firstOf(os) = "client" /\ UNCHANGED stub
        /\ clientUp' = TRUE /\ engineUp' = engineLeft
     \/ ~stub /\ firstOf(os) # "client" /\ stub' \in BOOLEAN
        /\ clientUp' = clientLeft /\ engineUp' = (engineLeft \/ ~stub')

\* A client made by init() starts with nothing received.
freshClient(made) ==
  /\ haveStatus' = (haveStatus /\ ~made)
  /\ status' = IF made THEN NoStatus ELSE status
  /\ statusAge' = IF made THEN 0 ELSE statusAge
  /\ fd' = FALSE /\ served' = FALSE /\ queue' = <<>> /\ repeats' = 0

\* PTPClockManager::getClockForDomain(): a domain not in the map gets a clock,
\* initialised and started; recordMediaClockReference() comes this way too.
getClockForDomain ==
  /\ ~exists
  /\ exists' = TRUE
  /\ startWith({chosen})
  /\ freshClient(TRUE)
  /\ lastSeq' = 0
  /\ UNCHANGED <<daemonVars, since, serviceFaults>>

removeClock ==
  /\ exists /\ ServiceFault
  /\ isLocked' = FALSE /\ clientUp' = clientLeft /\ engineUp' = engineLeft
  /\ exists' = FALSE /\ ifaceRunning' = FALSE /\ objs' = {} /\ stub' = FALSE
  /\ engineLocked' = FALSE /\ lastSeq' = 0 /\ polled' = FALSE
  /\ freshClient(TRUE)
  /\ UNCHANGED <<daemonVars, since>>

\* setNetworkInterface(): stop, init on the other interface, start again.
setNetworkInterface ==
  /\ exists /\ ifaceRunning /\ ServiceFault
  /\ startWith(IF stub THEN objs ELSE objs \cup {chosen})
  /\ freshClient(~stub /\ chosen = "client")
  /\ UNCHANGED <<daemonVars, exists, lastSeq, since>>

\* The local engine: its lock comes with a measurement, and it loses it with
\* one or, when its master falls silent, without.
engineMeasures ==
  /\ engineUp /\ ServiceFault
  /\ engineLocked' \in BOOLEAN
  /\ isLocked' = engineLocked'
  /\ UNCHANGED <<daemonVars, wireVars, clientVars, exists, ifaceRunning, objs, stub,
                 engineUp, lastSeq, polled, since>>

engineLosesMaster ==
  /\ engineUp /\ engineLocked
  /\ engineLocked' = FALSE
  /\ UNCHANGED <<daemonVars, wireVars, clientVars, exists, ifaceRunning, objs, stub,
                 engineUp, isLocked, lastSeq, polled, since, serviceFaults>>

\* One turn of serviceLoop().
serviceLoop ==
  /\ clientUp
  /\ polled' = TRUE
  /\ IF hasFreshStatus /\ status.seq # lastSeq
     THEN lastSeq' = status.seq /\ onPTPMeasurement(status.locked) /\ repeats' = 0
     ELSE /\ isLocked' = (isLocked /\ hasFreshStatus)
          /\ UNCHANGED <<lastSeq, repeats>>
  /\ UNCHANGED <<daemonVars, wireVars, clientUp, haveStatus, status, statusAge, exists,
                 ifaceRunning, objs, stub, engineUp, engineLocked, since, serviceFaults>>

\* A heartbeat passes: the daemon has published, the reader has read what was
\* there and serviceLoop has run.
Heartbeat ==
  /\ daemonUp => published
  /\ clientUp => polled /\ queue = <<>>
  /\ published' = FALSE /\ polled' = FALSE
  /\ statusAge' = IF haveStatus /\ statusAge <= Stale THEN statusAge + 1 ELSE statusAge
  /\ since' = IF daemonUp /\ daemonLocked THEN 0
              ELSE IF since < SinceMax THEN since + 1 ELSE since
  /\ UNCHANGED <<daemonUp, daemonLocked, sameBuild, socketFile, seq, wireVars, clientUp,
                 haveStatus, status, repeats, exists, ifaceRunning, objs, stub, engineUp,
                 engineLocked, isLocked, lastSeq, serviceFaults>>

ServiceNext ==
  \/ daemonStart \/ (\E crashed \in BOOLEAN : daemonEnd(crashed))
  \/ daemonLockChange \/ publish \/ evict
  \/ connectOnce \/ readStatus \/ readEnd
  \/ getClockForDomain \/ removeClock \/ setNetworkInterface
  \/ engineMeasures \/ engineLosesMaster \/ serviceLoop
  \/ Heartbeat

\* The threads of the daemon and of the driver keep running.
ServiceFairness ==
  /\ WF_serviceVars(Heartbeat) /\ WF_serviceVars(publish) /\ WF_serviceVars(connectOnce)
  /\ WF_serviceVars(readStatus) /\ WF_serviceVars(readEnd) /\ WF_serviceVars(serviceLoop)

ServiceSpec == ServiceInit /\ [][ServiceNext]_serviceVars /\ ServiceFairness

(***************************************************************************)
(* Properties                                                              *)
(***************************************************************************)

ServiceTypeOK ==
  /\ status \in Statuses /\ queue \in Seq(Statuses)
  /\ objs \subseteq {"client", "arbitrator", "slave"}
  /\ statusAge \in 0..(Stale + 1) /\ since \in 0..SinceMax /\ repeats \in Nat
  /\ serviceFaults \in 0..MaxServiceFaults

\* "a stale offset must never read as synchronised": while the daemon is the
\* source, the audio side sees a lock only if the daemon's slave really was
\* locked within the staleness limit and the two heartbeats it takes to notice.
\* A daemon that restarts with the sequence number the driver saw last is taken
\* for the old one: each such status stretches that by as much again, no more.
LockIsRecent == clientUp /\ isLocked => since <= (repeats + 1) * (Stale + 2)

\* The daemon and a local engine are never both at work for the domain, and a
\* clock that was removed leaves neither behind: both would be on the host's
\* PTP ports.
OnePath == ~(clientUp /\ engineUp) /\ (clientUp \/ engineUp => exists /\ ifaceRunning)

\* What the audio side is told of the clock, through crashes and restarts.
ServiceSafe == ServiceTypeOK /\ LockIsRecent /\ OnePath

Served == daemonUp /\ daemonLocked /\ sameBuild /\ clientUp

\* A daemon that stays up and locked is believed: after any number of crashes,
\* restarts and evictions the client reconnects and the lock arrives.
LockArrives == <>[](Served /\ objs = {"client"}) => <>[]isLocked

\* Refuted: the same with whatever an earlier init() left behind: "Daemon path: there is
\* no local slave to ask, and the `locked` argument is the daemon's own answer".
LockArrivesAlways == <>[]Served => <>[]isLocked
================================================================================
