----------------------------- MODULE ClockProofs -----------------------------
(***************************************************************************)
(* Three results about the time a driver goes by: what the clock service   *)
(* tells the audio side, for any staleness limit, any number of crashes    *)
(* and restarts and any size of the socket's queue; what the peer delay    *)
(* exchange publishes; and who gives the time on a segment of any number   *)
(* of hosts.                                                               *)
(*                                                                         *)
(* ServiceSafe is not inductive: that the lock read by the audio side is   *)
(* recent needs how recent the daemon's lock is wherever it is on its way: *)
(* in the socket (LockedOnWire), in the status received (StatusRecent) and *)
(* in the lock itself (LockBound), which is younger while serviceLoop()  *)
(* has run in this heartbeat.                                              *)
(***************************************************************************)
EXTENDS ClockService, PeerDelay, Election, FiniteSetTheorems, SequenceTheorems,
        NaturalsInduction, WellFoundedInduction, TLAPS

BooleansOK ==
  /\ daemonUp \in BOOLEAN /\ daemonLocked \in BOOLEAN /\ served \in BOOLEAN /\ fd \in BOOLEAN
  /\ clientUp \in BOOLEAN /\ haveStatus \in BOOLEAN /\ exists \in BOOLEAN
  /\ ifaceRunning \in BOOLEAN /\ stub \in BOOLEAN /\ engineUp \in BOOLEAN
  /\ engineLocked \in BOOLEAN /\ isLocked \in BOOLEAN /\ polled \in BOOLEAN

NumbersOK == seq \in 0..(StatusNumbers - 1) /\ lastSeq \in 0..(StatusNumbers - 1)

\* A stopped client has no connection.
Disconnected == /\ served => fd
                /\ ~clientUp => ~fd /\ queue = <<>>

\* Which engines are at work follows from what init() has set up.
PathsHold ==
  /\ clientUp => exists /\ ifaceRunning /\ ~stub /\ "client" \in objs
  /\ engineUp => exists /\ ifaceRunning /\ ~stub /\ "client" \notin objs /\ objs # {}
  /\ engineLocked => engineUp

DaemonLock == daemonLocked => daemonUp /\ since = 0
LockedOnWire == \A i \in DOMAIN queue : queue[i].locked => since = 0
StatusRecent == haveStatus /\ status.locked /\ statusAge <= Stale => since <= statusAge

\* How old the lock may be: as old as the status while that is the last one
\* taken, and one heartbeat more than the limit until serviceLoop() runs.
lockAge == IF status.seq = lastSeq THEN statusAge
           ELSE IF polled THEN Stale + 1 ELSE Stale + 2
LockBound == clientUp /\ isLocked => since <= (repeats * (Stale + 2)) + lockAge
PolledFresh == clientUp /\ isLocked /\ polled /\ status.seq = lastSeq => hasFreshStatus

ServiceInv ==
  /\ ServiceTypeOK /\ BooleansOK /\ NumbersOK /\ Disconnected /\ PathsHold
  /\ DaemonLock /\ LockedOnWire /\ StatusRecent /\ LockBound /\ PolledFresh

-----------------------------------------------------------------------------

LEMMA Multiples ==
  ASSUME NEW r \in Nat, NEW s \in Nat
  PROVE  r * s \in Nat /\ (r + 1) * s = (r * s) + s /\ 0 * s = 0
OBVIOUS

LEMMA ServiceInvImplies == ServiceInv => ServiceSafe
<1> SUFFICES ASSUME ServiceInv PROVE ServiceSafe
  OBVIOUS
<1>1. OnePath
  BY DEF ServiceInv, PathsHold, OnePath, BooleansOK
<1>2. LockIsRecent
  <2> SUFFICES ASSUME clientUp, isLocked PROVE since <= (repeats + 1) * (Stale + 2)
    BY DEF LockIsRecent
  <2>1. since <= (repeats * (Stale + 2)) + lockAge
    BY DEF ServiceInv, LockBound
  <2>2. lockAge \in Nat /\ lockAge <= Stale + 2
    BY ClockServiceAssumption DEF ServiceInv, ServiceTypeOK, lockAge
  <2>3. repeats \in Nat /\ Stale + 2 \in Nat /\ since \in Nat
    BY ClockServiceAssumption DEF ServiceInv, ServiceTypeOK
  <2>4. PICK k \in Nat : k = repeats * (Stale + 2)
    BY <2>3, Multiples
  <2>5. (repeats + 1) * (Stale + 2) = k + (Stale + 2)
    BY <2>3, <2>4, Multiples
  <2>6. PICK a \in Nat : a = lockAge
    BY <2>2
  <2>7. since <= k + a /\ a <= Stale + 2
    BY <2>1, <2>2, <2>4, <2>6
  <2>8. since <= k + (Stale + 2)
    BY <2>3, <2>7
  <2> QED BY <2>5, <2>8
<1> QED BY <1>1, <1>2 DEF ServiceSafe, ServiceInv

LEMMA ServiceInitInv == ServiceInit => ServiceInv
<1> SUFFICES ASSUME ServiceInit PROVE ServiceInv
  OBVIOUS
<1>1. queue = <<>> /\ queue \in Seq(Statuses) /\ DOMAIN queue = {}
  BY DEF ServiceInit
<1>2. ServiceTypeOK /\ NumbersOK
  BY <1>1, ClockServiceAssumption DEF ServiceInit, ServiceTypeOK, NumbersOK, NoStatus, Statuses
<1>3. BooleansOK /\ Disconnected /\ PathsHold /\ DaemonLock /\ PolledFresh
  BY DEF ServiceInit, BooleansOK, Disconnected, PathsHold, DaemonLock, PolledFresh
<1>4. LockedOnWire /\ StatusRecent /\ LockBound
  BY <1>1 DEF ServiceInit, LockedOnWire, StatusRecent, LockBound
<1> QED BY <1>2, <1>3, <1>4 DEF ServiceInv

\* The daemon's starts, stops and lock, which the client does not see at once.
LEMMA DaemonKeeps ==
  ASSUME ServiceInv, daemonStart \/ (\E crashed \in BOOLEAN : daemonEnd(crashed))
                     \/ daemonLockChange \/ evict
  PROVE  ServiceInv'
<1>1. /\ UNCHANGED <<fd, queue, clientVars, ifaceVars>>
      /\ since' = since \/ since' = 0
      /\ seq' = seq \/ seq' = 0
      /\ served' = served \/ served' = FALSE
      /\ serviceFaults' = serviceFaults + 1 /\ serviceFaults < MaxServiceFaults
  BY DEF daemonStart, daemonEnd, daemonLockChange, evict, ServiceFault, daemonVars, wireVars
<1>0. daemonUp' \in BOOLEAN /\ daemonLocked' \in BOOLEAN
  BY DEF daemonStart, daemonEnd, daemonLockChange, evict, ServiceInv, BooleansOK, daemonVars
<1>2. daemonLocked' => daemonUp' /\ since' = 0
  <2>1. CASE daemonStart \/ \E crashed \in BOOLEAN : daemonEnd(crashed)
    BY <2>1 DEF daemonStart, daemonEnd
  <2>2. CASE daemonLockChange
    BY <2>2 DEF daemonLockChange
  <2>3. CASE evict
    BY <2>3 DEF evict, ServiceInv, DaemonLock, daemonVars
  <2> QED BY <2>1, <2>2, <2>3
<1>3. ServiceTypeOK' /\ NumbersOK'
  BY <1>1, ClockServiceAssumption DEF ServiceInv, ServiceTypeOK, NumbersOK, clientVars, ifaceVars
<1>4. BooleansOK' /\ Disconnected' /\ PathsHold' /\ PolledFresh'
  <2>1. served' \in BOOLEAN /\ (served' => fd')
    <3>1. served \in BOOLEAN /\ (served => fd)
      BY DEF ServiceInv, BooleansOK, Disconnected
    <3>2. fd' = fd
      BY <1>1
    <3>3. served' = served \/ served' = FALSE
      BY <1>1
    <3>4. CASE served' = served
      BY <3>1, <3>2, <3>4
    <3>5. CASE served' = FALSE
      BY <3>5
    <3> QED BY <3>3, <3>4, <3>5
  <2> QED BY <1>0, <1>1, <2>1 DEF ServiceInv, BooleansOK, Disconnected, PathsHold, PolledFresh,
             hasFreshStatus, clientVars, ifaceVars
<1>5. LockedOnWire' /\ StatusRecent'
  BY <1>1, ClockServiceAssumption DEF ServiceInv, ServiceTypeOK, LockedOnWire, StatusRecent, clientVars
<1>6. LockBound'
  <2>1. lockAge' = lockAge /\ lockAge \in Nat
    BY <1>1, ClockServiceAssumption DEF ServiceInv, ServiceTypeOK, lockAge, clientVars, ifaceVars
  <2>2. repeats' = repeats /\ isLocked' = isLocked /\ clientUp' = clientUp
    BY <1>1 DEF clientVars, ifaceVars
  <2>3. repeats * (Stale + 2) \in Nat
    BY Multiples, ClockServiceAssumption DEF ServiceInv, ServiceTypeOK
  <2>4. since' <= (repeats * (Stale + 2)) + lockAge \/ ~(clientUp /\ isLocked)
    BY <1>1, <2>1, <2>3 DEF ServiceInv, LockBound
  <2> QED BY <2>1, <2>2, <2>4 DEF LockBound
<1> QED BY <1>2, <1>3, <1>4, <1>5, <1>6 DEF ServiceInv, DaemonLock

\* publish(), connectOnce() and readEnd() change what is on the wire.
LEMMA WireKeeps ==
  ASSUME ServiceInv, publish \/ connectOnce \/ readEnd
  PROVE  ServiceInv'
<1>1. /\ UNCHANGED <<clientVars, ifaceVars, daemonUp, daemonLocked, since, serviceFaults>>
  BY DEF publish, connectOnce, readEnd, daemonVars, wireVars
<1>0. /\ served' \in BOOLEAN /\ fd' \in BOOLEAN
      /\ served' => fd'
      /\ ~clientUp => ~fd'
  <2>1. CASE publish
    BY <2>1 DEF publish, ServiceInv, BooleansOK, Disconnected
  <2>2. CASE connectOnce
    BY <2>2 DEF connectOnce
  <2>3. CASE readEnd
    BY <2>3 DEF readEnd, ServiceInv, BooleansOK, Disconnected
  <2> QED BY <2>1, <2>2, <2>3
<1>2. seq' \in 0..(StatusNumbers - 1)
  BY ClockServiceAssumption DEF publish, connectOnce, readEnd, ServiceInv, NumbersOK, daemonVars
<1>3. /\ queue' \in Seq(Statuses)
      /\ \A i \in DOMAIN queue' : queue'[i].locked => since = 0
      /\ ~clientUp => queue' = <<>>
  <2>1. CASE queue' = queue
    BY <2>1 DEF ServiceInv, ServiceTypeOK, LockedOnWire, Disconnected
  <2>2. CASE queue' = <<>>
    BY <2>2
  <2>3. CASE publish /\ served /\ queue' = Append(queue, [seq |-> seq', locked |-> daemonLocked])
    <3> DEFINE item == [seq |-> seq', locked |-> daemonLocked]
    <3>1. item \in Statuses
      BY <1>2 DEF Statuses, ServiceInv, BooleansOK
    <3>2. item.locked => since = 0
      BY DEF ServiceInv, DaemonLock
    <3> HIDE DEF item
    <3>3. queue \in Seq(Statuses)
      BY DEF ServiceInv, ServiceTypeOK
    <3>4. queue' = Append(queue, item)
      BY <2>3 DEF item
    <3>5. /\ queue' \in Seq(Statuses) /\ Len(queue') = Len(queue) + 1
          /\ \A i \in 1..Len(queue) : queue'[i] = queue[i]
          /\ queue'[Len(queue) + 1] = item
      BY <3>1, <3>3, <3>4
    <3>6. \A i \in 1..Len(queue) : queue[i].locked => since = 0
      BY <3>3 DEF ServiceInv, LockedOnWire
    <3>7. \A i \in 1..Len(queue') : i \in 1..Len(queue) \/ i = Len(queue) + 1
      BY <3>3, <3>5
    <3>8. \A i \in 1..Len(queue') : queue'[i].locked => since = 0
      BY <3>2, <3>5, <3>6, <3>7
    <3>9. DOMAIN queue' = 1..Len(queue')
      BY <3>5
    <3>10. clientUp
      BY <2>3 DEF ServiceInv, Disconnected, BooleansOK
    <3> QED BY <3>5, <3>8, <3>9, <3>10
  <2> QED BY <2>1, <2>2, <2>3 DEF publish, connectOnce, readEnd
<1>4. ServiceTypeOK' /\ NumbersOK'
  BY <1>1, <1>2, <1>3 DEF ServiceInv, ServiceTypeOK, NumbersOK, clientVars, ifaceVars
<1>5. BooleansOK' /\ Disconnected' /\ PathsHold' /\ PolledFresh' /\ DaemonLock'
  BY <1>0, <1>1, <1>3 DEF ServiceInv, BooleansOK, Disconnected, PathsHold, PolledFresh, DaemonLock,
              hasFreshStatus, clientVars, ifaceVars
<1>6. LockedOnWire' /\ StatusRecent' /\ LockBound'
  BY <1>1, <1>3 DEF ServiceInv, LockedOnWire, StatusRecent, LockBound, lockAge, clientVars, ifaceVars
<1> QED BY <1>4, <1>5, <1>6 DEF ServiceInv

\* A status is taken from the wire, or another build's ends the connection.
LEMMA ReadStatusKeeps ==
  ASSUME ServiceInv, readStatus
  PROVE  ServiceInv'
<1> USE DEF ServiceInv
<1>1. UNCHANGED <<daemonVars, clientUp, ifaceVars, since, serviceFaults>>
  BY DEF readStatus
<1>2. queue \in Seq(Statuses) /\ queue # <<>>
  BY DEF readStatus, ServiceTypeOK
<1>3. CASE ~sameBuild
  <2>1. fd' = FALSE /\ served' = FALSE /\ queue' = <<>>
        /\ UNCHANGED <<status, haveStatus, statusAge, repeats>>
    BY <1>3 DEF readStatus
  <2>2. ServiceTypeOK' /\ NumbersOK'
    BY <1>1, <2>1 DEF ServiceTypeOK, NumbersOK, daemonVars, ifaceVars
  <2>3. BooleansOK' /\ Disconnected' /\ PathsHold' /\ PolledFresh' /\ DaemonLock'
    BY <1>1, <2>1 DEF BooleansOK, Disconnected, PathsHold, PolledFresh, DaemonLock,
              hasFreshStatus, daemonVars, ifaceVars
  <2>4. LockedOnWire' /\ StatusRecent' /\ LockBound'
    BY <1>1, <2>1 DEF LockedOnWire, StatusRecent, LockBound, lockAge, ifaceVars
  <2> QED BY <2>2, <2>3, <2>4
<1>4. CASE sameBuild
  <2> DEFINE head == Head(queue)
  <2>1. /\ status' = head /\ haveStatus' = TRUE /\ statusAge' = 0 /\ queue' = Tail(queue)
        /\ repeats' = (IF isLocked /\ head.seq = lastSeq THEN repeats + 1 ELSE repeats)
        /\ UNCHANGED <<fd, served>>
    BY <1>4 DEF readStatus
  <2>2. /\ head \in Statuses /\ head = queue[1] /\ 1 \in DOMAIN queue
        /\ queue' \in Seq(Statuses)
        /\ \A i \in DOMAIN queue' : i + 1 \in DOMAIN queue /\ queue'[i] = queue[i + 1]
    BY <1>2, <2>1
  <2>3. head.locked => since = 0
    BY <2>2 DEF LockedOnWire
  <2>4. LockedOnWire'
    BY <1>1, <2>2 DEF LockedOnWire
  <2> HIDE DEF head
  <2>5. ServiceTypeOK' /\ NumbersOK'
    <3>1. repeats' \in Nat
      BY <2>1, SMTT(30) DEF ServiceTypeOK
    <3>2. statusAge' \in 0..(Stale + 1)
      BY <2>1, ClockServiceAssumption, SMTT(30)
    <3>3. status' \in Statuses /\ queue' \in Seq(Statuses)
      BY <2>1, <2>2, SMTT(30)
    <3>4. UNCHANGED <<objs, since, serviceFaults, seq, lastSeq>>
      BY <1>1 DEF daemonVars, ifaceVars
    <3> QED BY <3>1, <3>2, <3>3, <3>4, SMTT(30) DEF ServiceTypeOK, NumbersOK
  <2>6. clientUp
    BY DEF readStatus
  <2>7. BooleansOK' /\ Disconnected' /\ PathsHold' /\ DaemonLock'
    BY <1>1, <2>1, <2>6 DEF BooleansOK, Disconnected, PathsHold, DaemonLock, daemonVars, ifaceVars
  <2>8. PolledFresh'
    BY <2>1, ClockServiceAssumption DEF PolledFresh, hasFreshStatus
  <2>9. StatusRecent'
    BY <1>1, <2>1, <2>3 DEF StatusRecent
  <2>10. LockBound'
    <3> SUFFICES ASSUME isLocked PROVE since <= (repeats' * (Stale + 2)) + lockAge'
      BY <1>1 DEF LockBound, ifaceVars
    <3>1. /\ repeats \in Nat /\ Stale \in Nat /\ since \in Nat /\ statusAge \in Nat
          /\ statusAge <= Stale + 1
      BY ClockServiceAssumption DEF ServiceTypeOK
    <3>2. PICK k \in Nat : k = repeats * (Stale + 2)
      BY <3>1, Multiples
    <3>3. since <= k + lockAge
      BY <2>6, <3>2 DEF LockBound
    <3>4. lockAge <= Stale + 2 /\ (polled => lockAge <= Stale + 1)
      BY <2>6, <3>1 DEF lockAge, PolledFresh, hasFreshStatus
    <3>5. lockAge \in Nat
      BY <3>1 DEF lockAge
    <3>6. CASE head.seq = lastSeq
      <4>1. repeats' = repeats + 1 /\ lockAge' = 0
        BY <1>1, <2>1, <3>6 DEF lockAge, ifaceVars
      <4>2. repeats' * (Stale + 2) = k + (Stale + 2)
        BY <3>1, <3>2, <4>1, Multiples
      <4> QED BY <3>1, <3>3, <3>4, <3>5, <4>1, <4>2
    <3>7. CASE head.seq # lastSeq
      <4>1. repeats' = repeats /\ lockAge' = IF polled THEN Stale + 1 ELSE Stale + 2
        BY <1>1, <2>1, <3>7 DEF lockAge, ifaceVars
      <4> QED BY <3>1, <3>2, <3>3, <3>4, <3>5, <4>1
    <3> QED BY <3>6, <3>7
  <2> QED BY <2>4, <2>5, <2>7, <2>8, <2>9, <2>10
<1> QED BY <1>3, <1>4

\* start() leaves one path at work, whatever was set up before.
LEMMA StartKeepsPaths ==
  ASSUME ServiceInv, NEW os \in SUBSET {"client", "arbitrator", "slave"}, stub \/ os # {},
         startWith(os), exists'
  PROVE  /\ PathsHold'
         /\ clientUp' \in BOOLEAN /\ engineUp' \in BOOLEAN /\ stub' \in BOOLEAN
         /\ ~isLocked' /\ isLocked' \in BOOLEAN /\ engineLocked' = FALSE
         /\ polled' = FALSE /\ ifaceRunning' = TRUE /\ objs' = os
<1>1. /\ isLocked' = FALSE /\ engineLocked' = FALSE /\ polled' = FALSE /\ ifaceRunning' = TRUE
      /\ objs' = os
  BY DEF startWith
<1>2. clientLeft = FALSE /\ engineLeft = FALSE
  BY DEF clientLeft, engineLeft, path, firstOf, ServiceInv, ServiceTypeOK, PathsHold, BooleansOK
<1>3. CASE stub
  BY <1>1, <1>2, <1>3 DEF startWith, PathsHold, ServiceInv, BooleansOK
<1>4. CASE ~stub /\ "client" \in os
  <2>1. firstOf(os) = "client"
    BY <1>4 DEF firstOf
  <2>2. UNCHANGED stub /\ clientUp' = TRUE /\ engineUp' = FALSE
    BY <1>2, <1>4, <2>1 DEF startWith
  <2>3. stub' = FALSE
    BY <1>4, <2>2 DEF ServiceInv, BooleansOK
  <2> QED BY <1>1, <1>4, <2>2, <2>3 DEF PathsHold
<1>5. CASE ~stub /\ "client" \notin os
  <2>1. firstOf(os) # "client"
    BY <1>5 DEF firstOf
  <2>2. stub' \in BOOLEAN /\ clientUp' = FALSE /\ engineUp' = ~stub'
    BY <1>2, <1>5, <2>1 DEF startWith
  <2> QED BY <1>1, <1>5, <2>2 DEF PathsHold
<1> QED BY <1>3, <1>4, <1>5 DEF ServiceInv, BooleansOK

\* A client that is made anew, or started again, has nothing on the wire.
LEMMA FreshKeeps ==
  ASSUME ServiceInv, NEW made \in BOOLEAN, freshClient(made), UNCHANGED since
  PROVE  /\ status' \in Statuses /\ queue' \in Seq(Statuses) /\ statusAge' \in 0..(Stale + 1)
         /\ repeats' \in Nat /\ haveStatus' \in BOOLEAN /\ fd' \in BOOLEAN /\ served' \in BOOLEAN
         /\ Disconnected' /\ LockedOnWire' /\ StatusRecent'
<1>1. fd' = FALSE /\ served' = FALSE /\ queue' = <<>> /\ repeats' = 0
      /\ haveStatus' = (haveStatus /\ ~made)
  BY DEF freshClient
<1>2. LockedOnWire'
  BY <1>1 DEF LockedOnWire
<1>3. Disconnected' /\ fd' \in BOOLEAN /\ served' \in BOOLEAN
  BY <1>1 DEF Disconnected
<1>4. CASE made
  <2>1. haveStatus' = FALSE /\ status' = NoStatus /\ statusAge' = 0
    BY <1>4 DEF freshClient
  <2>2. status' \in Statuses /\ queue' \in Seq(Statuses) /\ statusAge' \in 0..(Stale + 1)
        /\ repeats' \in Nat
    BY <1>1, <2>1, ClockServiceAssumption DEF NoStatus, Statuses
  <2>3. StatusRecent' /\ haveStatus' \in BOOLEAN
    BY <2>1 DEF StatusRecent
  <2> QED BY <1>2, <1>3, <2>2, <2>3
<1>5. CASE ~made
  <2>1. haveStatus' = haveStatus /\ status' = status /\ statusAge' = statusAge
    BY <1>5 DEF freshClient, ServiceInv, BooleansOK
  <2>2. status' \in Statuses /\ queue' \in Seq(Statuses) /\ statusAge' \in 0..(Stale + 1)
        /\ repeats' \in Nat /\ haveStatus' \in BOOLEAN
    BY <1>1, <2>1 DEF ServiceInv, ServiceTypeOK, BooleansOK
  <2>3. StatusRecent'
    BY <2>1 DEF ServiceInv, StatusRecent
  <2> QED BY <1>2, <1>3, <2>2, <2>3
<1> QED BY <1>4, <1>5

\* The clock is created, removed, or moved to another interface.
LEMMA ClockKeeps ==
  ASSUME ServiceInv, getClockForDomain \/ removeClock \/ setNetworkInterface
  PROVE  ServiceInv'
<1>1. UNCHANGED <<daemonVars, since>>
  BY DEF getClockForDomain, removeClock, setNetworkInterface
<1>2. PICK made \in BOOLEAN : freshClient(made)
  BY DEF getClockForDomain, removeClock, setNetworkInterface, chosen, ServiceInv, BooleansOK
<1>3. /\ PathsHold'
      /\ clientUp' \in BOOLEAN /\ engineUp' \in BOOLEAN /\ stub' \in BOOLEAN
      /\ ~isLocked' /\ isLocked' \in BOOLEAN /\ engineLocked' \in BOOLEAN
      /\ polled' \in BOOLEAN /\ ifaceRunning' \in BOOLEAN
      /\ objs' \subseteq {"client", "arbitrator", "slave"} /\ exists' \in BOOLEAN
  <2>0. chosen \in {"client", "arbitrator", "slave"}
    BY DEF chosen
  <2>1. CASE getClockForDomain
    <3>1. startWith({chosen}) /\ exists' = TRUE
      BY <2>1 DEF getClockForDomain
    <3>2. {chosen} \in SUBSET {"client", "arbitrator", "slave"} /\ {chosen} # {}
      BY <2>0
    <3> QED BY <3>1, <3>2, StartKeepsPaths
  <2>2. CASE removeClock
    <3>1. clientLeft = FALSE /\ engineLeft = FALSE
      BY DEF clientLeft, engineLeft, path, firstOf, ServiceInv, ServiceTypeOK, PathsHold, BooleansOK
    <3> QED BY <2>2, <3>1 DEF removeClock, PathsHold
  <2>3. CASE setNetworkInterface
    <3> DEFINE os == IF stub THEN objs ELSE objs \cup {chosen}
    <3>1. startWith(os) /\ exists' = TRUE
      BY <2>3 DEF setNetworkInterface, ServiceInv, BooleansOK
    <3>2. os \in SUBSET {"client", "arbitrator", "slave"}
      BY <2>0 DEF ServiceInv, ServiceTypeOK
    <3>3. stub \/ os # {}
      OBVIOUS
    <3> QED BY <3>1, <3>2, <3>3, StartKeepsPaths
  <2> QED BY <2>1, <2>2, <2>3
<1>4. /\ status' \in Statuses /\ queue' \in Seq(Statuses) /\ statusAge' \in 0..(Stale + 1)
      /\ repeats' \in Nat /\ haveStatus' \in BOOLEAN /\ fd' \in BOOLEAN /\ served' \in BOOLEAN
      /\ Disconnected' /\ LockedOnWire' /\ StatusRecent'
  BY <1>1, <1>2, FreshKeeps
<1>5. serviceFaults' \in 0..MaxServiceFaults
  <2>1. \/ serviceFaults' = serviceFaults
        \/ serviceFaults < MaxServiceFaults /\ serviceFaults' = serviceFaults + 1
    BY DEF getClockForDomain, removeClock, setNetworkInterface, ServiceFault
  <2> QED BY <2>1, ClockServiceAssumption DEF ServiceInv, ServiceTypeOK
<1>6. lastSeq' = lastSeq \/ lastSeq' = 0
  BY DEF getClockForDomain, removeClock, setNetworkInterface
<1>7. ServiceTypeOK' /\ NumbersOK'
  BY <1>1, <1>3, <1>4, <1>5, <1>6, ClockServiceAssumption
     DEF ServiceInv, ServiceTypeOK, NumbersOK, daemonVars
<1>8. BooleansOK' /\ DaemonLock' /\ LockBound' /\ PolledFresh'
  BY <1>1, <1>3, <1>4 DEF ServiceInv, BooleansOK, DaemonLock, LockBound, PolledFresh, daemonVars
<1> QED BY <1>3, <1>4, <1>7, <1>8 DEF ServiceInv

\* The local engine is at work only when the client is not.
LEMMA EngineKeeps ==
  ASSUME ServiceInv, engineMeasures \/ engineLosesMaster
  PROVE  ServiceInv'
<1>1. /\ UNCHANGED <<daemonVars, wireVars, clientVars, exists, ifaceRunning, objs, stub, engineUp,
                     lastSeq, polled, since>>
      /\ engineUp /\ engineLocked' \in BOOLEAN
  BY DEF engineMeasures, engineLosesMaster
<1>2. isLocked' \in BOOLEAN /\ serviceFaults' \in 0..MaxServiceFaults
  BY ClockServiceAssumption DEF engineMeasures, engineLosesMaster, ServiceFault, ServiceInv,
     BooleansOK, ServiceTypeOK
<1>3. ~clientUp'
  BY <1>1 DEF ServiceInv, PathsHold, clientVars
<1>4. ServiceTypeOK' /\ NumbersOK'
  BY <1>1, <1>2 DEF ServiceInv, ServiceTypeOK, NumbersOK, clientVars, daemonVars, wireVars
<1>5. BooleansOK' /\ Disconnected' /\ PathsHold' /\ DaemonLock'
  BY <1>1, <1>2 DEF ServiceInv, BooleansOK, Disconnected, PathsHold, DaemonLock, clientVars,
                    daemonVars, wireVars
<1>6. LockedOnWire' /\ StatusRecent' /\ LockBound' /\ PolledFresh'
  BY <1>1, <1>3 DEF ServiceInv, LockedOnWire, StatusRecent, LockBound, PolledFresh, clientVars, wireVars
<1> QED BY <1>4, <1>5, <1>6 DEF ServiceInv

\* A turn of serviceLoop() takes a new status, or drops the lock of a stale one.
LEMMA ServiceLoopKeeps ==
  ASSUME ServiceInv, serviceLoop
  PROVE  ServiceInv'
<1>1. /\ UNCHANGED <<daemonVars, wireVars, clientUp, haveStatus, status, statusAge, exists,
                     ifaceRunning, objs, stub, engineUp, engineLocked, since, serviceFaults>>
      /\ clientUp /\ polled' = TRUE
  BY DEF serviceLoop
<1>2. engineLocked = FALSE
  BY <1>1 DEF ServiceInv, PathsHold, BooleansOK
<1>3. /\ status.seq \in 0..(StatusNumbers - 1) /\ status.locked \in BOOLEAN
      /\ repeats \in Nat /\ since \in Nat /\ statusAge \in Nat /\ Stale \in Nat
  BY ClockServiceAssumption DEF ServiceInv, ServiceTypeOK, Statuses
<1>4. DaemonLock' /\ LockedOnWire' /\ StatusRecent' /\ Disconnected' /\ PathsHold'
  BY <1>1 DEF ServiceInv, DaemonLock, LockedOnWire, StatusRecent, Disconnected, PathsHold,
              daemonVars, wireVars
<1>5. CASE hasFreshStatus /\ status.seq # lastSeq
  <2>1. lastSeq' = status.seq /\ isLocked' = nowLocked(status.locked) /\ repeats' = 0
    BY <1>5 DEF serviceLoop, onPTPMeasurement
  <2>2. isLocked' \in BOOLEAN /\ (isLocked' => status.locked)
    BY <1>2, <1>3, <2>1 DEF nowLocked
  <2>3. isLocked' => since <= statusAge
    BY <1>5, <2>2 DEF ServiceInv, StatusRecent, hasFreshStatus
  <2>4. lockAge' = statusAge
    BY <1>1, <2>1 DEF lockAge
  <2>5. LockBound' 
    BY <1>1, <1>3, <2>1, <2>3, <2>4, Multiples DEF LockBound
  <2>6. PolledFresh'
    BY <1>1, <1>5 DEF PolledFresh, hasFreshStatus
  <2>7. ServiceTypeOK' /\ NumbersOK'
    BY <1>1, <1>3, <2>1 DEF ServiceInv, ServiceTypeOK, NumbersOK, daemonVars, wireVars
  <2>8. BooleansOK'
    BY <1>1, <2>2 DEF ServiceInv, BooleansOK, daemonVars, wireVars
  <2> QED BY <1>4, <2>5, <2>6, <2>7, <2>8 DEF ServiceInv
<1>6. CASE ~(hasFreshStatus /\ status.seq # lastSeq)
  <2>1. isLocked' = (isLocked /\ hasFreshStatus) /\ UNCHANGED <<lastSeq, repeats>>
    BY <1>6 DEF serviceLoop
  <2>2. isLocked' => isLocked /\ hasFreshStatus /\ status.seq = lastSeq
    BY <1>6, <2>1
  <2>3. lockAge' = lockAge \/ status.seq # lastSeq
    BY <1>1, <2>1 DEF lockAge
  <2>4. LockBound'
    BY <1>1, <2>1, <2>2, <2>3 DEF LockBound, ServiceInv
  <2>5. PolledFresh'
    BY <1>1, <2>2 DEF PolledFresh, hasFreshStatus
  <2>6. ServiceTypeOK' /\ NumbersOK'
    BY <1>1, <1>3, <2>1 DEF ServiceInv, ServiceTypeOK, NumbersOK, daemonVars, wireVars
  <2>7. isLocked' \in BOOLEAN
    BY <2>1 DEF ServiceInv, BooleansOK, hasFreshStatus
  <2>8. BooleansOK'
    BY <1>1, <2>7 DEF ServiceInv, BooleansOK, daemonVars, wireVars
  <2> QED BY <1>4, <2>4, <2>5, <2>6, <2>8 DEF ServiceInv
<1> QED BY <1>5, <1>6

\* A heartbeat ages the status and the lock together.
LEMMA HeartbeatKeeps ==
  ASSUME ServiceInv, Heartbeat
  PROVE  ServiceInv'
<1>1. /\ UNCHANGED <<daemonUp, daemonLocked, seq, wireVars, clientUp, haveStatus, status, repeats,
                     exists, ifaceRunning, objs, stub, engineUp, engineLocked, isLocked, lastSeq,
                     serviceFaults>>
      /\ polled' = FALSE
      /\ clientUp => polled /\ queue = <<>>
  BY DEF Heartbeat
<1>2. /\ repeats \in Nat /\ since \in Nat /\ statusAge \in Nat /\ Stale \in Nat
      /\ statusAge <= Stale + 1 /\ since <= SinceMax /\ SinceMax \in Nat
  BY ClockServiceAssumption DEF ServiceInv, ServiceTypeOK
<1>3. statusAge' = IF haveStatus /\ statusAge <= Stale THEN statusAge + 1 ELSE statusAge
  BY DEF Heartbeat
<1>4. since' \in Nat /\ since' <= since + 1 /\ since' <= SinceMax
  BY <1>2 DEF Heartbeat
<1>5. daemonLocked => since' = 0
  BY DEF Heartbeat, ServiceInv, DaemonLock
<1>6. ServiceTypeOK' /\ NumbersOK'
  BY <1>1, <1>2, <1>3, <1>4 DEF ServiceInv, ServiceTypeOK, NumbersOK, wireVars
<1>7. BooleansOK' /\ Disconnected' /\ PathsHold'
  BY <1>1 DEF ServiceInv, BooleansOK, Disconnected, PathsHold, wireVars
<1>8. DaemonLock'
  BY <1>1, <1>5 DEF ServiceInv, DaemonLock
<1>9. LockedOnWire'
  <2>1. queue' = <<>>
    BY <1>1 DEF ServiceInv, Disconnected, BooleansOK, wireVars
  <2> QED BY <2>1 DEF LockedOnWire
<1>10. StatusRecent'
  BY <1>1, <1>2, <1>3, <1>4 DEF ServiceInv, StatusRecent
<1>11. LockBound'
  <2> SUFFICES ASSUME clientUp, isLocked PROVE since' <= (repeats * (Stale + 2)) + lockAge'
    BY <1>1 DEF LockBound
  <2>1. PICK k \in Nat : k = repeats * (Stale + 2)
    BY <1>2, Multiples
  <2>2. since <= k + lockAge
    BY <2>1 DEF ServiceInv, LockBound
  <2>3. CASE status.seq = lastSeq
    <3>1. haveStatus /\ statusAge <= Stale
      BY <1>1, <2>3 DEF ServiceInv, PolledFresh, hasFreshStatus
    <3>2. lockAge' = statusAge + 1 /\ lockAge = statusAge
      BY <1>1, <1>3, <2>3, <3>1 DEF lockAge
    <3> QED BY <1>2, <1>4, <2>1, <2>2, <3>2
  <2>4. CASE status.seq # lastSeq
    <3>1. lockAge' = Stale + 2 /\ lockAge = Stale + 1
      BY <1>1, <2>4 DEF lockAge
    <3> QED BY <1>2, <1>4, <2>1, <2>2, <3>1
  <2> QED BY <2>3, <2>4
<1>12. PolledFresh'
  BY <1>1 DEF PolledFresh
<1> QED BY <1>6, <1>7, <1>8, <1>9, <1>10, <1>11, <1>12 DEF ServiceInv

LEMMA ServiceNextKeeps == ServiceInv /\ [ServiceNext]_serviceVars => ServiceInv'
<1> SUFFICES ASSUME ServiceInv, [ServiceNext]_serviceVars PROVE ServiceInv'
  OBVIOUS
<1>1. CASE UNCHANGED serviceVars
  <2>1. UNCHANGED <<daemonVars, wireVars, clientVars, ifaceVars, since, serviceFaults>>
    BY <1>1 DEF serviceVars
  <2>2. ServiceTypeOK' /\ NumbersOK' /\ BooleansOK' /\ Disconnected' /\ PathsHold'
    BY <2>1 DEF ServiceInv, ServiceTypeOK, NumbersOK, BooleansOK, Disconnected, PathsHold,
                daemonVars, wireVars, clientVars, ifaceVars
  <2>3. DaemonLock' /\ LockedOnWire' /\ StatusRecent' /\ LockBound' /\ PolledFresh'
    BY <2>1 DEF ServiceInv, DaemonLock, LockedOnWire, StatusRecent, LockBound, lockAge, PolledFresh,
                hasFreshStatus, daemonVars, wireVars, clientVars, ifaceVars
  <2> QED BY <2>2, <2>3 DEF ServiceInv
<1>2. CASE ServiceNext
  BY <1>2, DaemonKeeps, WireKeeps, ReadStatusKeeps, ClockKeeps, EngineKeeps, ServiceLoopKeeps,
     HeartbeatKeeps DEF ServiceNext
<1> QED BY <1>1, <1>2

\* A stale offset never reads as synchronised: through any number of crashes and
\* restarts the audio side sees a lock only while the daemon's slave was locked
\* within the staleness limit and the two heartbeats it takes to notice, each
\* status mistaken for the last one adding as much; and the daemon's client and
\* a local engine are never both at work.
THEOREM ServiceAlwaysSafe == ServiceSpec => []ServiceSafe
BY ServiceInitInv, ServiceNextKeeps, ServiceInvImplies, PTL DEF ServiceSpec

(***************************************************************************)
(* The peer delay exchange.  A measurement is made of four times that come *)
(* from datagrams of one request or of two, so the invariant follows the   *)
(* request numbered last through its stages (Staged), says what the answer *)
(* that was taken is an answer to (AnswerTaken), and that twice the delay  *)
(* about to be stored is at least twice the cable less what t3 was read    *)
(* late, or clearly negative (MeasuredWell): requests are an interval      *)
(* apart (RequestsApart), longer than anything can be under way (InTime).  *)
(***************************************************************************)

Datagrams == [type : {"Req", "Resp", "FollowUp"}, seq : Nat, sent : Nat, time : Int,
              correction : Nat, twoStep : BOOLEAN]
Answers == [seq : Nat, t2 : Nat, answered : BOOLEAN, since : Nat]

PeerTypeOK ==
  /\ pdNow \in Nat \ {0}
  /\ requester \in [pc : {"idle", "numbered", "sent"}, t1 : Nat, deadline : Nat]
  /\ exchange \in [seq : Nat, t1 : Nat, t2 : Int, t4 : Nat, correction : Nat,
                   resp : BOOLEAN, followUp : BOOLEAN]
  /\ finishing \subseteq Int
  /\ inFlight \subseteq Datagrams
  /\ answering \subseteq Answers

\* When the request numbered last was sent, once it is.
base == IF requester.pc = "sent" THEN requester.t1 ELSE exchange.t1

\* Requests are an interval apart; a number that is just taken is on no datagram.
RequestsApart ==
  /\ exchange.t1 <= pdNow /\ requester.t1 <= pdNow
  /\ requester.pc = "sent" => requester.t1 # 0
  /\ exchange.t1 # 0 =>
       CASE requester.pc = "idle" -> exchange.t1 + RequestInterval <= requester.deadline
         [] requester.pc = "numbered" -> exchange.t1 + RequestInterval <= pdNow
         [] requester.pc = "sent" -> exchange.t1 + RequestInterval <= requester.t1
  /\ \A x \in inFlight \cup answering :
       x.seq <= exchange.seq /\ (requester.pc = "numbered" => x.seq # exchange.seq)

\* What is under way has been for no longer than its bounds.
InTime ==
  /\ \A m \in inFlight : m.sent <= pdNow /\ pdNow <= m.sent + LinkDelay + MaxQueueing
  /\ \A a \in answering : IF a.answered
                          THEN /\ a.since <= pdNow /\ pdNow <= a.since + MaxAfterSend
                               /\ a.t2 <= a.since /\ a.since <= a.t2 + MaxTurnaround
                          ELSE /\ a.since = a.t2
                               /\ a.t2 <= pdNow /\ pdNow <= a.t2 + MaxTurnaround

\* The request numbered last is in flight, or being answered, or answered; the
\* answer says when it came, and left little earlier than the follow-up says.
Staged ==
  /\ \A m \in inFlight : m.seq = exchange.seq /\ m.type = "Req" =>
       /\ m.sent = base
       /\ \A n \in inFlight : n.seq = exchange.seq => n = m
       /\ \A a \in answering : a.seq # exchange.seq
  /\ \A a \in answering : a.seq = exchange.seq =>
       /\ base + LinkDelay <= a.t2 /\ a.t2 <= base + LinkDelay + MaxQueueing
       /\ \A m \in inFlight : m.seq = exchange.seq =>
            m.type = "Resp" /\ a.answered /\ m.sent = a.since
  /\ \A m \in inFlight : m.seq = exchange.seq /\ m.type = "Resp" =>
       /\ base + LinkDelay <= m.time - PeerOffset
       /\ m.time - PeerOffset <= base + LinkDelay + MaxQueueing
       /\ (m.time - PeerOffset) + m.correction <= m.sent
       /\ m.sent <= base + LinkDelay + MaxQueueing + MaxTurnaround
  /\ \A m \in inFlight : m.seq = exchange.seq /\ m.type = "FollowUp" =>
       /\ base + LinkDelay <= m.time - PeerOffset
       /\ \A n \in inFlight : n.seq = exchange.seq /\ n.type = "Resp" =>
            m.time - PeerOffset <= n.sent + MaxAfterSend
  /\ \A m \in inFlight : m.twoStep \/ m.type = "FollowUp" => m.correction = 0

\* The answer that was taken is to the request numbered last...
OwnAnswer ==
  /\ requester.pc # "numbered"
  /\ exchange.t1 + LinkDelay <= exchange.t2 - PeerOffset
  /\ \A m \in inFlight : m.seq = exchange.seq =>
       /\ m.type # "Req"
       /\ m.type = "FollowUp" => (m.time - PeerOffset) + LinkDelay <= exchange.t4 + MaxAfterSend
  /\ \A a \in answering : a.seq = exchange.seq => a.answered /\ a.since + LinkDelay <= exchange.t4

\* ... and to the one whose t1 is in the exchange, or another was numbered since.
AnswerPrompt ==
  /\ exchange.t4 - exchange.t1 <= 2 * LinkDelay + 2 * MaxQueueing + MaxTurnaround
  /\ (exchange.t2 - PeerOffset) - exchange.t1 <= LinkDelay + MaxQueueing
OthersAnswer ==
  requester.pc = "idle" => \A x \in inFlight \cup answering : x.seq # exchange.seq

AnswerTaken ==
  /\ exchange.resp => exchange.correction = 0 /\ exchange.t1 # 0 /\ ~exchange.followUp
  /\ exchange.followUp =>
       /\ exchange.correction = 0 /\ exchange.t1 # 0
       /\ \/ OwnAnswer /\ (requester.pc = "idle" => AnswerPrompt)
          \/ OthersAnswer /\ AnswerPrompt

\* Twice the delay about to be stored is twice the cable less what t3 was late, or
\* clearly negative.
measured(x) == ((exchange.t4 - exchange.t1) - x) - exchange.correction
MeasuredWell ==
  \A x \in finishing : exchange.t1 = 0 \/ exchange.t4 = 0 \/ measured(x) <= -2
                       \/ measured(x) >= 2 * LinkDelay - MaxAfterSend

HistoryLong ==
  /\ delayHistory \in Seq({d \in Nat : 2 * d + 1 >= 2 * LinkDelay - MaxAfterSend})
  /\ ShortOnlyByLateT3

PeerDelayInv ==
  /\ PeerTypeOK /\ RequestsApart /\ InTime /\ Staged /\ AnswerTaken /\ MeasuredWell /\ HistoryLong

-----------------------------------------------------------------------------

LEMMA PeerDelayInitInv == PeerDelayInit => PeerDelayInv
<1> SUFFICES ASSUME PeerDelayInit PROVE PeerDelayInv
  OBVIOUS
<1> USE DEF PeerDelayInit
<1>1. PeerTypeOK
  BY DEF PeerTypeOK
<1>2. RequestsApart /\ InTime /\ Staged /\ AnswerTaken /\ MeasuredWell
  BY DEF RequestsApart, InTime, Staged, AnswerTaken, MeasuredWell
<1>3. HistoryLong
  BY DEF HistoryLong, ShortOnlyByLateT3
<1> QED BY <1>1, <1>2, <1>3 DEF PeerDelayInv

\* The types, field by field.
LEMMA Fields ==
  ASSUME PeerTypeOK
  PROVE  /\ pdNow \in Nat /\ pdNow # 0
         /\ requester.pc \in {"idle", "numbered", "sent"} /\ requester.t1 \in Nat
         /\ requester.deadline \in Nat
         /\ exchange.seq \in Nat /\ exchange.t1 \in Nat /\ exchange.t2 \in Int
         /\ exchange.t4 \in Nat /\ exchange.correction \in Nat
         /\ exchange.resp \in BOOLEAN /\ exchange.followUp \in BOOLEAN
         /\ \A m \in inFlight :
              /\ m.type \in {"Req", "Resp", "FollowUp"} /\ m.seq \in Nat /\ m.sent \in Nat
              /\ m.time \in Int /\ m.correction \in Nat /\ m.twoStep \in BOOLEAN
         /\ \A a \in answering :
              a.seq \in Nat /\ a.t2 \in Nat /\ a.answered \in BOOLEAN /\ a.since \in Nat
         /\ LinkDelay \in Nat /\ MaxQueueing \in Nat /\ MaxTurnaround \in Nat
         /\ RequestInterval \in Nat /\ PeerOffset \in Int /\ base \in Nat /\ MaxAfterSend \in Nat
BY PeerDelayAssumption DEF PeerTypeOK, Datagrams, Answers, base

\* A number is taken for a request that is not sent yet.
LEMMA SendPdelayReqKeeps ==
  ASSUME PeerDelayInv, sendPdelayReq
  PROVE  PeerDelayInv'
<1> USE DEF PeerDelayInv
<1>1. /\ requester.pc = "idle" /\ pdNow >= requester.deadline
      /\ UNCHANGED <<pdNow, finishing, inFlight, answering, delayHistory, pathDelay>>
      /\ requester' = [requester EXCEPT !.pc = "numbered"]
      /\ exchange' = [exchange EXCEPT !.seq = @ + 1]
  BY DEF sendPdelayReq
<1>2. /\ requester'.pc = "numbered" /\ requester'.t1 = requester.t1
      /\ exchange'.seq = exchange.seq + 1 /\ exchange'.t1 = exchange.t1
      /\ exchange'.t2 = exchange.t2 /\ exchange'.t4 = exchange.t4
      /\ exchange'.correction = exchange.correction
      /\ exchange'.resp = exchange.resp /\ exchange'.followUp = exchange.followUp
  BY <1>1 DEF PeerTypeOK
<1>3. PeerTypeOK'
  BY <1>1 DEF PeerTypeOK
<1>4. \A x \in inFlight \cup answering : x.seq <= exchange.seq /\ x.seq \in Nat
  BY Fields DEF RequestsApart
<1>5. \A x \in inFlight \cup answering : x.seq # exchange'.seq /\ x.seq <= exchange'.seq
  BY <1>2, <1>4, Fields
<1>6. exchange.t1 # 0 => exchange.t1 + RequestInterval <= pdNow
  BY <1>1, Fields DEF RequestsApart
<1>7. RequestsApart'
  BY <1>1, <1>2, <1>5, <1>6, Fields DEF RequestsApart
<1>8. InTime'
  BY <1>1 DEF InTime
<1>9. Staged'
  BY <1>1, <1>5 DEF Staged
<1>10. AnswerTaken'
  <2>1. AnswerPrompt' <=> AnswerPrompt
    BY <1>2 DEF AnswerPrompt
  <2>2. OthersAnswer'
    BY <1>2 DEF OthersAnswer
  <2>3. exchange.followUp => AnswerPrompt
    BY <1>1 DEF AnswerTaken
  <2> QED BY <1>2, <2>1, <2>2, <2>3 DEF AnswerTaken
<1>11. MeasuredWell'
  BY <1>1, <1>2 DEF MeasuredWell, measured
<1>12. HistoryLong'
  BY <1>1 DEF HistoryLong, ShortOnlyByLateT3
<1> QED BY <1>3, <1>7, <1>8, <1>9, <1>10, <1>11, <1>12

\* The request leaves, or sendto() fails.
LEMMA RequestSentKeeps ==
  ASSUME PeerDelayInv, requestSent
  PROVE  PeerDelayInv'
<1> USE DEF PeerDelayInv
<1> DEFINE m == Message("Req", exchange.seq, 0, 0, FALSE)
<1>1. /\ requester.pc = "numbered"
      /\ UNCHANGED <<pdNow, exchange, finishing, answering, delayHistory, pathDelay>>
  BY DEF requestSent
<1>2. m \in Datagrams /\ m.type = "Req" /\ m.seq = exchange.seq /\ m.sent = pdNow
      /\ m.correction = 0 /\ m.twoStep = FALSE
  BY Fields DEF Message, Datagrams
<1>3. \/ /\ inFlight' = inFlight \cup {m}
         /\ requester' = [requester EXCEPT !.pc = "sent", !.t1 = pdNow]
      \/ /\ requester' = [requester EXCEPT !.pc = "idle", !.deadline = pdNow + RequestInterval]
         /\ inFlight' = inFlight
  BY DEF requestSent
<1> HIDE DEF m
<1>4. \A x \in inFlight \cup answering : x.seq # exchange.seq /\ x.seq <= exchange.seq
  BY <1>1 DEF RequestsApart
<1>5. exchange.t1 # 0 => exchange.t1 + RequestInterval <= pdNow
  BY <1>1 DEF RequestsApart
<1>6. HistoryLong' /\ MeasuredWell'
  BY <1>1 DEF HistoryLong, ShortOnlyByLateT3, MeasuredWell, measured
<1>7. exchange'.followUp => OthersAnswer \/ (OwnAnswer /\ requester.pc # "numbered")
  BY <1>1 DEF AnswerTaken, OwnAnswer
<1>8. exchange'.followUp => AnswerPrompt'
  BY <1>1 DEF AnswerTaken, OwnAnswer, AnswerPrompt
<1>9. CASE inFlight' = inFlight \cup {m} /\ requester' = [requester EXCEPT !.pc = "sent", !.t1 = pdNow]
  <2>1. requester'.pc = "sent" /\ requester'.t1 = pdNow /\ base' = pdNow
    BY <1>1, <1>9 DEF PeerTypeOK, base
  <2>2. PeerTypeOK'
    BY <1>1, <1>2, <1>9 DEF PeerTypeOK
  <2>3. RequestsApart'
    BY <1>1, <1>2, <1>4, <1>5, <1>9, <2>1, Fields DEF RequestsApart
  <2>4. InTime'
    BY <1>1, <1>2, <1>9, Fields DEF InTime
  <2>5. \A x \in inFlight' : x.seq = exchange.seq => x = m
    BY <1>4, <1>9
  <2>6. Staged'
    <3>1. \A x \in inFlight' : x.twoStep \/ x.type = "FollowUp" => x.correction = 0
      BY <1>2, <1>9 DEF Staged
    <3>2. exchange' = exchange /\ answering' = answering
      BY <1>1
    <3>3. \A a \in answering' : a.seq # exchange'.seq
      BY <1>4, <3>2
    <3>4. \A x \in inFlight' : x.seq = exchange'.seq => x = m /\ x.type = "Req" /\ x.sent = base'
      BY <1>2, <2>1, <2>5, <3>2
    <3> QED BY <3>1, <3>3, <3>4 DEF Staged
  <2>7. AnswerTaken'
    BY <1>1, <1>8, <2>1 DEF AnswerTaken, OthersAnswer
  <2> QED BY <1>6, <2>2, <2>3, <2>4, <2>6, <2>7
<1>10. CASE inFlight' = inFlight
            /\ requester' = [requester EXCEPT !.pc = "idle", !.deadline = pdNow + RequestInterval]
  <2>1. requester'.pc = "idle" /\ requester'.t1 = requester.t1
        /\ requester'.deadline = pdNow + RequestInterval
    BY <1>1, <1>10 DEF PeerTypeOK
  <2>2. PeerTypeOK'
    <3>1. pdNow + RequestInterval \in Nat
      BY Fields
    <3> QED BY <1>1, <1>10, <3>1 DEF PeerTypeOK
  <2>3. RequestsApart'
    BY <1>1, <1>4, <1>5, <1>10, <2>1, Fields DEF RequestsApart
  <2>4. InTime'
    BY <1>1, <1>10 DEF InTime
  <2>5. Staged'
    BY <1>1, <1>4, <1>10 DEF Staged
  <2>6. AnswerTaken'
    BY <1>1, <1>4, <1>8, <1>10 DEF AnswerTaken, OthersAnswer
  <2> QED BY <1>6, <2>2, <2>3, <2>4, <2>5, <2>6
<1> QED BY <1>3, <1>9, <1>10

\* The exchange is given to the request that was sent.
LEMMA RequestNotedKeeps ==
  ASSUME PeerDelayInv, requestNoted
  PROVE  PeerDelayInv'
<1> USE DEF PeerDelayInv
<1>1. /\ requester.pc = "sent"
      /\ UNCHANGED <<pdNow, finishing, inFlight, answering, delayHistory, pathDelay>>
      /\ requester' = [requester EXCEPT !.pc = "idle", !.deadline = pdNow + RequestInterval]
      /\ exchange' = [exchange EXCEPT !.t1 = requester.t1, !.t4 = 0, !.t2 = 0, !.correction = 0,
                                      !.resp = TRUE, !.followUp = FALSE]
  BY DEF requestNoted, t1Of
<1>2. /\ requester'.pc = "idle" /\ requester'.t1 = requester.t1
      /\ requester'.deadline = pdNow + RequestInterval
      /\ exchange'.seq = exchange.seq /\ exchange'.t1 = requester.t1 /\ exchange'.t4 = 0
      /\ exchange'.correction = 0 /\ exchange'.resp = TRUE /\ exchange'.followUp = FALSE
  BY <1>1 DEF PeerTypeOK
<1>3. PeerTypeOK'
  <2>1. pdNow + RequestInterval \in Nat /\ requester.t1 \in Nat
    BY Fields
  <2>2. requester' \in [pc : {"idle", "numbered", "sent"}, t1 : Nat, deadline : Nat]
    BY <1>1, <2>1 DEF PeerTypeOK
  <2>3. exchange' = [seq |-> exchange.seq, t1 |-> requester.t1, t2 |-> 0, t4 |-> 0,
                     correction |-> 0, resp |-> TRUE, followUp |-> FALSE]
    BY <1>1 DEF PeerTypeOK
  <2>4. exchange' \in [seq : Nat, t1 : Nat, t2 : Int, t4 : Nat, correction : Nat,
                       resp : BOOLEAN, followUp : BOOLEAN]
    BY <2>1, <2>3, Fields
  <2> QED BY <1>1, <2>2, <2>4 DEF PeerTypeOK
<1>4. base' = base
  BY <1>1, <1>2 DEF base
<1>5. RequestsApart'
  BY <1>1, <1>2, Fields DEF RequestsApart
<1>6. InTime'
  BY <1>1 DEF InTime
<1>7. Staged'
  BY <1>1, <1>2, <1>4 DEF Staged
<1>8. AnswerTaken'
  BY <1>1, <1>2 DEF AnswerTaken, RequestsApart
<1>9. MeasuredWell'
  BY <1>1, <1>2 DEF MeasuredWell
<1>10. HistoryLong'
  BY <1>1 DEF HistoryLong, ShortOnlyByLateT3
<1> QED BY <1>3, <1>5, <1>6, <1>7, <1>8, <1>9, <1>10

\* What the parts of the invariant that only the neighbour and the network can
\* disturb are: the rest follows.
LEMMA NetworkKeeps ==
  ASSUME PeerDelayInv, UNCHANGED <<requester, exchange, finishing, delayHistory, pathDelay>>,
         pdNow' \in Nat, pdNow' >= pdNow,
         inFlight' \subseteq Datagrams, answering' \subseteq Answers,
         \A x \in inFlight' \cup answering' : \E y \in inFlight \cup answering : x.seq = y.seq,
         InTime', Staged', exchange.followUp /\ OwnAnswer => OwnAnswer'
  PROVE  PeerDelayInv'
<1> USE DEF PeerDelayInv
<1>1. PeerTypeOK'
  BY Fields DEF PeerTypeOK
<1>2. RequestsApart'
  <2>1. \A x \in inFlight' \cup answering' :
          x.seq <= exchange.seq /\ (requester.pc = "numbered" => x.seq # exchange.seq)
    BY DEF RequestsApart
  <2>2. exchange.t1 <= pdNow' /\ requester.t1 <= pdNow'
    BY Fields DEF RequestsApart
  <2>3. exchange.t1 # 0 /\ requester.pc = "numbered" => exchange.t1 + RequestInterval <= pdNow'
    BY Fields DEF RequestsApart
  <2> QED BY <2>1, <2>2, <2>3, Fields DEF RequestsApart
<1>3. OthersAnswer => OthersAnswer'
  BY DEF OthersAnswer
<1>4. AnswerPrompt => AnswerPrompt'
  BY DEF AnswerPrompt
<1>5. AnswerTaken'
  BY <1>3, <1>4, Fields DEF AnswerTaken
<1>6. MeasuredWell' /\ HistoryLong'
  BY DEF MeasuredWell, measured, HistoryLong, ShortOnlyByLateT3
<1> QED BY <1>1, <1>2, <1>5, <1>6

\* Losing datagrams takes nothing away that the invariant needs.
LEMMA LostKeeps ==
  ASSUME PeerDelayInv, NEW m \in inFlight, Lost(m)
  PROVE  PeerDelayInv'
<1> USE DEF PeerDelayInv
<1>1. inFlight' \subseteq inFlight
      /\ UNCHANGED <<pdNow, requester, exchange, finishing, answering, delayHistory, pathDelay>>
  BY DEF Lost
<1>2. InTime'
  BY <1>1 DEF InTime
<1>3. Staged'
  BY <1>1 DEF Staged, base
<1>4. OwnAnswer => OwnAnswer'
  BY <1>1 DEF OwnAnswer
<1>5. inFlight' \subseteq Datagrams /\ answering' \subseteq Answers /\ pdNow' \in Nat /\ pdNow' >= pdNow
  BY <1>1, Fields DEF PeerTypeOK
<1> QED BY <1>1, <1>2, <1>3, <1>4, <1>5, NetworkKeeps

\* Time passes within the bounds of what is under way, and loses what is late.
LEMMA TickKeeps ==
  ASSUME PeerDelayInv, PeerDelayTick
  PROVE  PeerDelayInv'
<1> USE DEF PeerDelayInv
<1>1. /\ UNCHANGED <<requester, exchange, finishing, answering, delayHistory, pathDelay>>
      /\ pdNow' = pdNow + 1
      /\ inFlight' = {m \in inFlight : pdNow' <= m.sent + LinkDelay + MaxQueueing}
      /\ \A a \in answering :
            pdNow < a.since + (IF a.answered THEN MaxAfterSend ELSE MaxTurnaround)
  BY DEF PeerDelayTick
<1>2. inFlight' \subseteq inFlight
  BY <1>1
<1>4. InTime'
  <2>1. \A m \in inFlight' : m.sent <= pdNow' /\ pdNow' <= m.sent + LinkDelay + MaxQueueing
    BY <1>1, Fields DEF InTime
  <2>2. \A a \in answering : IF a.answered
                             THEN /\ a.since <= pdNow' /\ pdNow' <= a.since + MaxAfterSend
                                  /\ a.t2 <= a.since /\ a.since <= a.t2 + MaxTurnaround
                             ELSE /\ a.since = a.t2
                                  /\ a.t2 <= pdNow' /\ pdNow' <= a.t2 + MaxTurnaround
    BY <1>1, Fields DEF InTime
  <2> QED BY <1>1, <2>1, <2>2 DEF InTime
<1>5. Staged'
  BY <1>1, <1>2 DEF Staged, base
<1>6. OwnAnswer => OwnAnswer'
  BY <1>1, <1>2 DEF OwnAnswer
<1>7. inFlight' \subseteq Datagrams /\ answering' \subseteq Answers /\ pdNow' \in Nat /\ pdNow' >= pdNow
  BY <1>1, <1>2, Fields DEF PeerTypeOK
<1> QED BY <1>1, <1>2, <1>4, <1>5, <1>6, <1>7, NetworkKeeps

\* The neighbour takes the request.
LEMMA HandlePdelayReqKeeps ==
  ASSUME PeerDelayInv, NEW m \in inFlight, handlePdelayReq(m)
  PROVE  PeerDelayInv'
<1> USE DEF PeerDelayInv
<1> DEFINE a == [seq |-> m.seq, t2 |-> pdNow, answered |-> FALSE, since |-> pdNow]
<1>1. /\ UNCHANGED <<pdNow, requester, exchange, finishing, delayHistory, pathDelay>>
      /\ m.type = "Req" /\ m.sent + LinkDelay <= pdNow
      /\ inFlight' = inFlight \ {m} /\ answering' = {a}
  BY DEF handlePdelayReq, Arrives
<1>2. /\ a \in Answers /\ a.seq = m.seq /\ a.t2 = pdNow /\ a.answered = FALSE /\ a.since = pdNow
  BY Fields DEF Answers
<1> HIDE DEF a
<1>3. InTime'
  BY <1>1, <1>2, Fields DEF InTime
<1>4. base' = base
  BY <1>1 DEF base
<1>5. Staged'
  <2>1. \A x \in inFlight' : x \in inFlight /\ x # m
    BY <1>1
  <2>2. CASE m.seq = exchange.seq
    <3>1. m.sent = base /\ \A x \in inFlight' : x.seq # exchange.seq
      BY <1>1, <2>1, <2>2 DEF Staged
    <3>2. base + LinkDelay <= a.t2 /\ a.t2 <= base + LinkDelay + MaxQueueing
      BY <1>1, <1>2, <3>1 DEF InTime
    <3> QED BY <1>1, <1>4, <2>1, <3>1, <3>2 DEF Staged
  <2>3. CASE m.seq # exchange.seq
    <3>1. \A x \in answering' : x.seq # exchange.seq
      BY <1>1, <1>2, <2>3
    <3> QED BY <1>1, <1>4, <2>1, <3>1 DEF Staged
  <2> QED BY <2>2, <2>3
<1>6. OwnAnswer => OwnAnswer'
  BY <1>1, <1>2 DEF OwnAnswer
<1>7. inFlight' \subseteq Datagrams /\ answering' \subseteq Answers /\ pdNow' \in Nat /\ pdNow' >= pdNow
  BY <1>1, <1>2, Fields DEF PeerTypeOK
<1>8. \A x \in inFlight' \cup answering' : \E y \in inFlight \cup answering : x.seq = y.seq
  BY <1>1, <1>2
<1> QED BY <1>1, <1>3, <1>5, <1>6, <1>7, <1>8, NetworkKeeps

\* It answers with the time it took the request...
LEMMA RespSentKeeps ==
  ASSUME PeerDelayInv, respSent
  PROVE  PeerDelayInv'
<1> USE DEF PeerDelayInv
<1>1. PICK a \in answering :
        /\ ~a.answered
        /\ inFlight' = inFlight \cup {Message("Resp", a.seq, a.t2 + PeerOffset, 0, TRUE)}
        /\ answering' = {[a EXCEPT !.answered = TRUE, !.since = pdNow]}
  BY DEF respSent
<1>2. UNCHANGED <<pdNow, requester, exchange, finishing, delayHistory, pathDelay>>
  BY DEF respSent
<1> DEFINE m == Message("Resp", a.seq, a.t2 + PeerOffset, 0, TRUE)
           b == [a EXCEPT !.answered = TRUE, !.since = pdNow]
<1>3. /\ m \in Datagrams /\ m.type = "Resp" /\ m.seq = a.seq /\ m.sent = pdNow
      /\ m.correction = 0 /\ m.time = a.t2 + PeerOffset
  BY Fields DEF Message, Datagrams
<1>4. /\ b \in Answers /\ b.seq = a.seq /\ b.t2 = a.t2 /\ b.answered = TRUE /\ b.since = pdNow
  BY Fields DEF Answers, PeerTypeOK
<1>5. inFlight' = inFlight \cup {m} /\ answering' = {b}
  BY <1>1
<1> HIDE DEF m, b
<1>6. a.t2 <= pdNow /\ pdNow <= a.t2 + MaxTurnaround
  BY <1>1 DEF InTime
<1>7. InTime'
  BY <1>2, <1>3, <1>4, <1>5, <1>6, Fields DEF InTime
<1>8. base' = base
  BY <1>2 DEF base
<1>9. m.time - PeerOffset = a.t2
  BY <1>3, Fields
<1>10. Staged'
  <2>1. CASE a.seq = exchange.seq
    <3>1. /\ base + LinkDelay <= a.t2 /\ a.t2 <= base + LinkDelay + MaxQueueing
          /\ \A x \in inFlight : x.seq # exchange.seq
      BY <1>1, <2>1 DEF Staged
    <3>2. \A x \in inFlight' : x.seq = exchange.seq => x = m
      BY <1>5, <3>1
    <3>3. pdNow <= base + LinkDelay + MaxQueueing + MaxTurnaround
      BY <1>6, <3>1, Fields
    <3>4. (m.time - PeerOffset) + m.correction <= m.sent
      BY <1>3, <1>6, <1>9, Fields
    <3>5. \A x \in inFlight' : x.twoStep \/ x.type = "FollowUp" => x.correction = 0
      BY <1>3, <1>5 DEF Staged
    <3> QED BY <1>2, <1>3, <1>4, <1>5, <1>8, <1>9, <3>1, <3>2, <3>3, <3>4, <3>5 DEF Staged
  <2>2. CASE a.seq # exchange.seq
    <3>1. \A x \in answering' : x.seq # exchange.seq
      BY <1>4, <1>5, <2>2
    <3>2. \A x \in inFlight' : x.seq = exchange.seq => x \in inFlight
      BY <1>3, <1>5, <2>2
    <3>3. \A x \in inFlight' : x.twoStep \/ x.type = "FollowUp" => x.correction = 0
      BY <1>3, <1>5 DEF Staged
    <3> QED BY <1>2, <1>8, <3>1, <3>2, <3>3 DEF Staged
  <2> QED BY <2>1, <2>2
<1>11. OwnAnswer => OwnAnswer'
  BY <1>1, <1>2, <1>3, <1>4, <1>5 DEF OwnAnswer
<1>12. inFlight' \subseteq Datagrams /\ answering' \subseteq Answers /\ pdNow' \in Nat /\ pdNow' >= pdNow
  BY <1>2, <1>3, <1>4, <1>5, Fields DEF PeerTypeOK
<1>13. \A x \in inFlight' \cup answering' : \E y \in inFlight \cup answering : x.seq = y.seq
  BY <1>3, <1>4, <1>5
<1> QED BY <1>2, <1>7, <1>10, <1>11, <1>12, <1>13, NetworkKeeps

\* ... and with the time it answered, read when the answer has left.
LEMMA FollowUpSentKeeps ==
  ASSUME PeerDelayInv, followUpSent
  PROVE  PeerDelayInv'
<1> USE DEF PeerDelayInv
<1>1. PICK a \in answering :
        /\ a.answered
        /\ inFlight' = inFlight \cup {Message("FollowUp", a.seq, pdNow + PeerOffset, 0, FALSE)}
  BY DEF followUpSent
<1>2. UNCHANGED <<pdNow, requester, exchange, finishing, delayHistory, pathDelay>> /\ answering' = {}
  BY DEF followUpSent
<1> DEFINE m == Message("FollowUp", a.seq, pdNow + PeerOffset, 0, FALSE)
<1>3. /\ m \in Datagrams /\ m.type = "FollowUp" /\ m.seq = a.seq /\ m.sent = pdNow
      /\ m.correction = 0 /\ m.time = pdNow + PeerOffset
  BY Fields DEF Message, Datagrams
<1>4. inFlight' = inFlight \cup {m}
  BY <1>1
<1> HIDE DEF m
<1>5. a.since <= pdNow /\ pdNow <= a.since + MaxAfterSend /\ a.t2 <= pdNow
  BY <1>1, Fields DEF InTime
<1>6. InTime'
  BY <1>2, <1>3, <1>4, Fields DEF InTime
<1>7. base' = base
  BY <1>2 DEF base
<1>8. m.time - PeerOffset = pdNow
  BY <1>3, Fields
<1>9. \A x \in inFlight' : x.twoStep \/ x.type = "FollowUp" => x.correction = 0
  BY <1>3, <1>4 DEF Staged
<1>10. Staged'
  <2>1. CASE a.seq = exchange.seq
    <3>1. /\ base + LinkDelay <= a.t2
          /\ \A x \in inFlight : x.seq = exchange.seq => x.type = "Resp" /\ x.sent = a.since
      BY <2>1 DEF Staged
    <3>2. base + LinkDelay <= pdNow
      BY <1>5, <3>1, Fields
    <3>3. \A x \in inFlight' : x.seq = exchange.seq =>
            x = m \/ (x \in inFlight /\ x.type = "Resp" /\ x.sent = a.since)
      BY <1>4, <3>1
    <3> QED BY <1>2, <1>3, <1>5, <1>7, <1>8, <1>9, <3>2, <3>3 DEF Staged
  <2>2. CASE a.seq # exchange.seq
    <3>1. \A x \in inFlight' : x.seq = exchange.seq => x \in inFlight
      BY <1>3, <1>4, <2>2
    <3> QED BY <1>2, <1>7, <1>9, <3>1 DEF Staged
  <2> QED BY <2>1, <2>2
<1>11. OwnAnswer => OwnAnswer'
  <2> SUFFICES ASSUME OwnAnswer PROVE OwnAnswer'
    OBVIOUS
  <2>1. a.seq = exchange.seq => pdNow + LinkDelay <= exchange.t4 + MaxAfterSend
    BY <1>5, Fields DEF OwnAnswer
  <2> QED BY <1>2, <1>3, <1>4, <1>8, <2>1 DEF OwnAnswer
<1>12. inFlight' \subseteq Datagrams /\ answering' \subseteq Answers /\ pdNow' \in Nat /\ pdNow' >= pdNow
  BY <1>2, <1>3, <1>4, Fields DEF PeerTypeOK
<1>13. \A x \in inFlight' \cup answering' : \E y \in inFlight \cup answering : x.seq = y.seq
  BY <1>2, <1>3, <1>4
<1> QED BY <1>2, <1>6, <1>10, <1>11, <1>12, <1>13, NetworkKeeps

\* A one-step neighbour says in one answer when it came and how long it took.
LEMMA OneStepKeeps ==
  ASSUME PeerDelayInv, NEW m \in inFlight, oneStepAnswer(m)
  PROVE  PeerDelayInv'
<1> USE DEF PeerDelayInv
<1>1. PICK took \in 0..MaxTurnaround :
        /\ m.sent + LinkDelay + took <= pdNow
        /\ inFlight' = (inFlight \ {m}) \cup
                       {Message("Resp", m.seq, pdNow - took + PeerOffset, took, FALSE)}
  BY DEF oneStepAnswer
<1>2. UNCHANGED <<pdNow, requester, exchange, finishing, answering, delayHistory, pathDelay>>
      /\ m.type = "Req"
  BY DEF oneStepAnswer
<1> DEFINE r == Message("Resp", m.seq, pdNow - took + PeerOffset, took, FALSE)
<1>3. took \in Nat
  BY PeerDelayAssumption
<1>4. /\ r \in Datagrams /\ r.type = "Resp" /\ r.seq = m.seq /\ r.sent = pdNow
      /\ r.correction = took /\ r.time = (pdNow - took) + PeerOffset /\ r.twoStep = FALSE
  BY <1>3, Fields DEF Message, Datagrams
<1>5. inFlight' = (inFlight \ {m}) \cup {r}
  BY <1>1
<1> HIDE DEF r
<1>6. r.time - PeerOffset = pdNow - took
  BY <1>3, <1>4, Fields
<1>7. InTime'
  BY <1>2, <1>4, <1>5, Fields DEF InTime
<1>8. base' = base
  BY <1>2 DEF base
<1>9. \A x \in inFlight' : x.twoStep \/ x.type = "FollowUp" => x.correction = 0
  BY <1>4, <1>5 DEF Staged
<1>10. Staged'
  <2>1. CASE m.seq = exchange.seq
    <3>1. /\ m.sent = base /\ \A x \in answering : x.seq # exchange.seq
          /\ \A x \in inFlight : x.seq = exchange.seq => x = m
      BY <1>2, <2>1 DEF Staged
    <3>2. \A x \in inFlight' : x.seq = exchange.seq => x = r
      BY <1>5, <3>1
    <3>3. pdNow <= base + LinkDelay + MaxQueueing
      BY <3>1 DEF InTime
    <3>4. /\ base + LinkDelay <= pdNow - took
          /\ pdNow - took <= base + LinkDelay + MaxQueueing
          /\ (pdNow - took) + took <= pdNow
          /\ pdNow <= base + LinkDelay + MaxQueueing + MaxTurnaround
      BY <1>1, <1>3, <3>1, <3>3, Fields
    <3> QED BY <1>2, <1>4, <1>6, <1>8, <1>9, <3>1, <3>2, <3>4 DEF Staged
  <2>2. CASE m.seq # exchange.seq
    <3>1. \A x \in inFlight' : x.seq = exchange.seq => x \in inFlight
      BY <1>4, <1>5, <2>2
    <3> QED BY <1>2, <1>8, <1>9, <3>1 DEF Staged
  <2> QED BY <2>1, <2>2
<1>11. OwnAnswer => OwnAnswer'
  BY <1>2, <1>4, <1>5 DEF OwnAnswer
<1>12. inFlight' \subseteq Datagrams /\ answering' \subseteq Answers /\ pdNow' \in Nat /\ pdNow' >= pdNow
  BY <1>2, <1>4, <1>5, Fields DEF PeerTypeOK
<1>13. \A x \in inFlight' \cup answering' : \E y \in inFlight \cup answering : x.seq = y.seq
  BY <1>2, <1>4, <1>5
<1> QED BY <1>2, <1>7, <1>10, <1>11, <1>12, <1>13, NetworkKeeps

\* The port takes the answer: t2 and t4 of the exchange are the answer's.
LEMMA HandlePdelayRespKeeps ==
  ASSUME PeerDelayInv, NEW m \in inFlight, handlePdelayResp(m)
  PROVE  PeerDelayInv'
<1> USE DEF PeerDelayInv
<1>1. /\ UNCHANGED <<pdNow, requester, answering, delayHistory, pathDelay>>
      /\ finishing = {} /\ m.type = "Resp" /\ m.sent + LinkDelay <= pdNow
      /\ inFlight' \subseteq inFlight
  BY DEF handlePdelayResp, Arrives
<1>2. HistoryLong'
  BY <1>1 DEF HistoryLong, ShortOnlyByLateT3
<1>3. InTime'
  BY <1>1 DEF InTime
<1>4. CASE ~(exchange.resp /\ m.seq = exchange.seq)
  <2>1. UNCHANGED <<exchange, finishing>>
    BY <1>4 DEF handlePdelayResp
  <2>2. Staged'
    BY <1>1, <2>1 DEF Staged, base
  <2>3. OwnAnswer => OwnAnswer'
    BY <1>1, <2>1 DEF OwnAnswer
  <2>4. inFlight' \subseteq Datagrams /\ answering' \subseteq Answers /\ pdNow' \in Nat /\ pdNow' >= pdNow
    BY <1>1, Fields DEF PeerTypeOK
  <2> QED BY <1>1, <1>3, <2>1, <2>2, <2>3, <2>4, NetworkKeeps
<1>5. CASE exchange.resp /\ m.seq = exchange.seq
  <2>1. /\ exchange' = [exchange EXCEPT !.t2 = m.time, !.t4 = pdNow,
                                        !.correction = @ + m.correction,
                                        !.resp = FALSE, !.followUp = m.twoStep]
        /\ finishing' = IF m.twoStep THEN {} ELSE {0}
    BY <1>5 DEF handlePdelayResp
  <2>2. exchange.correction = 0 /\ exchange.t1 # 0
    BY <1>5 DEF AnswerTaken
  <2>3. exchange' = [seq |-> exchange.seq, t1 |-> exchange.t1, t2 |-> m.time, t4 |-> pdNow,
                     correction |-> m.correction, resp |-> FALSE, followUp |-> m.twoStep]
    <3>1. exchange.correction + m.correction = m.correction
      BY <2>2, Fields
    <3>2. exchange' = [exchange EXCEPT !.t2 = m.time, !.t4 = pdNow, !.correction = m.correction,
                                       !.resp = FALSE, !.followUp = m.twoStep]
      BY <2>1, <3>1
    <3> QED BY <3>2 DEF PeerTypeOK
  <2>4. /\ exchange'.seq = exchange.seq /\ exchange'.t1 = exchange.t1 /\ exchange'.t2 = m.time
        /\ exchange'.t4 = pdNow /\ exchange'.correction = m.correction
        /\ exchange'.resp = FALSE /\ exchange'.followUp = m.twoStep
    BY <2>3
  <2>5. PeerTypeOK'
    <3>1. exchange' \in [seq : Nat, t1 : Nat, t2 : Int, t4 : Nat, correction : Nat,
                         resp : BOOLEAN, followUp : BOOLEAN]
      BY <2>3, Fields
    <3> QED BY <1>1, <2>1, <3>1 DEF PeerTypeOK
  <2>6. RequestsApart'
    BY <1>1, <2>4 DEF RequestsApart
  <2>7. base' = base
    BY <1>1, <2>4 DEF base
  <2>8. Staged'
    BY <1>1, <2>4, <2>7 DEF Staged
  <2>9. /\ base + LinkDelay <= m.time - PeerOffset
        /\ m.time - PeerOffset <= base + LinkDelay + MaxQueueing
        /\ (m.time - PeerOffset) + m.correction <= m.sent
        /\ m.sent <= base + LinkDelay + MaxQueueing + MaxTurnaround
        /\ m.twoStep => m.correction = 0
    BY <1>1, <1>5 DEF Staged
  <2>10. requester.pc # "numbered"
    BY <1>5 DEF RequestsApart
  <2>11. exchange.t1 <= base
    <3>1. CASE requester.pc = "idle"
      BY <3>1, Fields DEF base
    <3>2. CASE requester.pc = "sent"
      <4>1. exchange.t1 + RequestInterval <= requester.t1 /\ base = requester.t1
        BY <2>2, <3>2 DEF base, RequestsApart
      <4> QED BY <4>1, Fields
    <3> QED BY <2>10, <3>1, <3>2, Fields
  <2>12. PICK t \in Int : t = m.time - PeerOffset
    BY Fields
  <2>13. MeasuredWell'
    <3> SUFFICES ASSUME NEW x \in finishing'
                 PROVE  measured(x)' >= 2 * LinkDelay - MaxAfterSend
      BY DEF MeasuredWell
    <3>1. x = 0
      BY <2>1
    <3>2. measured(x)' = ((pdNow - exchange.t1) - 0) - m.correction
      BY <2>4, <3>1 DEF measured
    <3>3. exchange.t1 + LinkDelay <= t /\ t + m.correction <= m.sent
      BY <2>9, <2>11, <2>12, Fields
    <3> QED BY <1>1, <3>2, <3>3, <2>12, Fields
  <2>14. AnswerTaken'
    <3> SUFFICES ASSUME m.twoStep
                 PROVE  OwnAnswer' /\ (requester.pc = "idle" => AnswerPrompt')
      BY <1>1, <2>2, <2>4, <2>9 DEF AnswerTaken
    <3>1. exchange.t1 + LinkDelay <= m.time - PeerOffset
      BY <2>9, <2>11, <2>12, Fields
    <3>2. \A x \in inFlight : x.seq = exchange.seq =>
            /\ x.type # "Req"
            /\ x.type = "FollowUp" => (x.time - PeerOffset) + LinkDelay <= pdNow + MaxAfterSend
      <4> SUFFICES ASSUME NEW x \in inFlight, x.seq = exchange.seq
                   PROVE  /\ x.type # "Req"
                          /\ x.type = "FollowUp" =>
                               (x.time - PeerOffset) + LinkDelay <= pdNow + MaxAfterSend
        OBVIOUS
      <4>1. x.type # "Req"
        BY <1>1, <1>5 DEF Staged
      <4>2. x.type = "FollowUp" => x.time - PeerOffset <= m.sent + MaxAfterSend
        BY <1>1, <1>5 DEF Staged
      <4>3. PICK u \in Int : u = x.time - PeerOffset
        BY Fields
      <4> QED BY <1>1, <4>1, <4>2, <4>3, Fields
    <3>3. \A a \in answering : a.seq = exchange.seq => a.answered /\ a.since + LinkDelay <= pdNow
      BY <1>1, <1>5 DEF Staged
    <3>4. OwnAnswer'
      BY <1>1, <2>4, <2>10, <3>1, <3>2, <3>3 DEF OwnAnswer
    <3>5. ASSUME requester.pc = "idle" PROVE AnswerPrompt'
      <4>1. base = exchange.t1
        BY <3>5 DEF base
      <4>2. pdNow <= m.sent + LinkDelay + MaxQueueing
        BY DEF InTime
      <4>3. pdNow - exchange.t1 <= 2 * LinkDelay + 2 * MaxQueueing + MaxTurnaround
        BY <2>9, <4>1, <4>2, Fields
      <4>4. t - exchange.t1 <= LinkDelay + MaxQueueing
        BY <2>9, <2>12, <4>1, Fields
      <4> QED BY <2>4, <2>12, <4>3, <4>4 DEF AnswerPrompt
    <3> QED BY <3>4, <3>5
  <2> QED BY <1>2, <1>3, <2>5, <2>6, <2>8, <2>13, <2>14
<1> QED BY <1>4, <1>5

\* The port takes the follow-up: of the same request, or of the next one, and
\* then the requests being apart makes the measurement negative.
LEMMA HandleFollowUpKeeps ==
  ASSUME RequestsFarApart, PeerDelayInv, NEW m \in inFlight, handlePdelayRespFollowUp(m)
  PROVE  PeerDelayInv'
<1> USE DEF PeerDelayInv
<1>1. /\ UNCHANGED <<pdNow, requester, answering, delayHistory, pathDelay>>
      /\ finishing = {} /\ m.type = "FollowUp"
      /\ inFlight' \subseteq inFlight
  BY DEF handlePdelayRespFollowUp
<1>2. HistoryLong'
  BY <1>1 DEF HistoryLong, ShortOnlyByLateT3
<1>3. InTime'
  BY <1>1 DEF InTime
<1>4. CASE ~(exchange.followUp /\ m.seq = exchange.seq)
  <2>1. UNCHANGED <<exchange, finishing>>
    BY <1>4 DEF handlePdelayRespFollowUp
  <2>2. Staged'
    BY <1>1, <2>1 DEF Staged, base
  <2>3. OwnAnswer => OwnAnswer'
    BY <1>1, <2>1 DEF OwnAnswer
  <2>4. inFlight' \subseteq Datagrams /\ answering' \subseteq Answers /\ pdNow' \in Nat /\ pdNow' >= pdNow
    BY <1>1, Fields DEF PeerTypeOK
  <2> QED BY <1>1, <1>3, <2>1, <2>2, <2>3, <2>4, NetworkKeeps
<1>5. CASE exchange.followUp /\ m.seq = exchange.seq
  <2>1. /\ exchange' = [exchange EXCEPT !.correction = @ + m.correction, !.followUp = FALSE]
        /\ finishing' = {m.time - exchange.t2}
    BY <1>5 DEF handlePdelayRespFollowUp
  <2>2. exchange.correction = 0 /\ exchange.t1 # 0 /\ m.correction = 0 /\ ~exchange.resp
    BY <1>1, <1>5, Fields DEF AnswerTaken, Staged
  <2>3. exchange' = [exchange EXCEPT !.correction = 0, !.followUp = FALSE]
    BY <2>1, <2>2
  <2>4. /\ exchange'.seq = exchange.seq /\ exchange'.t1 = exchange.t1
        /\ exchange'.t2 = exchange.t2 /\ exchange'.t4 = exchange.t4 /\ exchange'.correction = 0
        /\ exchange'.resp = exchange.resp /\ exchange'.followUp = FALSE
    BY <2>3 DEF PeerTypeOK
  <2>5. PeerTypeOK'
    <3>1. m.time - exchange.t2 \in Int
      BY Fields
    <3>2. exchange' \in [seq : Nat, t1 : Nat, t2 : Int, t4 : Nat, correction : Nat,
                         resp : BOOLEAN, followUp : BOOLEAN]
      BY <2>3 DEF PeerTypeOK
    <3>3. finishing' \subseteq Int
      BY <2>1, <3>1
    <3> QED BY <1>1, <3>2, <3>3 DEF PeerTypeOK
  <2>6. RequestsApart'
    BY <1>1, <2>4 DEF RequestsApart
  <2>7. base' = base
    BY <1>1, <2>4 DEF base
  <2>8. Staged'
    BY <1>1, <2>4, <2>7 DEF Staged
  <2>9. AnswerTaken'
    BY <2>2, <2>4 DEF AnswerTaken
  <2>10. PICK t \in Int : t = m.time - PeerOffset
    BY Fields
  <2>11. PICK u \in Int : u = exchange.t2 - PeerOffset
    BY Fields
  <2> DEFINE M == (exchange.t4 - exchange.t1) - (t - u)
  <2>12. \A x \in finishing' : measured(x)' = M
    <3>1. m.time - exchange.t2 = t - u
      BY <2>10, <2>11, Fields
    <3> SUFFICES ASSUME NEW x \in finishing' PROVE measured(x)' = M
      OBVIOUS
    <3>2. x = t - u
      BY <2>1, <3>1
    <3>3. measured(x)' = ((exchange.t4 - exchange.t1) - (t - u)) - 0
      BY <2>4, <3>2 DEF measured
    <3> QED BY <3>3, Fields
  <2>13. M >= 2 * LinkDelay - MaxAfterSend \/ M <= -2
    <3>1. CASE OwnAnswer
      <4>1. exchange.t1 + LinkDelay <= u /\ t + LinkDelay <= exchange.t4 + MaxAfterSend
        BY <1>1, <1>5, <2>10, <2>11, <3>1 DEF OwnAnswer
      <4> QED BY <4>1, Fields
    <3>2. CASE OthersAnswer /\ AnswerPrompt
      <4>1. requester.pc = "sent"
        BY <1>5, <3>2, Fields DEF OthersAnswer, RequestsApart
      <4>2. exchange.t1 + RequestInterval <= requester.t1 /\ base = requester.t1
        BY <2>2, <4>1 DEF base, RequestsApart
      <4>3. base + LinkDelay <= t
        BY <1>1, <1>5, <2>10 DEF Staged
      <4>4. /\ exchange.t4 - exchange.t1 <= 2 * LinkDelay + 2 * MaxQueueing + MaxTurnaround
            /\ u - exchange.t1 <= LinkDelay + MaxQueueing
        BY <2>11, <3>2 DEF AnswerPrompt
      <4>5. RequestInterval >= 2 * LinkDelay + 3 * MaxQueueing + MaxTurnaround + 2
        BY DEF RequestsFarApart
      <4> QED BY <4>2, <4>3, <4>4, <4>5, Fields
    <3> QED BY <1>5, <3>1, <3>2 DEF AnswerTaken
  <2>14. MeasuredWell'
    BY <2>12, <2>13 DEF MeasuredWell
  <2> QED BY <1>2, <1>3, <2>5, <2>6, <2>8, <2>9, <2>14
<1> QED BY <1>4, <1>5

\* The smallest of some measurements is one of them.
LEMMA SmallestIsOne ==
  ASSUME NEW S \in SUBSET Nat, S # {}
  PROVE  Min(S) \in S
<1>1. PICK x \in S : \A y \in S : x <= y
  <2> DEFINE Less == OpToRel(<, Nat)
  <2>1. IsWellFoundedOn(Less, Nat)
    BY NatLessThanWellFounded
  <2> HIDE DEF Less
  <2>2. PICK x \in S : \A y \in S : ~(<<y, x>> \in Less)
    BY <2>1, WFMin
  <2>3. \A y \in S : y \in Nat /\ x \in Nat /\ ~(y < x)
    BY <2>2 DEF Less, OpToRel
  <2> QED BY <2>2, <2>3
<1> QED BY <1>1 DEF Min

\* A measurement is stored if it is not negative, and then it is long enough.
LEMMA CompleteKeeps ==
  ASSUME PeerDelayInv, completePdelay
  PROVE  PeerDelayInv'
<1> USE DEF PeerDelayInv
<1> DEFINE Long == {d \in Nat : 2 * d + 1 >= 2 * LinkDelay - MaxAfterSend}
<1>1. UNCHANGED <<pdNow, requester, exchange, inFlight, answering>> /\ finishing' = {}
  BY DEF completePdelay
<1>2. PeerTypeOK'
  BY <1>1 DEF PeerTypeOK
<1>3. RequestsApart' /\ InTime' /\ Staged' /\ MeasuredWell'
  BY <1>1 DEF RequestsApart, InTime, Staged, base, MeasuredWell
<1>4. AnswerTaken'
  BY <1>1 DEF AnswerTaken, OwnAnswer, OthersAnswer, AnswerPrompt
<1>5. PICK x \in finishing :
        IF exchange.t1 = 0 \/ exchange.t4 = 0
        THEN UNCHANGED <<delayHistory, pathDelay>>
        ELSE storeFilteredPathDelay(halved(measured(x)))
  BY DEF completePdelay, measured
<1>6. HistoryLong'
  <2>1. CASE UNCHANGED <<delayHistory, pathDelay>>
    BY <2>1 DEF HistoryLong, ShortOnlyByLateT3
  <2>2. CASE exchange.t1 # 0 /\ exchange.t4 # 0 /\ ~(UNCHANGED <<delayHistory, pathDelay>>)
    <3>1. PICK v \in Int : v = measured(x)
      BY Fields DEF measured, PeerTypeOK
    <3>2. v >= 2 * LinkDelay - MaxAfterSend \/ v <= -2
      BY <2>2, <3>1 DEF MeasuredWell
    <3> DEFINE d == halved(v)
    <3>3. d \in Int /\ (d < 0 \/ 2 * d + 1 >= 2 * LinkDelay - MaxAfterSend)
      BY <3>2, Fields DEF halved
    <3>4. storeFilteredPathDelay(d)
      BY <1>5, <2>2, <3>1
    <3> HIDE DEF d
    <3>5. d \in Long
      BY <2>2, <3>3, <3>4, Fields DEF storeFilteredPathDelay
    <3> DEFINE full == Append(delayHistory, d)
    <3>6. /\ delayHistory' = IF Len(full) > FilterSize THEN Tail(full) ELSE full
          /\ pathDelay' = Min(ToSet(delayHistory'))
      BY <2>2, <3>4 DEF storeFilteredPathDelay
    <3>7. delayHistory \in Seq(Long)
      BY DEF HistoryLong
    <3> HIDE DEF Long
    <3>8. full \in Seq(Long) /\ Len(full) = Len(delayHistory) + 1
      BY <3>5, <3>7
    <3>9. PICK n \in Nat : n = Len(full)
      BY <3>8
    <3> HIDE DEF full
    <3>10. delayHistory' \in Seq(Long) /\ Len(delayHistory') > 0
      <4>1. CASE Len(full) > FilterSize
        <5>1. delayHistory' = Tail(full) /\ n > 1
          BY <3>6, <3>9, <4>1, PeerDelayAssumption
        <5>2. full # <<>>
          BY <3>8, <3>9, <5>1
        <5>3. Tail(full) \in Seq(Long) /\ Len(Tail(full)) = Len(full) - 1
          BY <3>8, <5>2
        <5> QED BY <3>9, <5>1, <5>3
      <4>2. CASE ~(Len(full) > FilterSize)
        <5>1. n > 0
          BY <3>7, <3>8, <3>9
        <5> QED BY <3>6, <3>8, <3>9, <4>2, <5>1
      <4> QED BY <4>1, <4>2
    <3> DEFINE recent == ToSet(delayHistory')
    <3>11. recent \subseteq Long /\ recent # {}
      <4>1. DOMAIN delayHistory' = 1..Len(delayHistory')
        BY <3>10
      <4>2. 1 \in DOMAIN delayHistory'
        BY <3>10, <4>1
      <4>3. \A i \in DOMAIN delayHistory' : delayHistory'[i] \in Long
        BY <3>10, <4>1
      <4> QED BY <4>2, <4>3 DEF ToSet
    <3> HIDE DEF recent
    <3>12. recent \in SUBSET Nat
      BY <3>11 DEF Long
    <3>13. Min(recent) \in recent
      BY <3>11, <3>12, SmallestIsOne
    <3>14. pathDelay' \in Long
      BY <3>6, <3>11, <3>13 DEF recent
    <3> QED BY <3>10, <3>14 DEF HistoryLong, ShortOnlyByLateT3, Long
  <2> QED BY <1>5, <2>1, <2>2
<1> QED BY <1>2, <1>3, <1>4, <1>6

LEMMA PeerDelayNextKeeps ==
  ASSUME RequestsFarApart
  PROVE  PeerDelayInv /\ [PeerDelayNext]_peerDelayVars => PeerDelayInv'
<1> SUFFICES ASSUME PeerDelayInv, [PeerDelayNext]_peerDelayVars PROVE PeerDelayInv'
  OBVIOUS
<1>1. CASE UNCHANGED peerDelayVars
  <2>1. Staged' /\ InTime' /\ (OwnAnswer => OwnAnswer')
    BY <1>1 DEF peerDelayVars, PeerDelayInv, Staged, base, InTime, OwnAnswer
  <2>2. inFlight' \subseteq Datagrams /\ answering' \subseteq Answers /\ pdNow' \in Nat /\ pdNow' >= pdNow
    BY <1>1, Fields DEF peerDelayVars, PeerDelayInv, PeerTypeOK
  <2> QED BY <1>1, <2>1, <2>2, NetworkKeeps DEF peerDelayVars
<1>2. CASE PeerDelayNext
  BY <1>2, SendPdelayReqKeeps, RequestSentKeeps, RequestNotedKeeps, LostKeeps, TickKeeps,
     HandlePdelayReqKeeps, RespSentKeeps, FollowUpSentKeeps, OneStepKeeps, HandlePdelayRespKeeps,
     HandleFollowUpKeeps, CompleteKeeps DEF PeerDelayNext
<1> QED BY <1>1, <1>2

\* Whatever is lost, repeated, late or mixed from two requests, the path delay that
\* is published is shorter than the cable by no more than half of what the neighbour
\* lets pass before it reads t3, for every cable, queue, turnaround and number of
\* requests, provided requests are far enough apart.  (Where t3 is read as the answer
\* leaves, it is never shorter than the cable.)
THEOREM ShortByLateT3Alone ==
  ASSUME RequestsFarApart
  PROVE  PeerDelaySpec => []ShortOnlyByLateT3
<1>1. PeerDelayInv => ShortOnlyByLateT3
  BY DEF PeerDelayInv, HistoryLong
<1> QED BY <1>1, PeerDelayInitInv, PeerDelayNextKeeps, PTL DEF PeerDelaySpec

(***************************************************************************)
(* The election. SegmentSettles looks back over the periods since the last *)
(* fault; the invariant has them in the state. Either nobody has announced *)
(* since (Unheard): then every host has waited for as long, and by the     *)
(* announce timeout one speaks up. Or somebody has (Live), and from then   *)
(* on somebody does in every period: a host that leads and is not beaten   *)
(* (Firm) stops only when it hears a better one, who is then Firm. So      *)
(* nobody forgets whom he has heard. In the next period all who lead are   *)
(* heard (AllSpeak), in the one after that those that are beaten step down *)
(* (Decided), and then their last Sync is past (OneSpeaks).                *)
(***************************************************************************)

ElectionTyped ==
  /\ \A h \in Hosts : rank[h] \in Ranks[h]
  /\ rank \in [Hosts -> Nat \ {0}]
  /\ running \in [Hosts -> BOOLEAN] /\ slaveActive \in [Hosts -> BOOLEAN]
  /\ announceDue \in [Hosts -> BOOLEAN]
  /\ role \in [Hosts -> {"Listening", "Master", "Passive"}]
  /\ upFor \in [Hosts -> Nat] /\ competitor \in [Hosts -> Nat]
  /\ age \in [Hosts -> 0..(Timeout + 1)]
  /\ gmUp \in BOOLEAN /\ gmDue \in BOOLEAN /\ edgeDue \in BOOLEAN
  /\ announcedLocked \in BOOLEAN
  /\ timing \subseteq Hosts /\ calm \in Nat /\ calm <= CalmMax

\* A host stands aside for a dataset heard; one that is only a slave never leads.
RolesFounded ==
  /\ \A h \in Hosts \ SlaveOnly : role[h] = "Passive" => competitor[h] # None
  /\ \A h \in Hosts : role[h] = "Master" => running[h] /\ h \notin SlaveOnly

ElectionBase ==
  /\ ElectionTyped /\ RefTypeOK /\ RolesFounded
  /\ announcedLocked = locked /\ LockIsCurrent

\* The hosts that may lead, and those that lead and have heard of no better one:
\* at their next turn they will lead still.
Eligible == Listeners \ SlaveOnly
beaten(h) == competitor[h] # None /\ competitor[h] < rank[h]
Firm == {h \in Eligible : role[h] = "Master" /\ ~beaten(h)}

\* Somebody has announced since the last fault, and somebody does in every period.
StillToSpeak == (gmUp /\ gmDue) \/ \E m \in Firm : announceDue[m]
Heard(k) == competitor[k] # None /\ (age[k] = 0 \/ (age[k] = 1 /\ StillToSpeak))
Live == (gmUp \/ Firm # {}) /\ \A k \in Eligible \ Firm : Heard(k)

\* Nobody has: whoever had his turn in this period waits for a timeout.
Waits(k) ==
  \/ role[k] = "Passive" /\ age[k] <= Timeout
  \/ role[k] = "Listening" /\ upFor[k] < Timeout /\ competitor[k] = None
Waited(k) ==
  /\ role[k] = "Master" => calm = 0 \/ (calm = 1 /\ announceDue[k])
  /\ competitor[k] # None => age[k] >= calm \/ age[k] > Timeout
  /\ role[k] = "Listening" => calm <= Timeout /\ (upFor[k] >= calm \/ upFor[k] >= Timeout)
  /\ calm = 0 \/ announceDue[k] \/ Waits(k)
Unheard ==
  /\ gmUp => calm = 0 \/ (calm = 1 /\ gmDue)
  /\ \A k \in Eligible : Waited(k)

LiveInTime == Live \/ (Unheard /\ (gmUp \/ Eligible # {} => calm <= Timeout + 1))

\* Whoever had his turn in this period knows his role, and who leads was heard.
KnownTo(k, j) == rank[k] < rank[j] => competitor[j] # None /\ competitor[j] <= rank[k]
Spoken(k) ==
  /\ role[k] # "Listening"
  /\ role[k] = "Master" => \A j \in Eligible : KnownTo(k, j)
AllSpeak == Live /\ calm >= Timeout => \A k \in Eligible : announceDue[k] \/ Spoken(k)

\* Of two that lead, one is beaten and has not yet had the turn to find out.
StepsDown(k) == k \notin Firm /\ announceDue[k]
OneFirm ==
  /\ \A k \in Eligible : role[k] # "Listening"
  /\ \A k, j \in Firm : k = j
  /\ \A k, j \in Masters : k = j \/ StepsDown(k) \/ StepsDown(j)
Decided == Live /\ calm >= Timeout + 1 => OneFirm

OneSpeaks == calm >= SettleTime => \A k, j \in Masters \cup timing : k = j

\* It is a better one than the host's own, which may have moved since the last turn.
Outranked ==
  \A k \in Eligible : role[k] = "Passive" => beaten(k) \/ calm = 0 \/ (calm = 1 /\ announceDue[k])

TimingHeld == calm >= 1 => timing \subseteq Eligible

Settling == TimingHeld /\ Outranked /\ LiveInTime /\ AllSpeak /\ Decided /\ OneSpeaks
ElectionInv == ElectionBase /\ Settling

LEMMA OneOrNone ==
  ASSUME NEW S, \A x, y \in S : x = y
  PROVE  Cardinality(S) <= 1 /\ (S # {} => Cardinality(S) = 1)
<1>1. CASE S = {}
  BY <1>1, FS_EmptySet
<1>2. CASE S # {}
  <2>1. PICK x : x \in S
    BY <1>2
  <2>2. S = {x}
    BY <2>1
  <2> QED BY <2>2, FS_Singleton
<1> QED BY <1>1, <1>2

LEMMA ElectionInvImplies == ElectionInv => SegmentSettles
<1> SUFFICES ASSUME ElectionInv PROVE SegmentSettles
  OBVIOUS
<1> USE ElectionAssumption
<1>1. TypeOK
  BY DEF ElectionInv, ElectionBase, ElectionTyped, TypeOK
<1>2. SplitHealed
  <2>1. SUFFICES ASSUME calm >= SettleTime PROVE Cardinality(timing) <= 1
    BY DEF SplitHealed
  <2>2. \A k, j \in timing : k = j
    BY <2>1 DEF ElectionInv, Settling, OneSpeaks
  <2> QED BY <2>2, OneOrNone
<1>3. HeadlessBounded
  <2>1. SUFFICES ASSUME calm >= SettleTime, ~gmUp, Eligible # {} PROVE Cardinality(Masters) = 1
    BY DEF HeadlessBounded, Eligible
  <2>2. \A k, j \in Masters : k = j
    BY <2>1 DEF ElectionInv, Settling, OneSpeaks
  <2>3. Live
    <3>1. calm \in Nat /\ Timeout \in Nat /\ calm >= Timeout + 2
      BY <2>1 DEF ElectionInv, ElectionBase, ElectionTyped, SettleTime
    <3> QED BY <2>1, <3>1 DEF ElectionInv, Settling, LiveInTime
  <2>4. Masters # {}
    BY <2>1, <2>3 DEF Live, Firm, Eligible, Masters
  <2> QED BY <2>2, <2>4, OneOrNone
<1> QED BY <1>1, <1>2, <1>3 DEF SegmentSettles, ElectionInv, ElectionBase

LEMMA ElectionInitInv == Init => ElectionInv
<1> SUFFICES ASSUME Init PROVE ElectionInv
  OBVIOUS
<1> USE ElectionAssumption, ReferenceAssumption
<1>1. ElectionTyped
  <2>1. /\ running \in [Hosts -> BOOLEAN] /\ slaveActive \in [Hosts -> BOOLEAN]
        /\ announceDue \in [Hosts -> BOOLEAN] /\ timing \subseteq Hosts
        /\ role \in [Hosts -> {"Listening", "Master", "Passive"}]
        /\ gmUp \in BOOLEAN /\ gmDue \in BOOLEAN /\ edgeDue \in BOOLEAN
        /\ announcedLocked \in BOOLEAN
    BY Zenon DEF Init
  <2>2. /\ upFor \in [Hosts -> Nat] /\ competitor \in [Hosts -> Nat]
        /\ age \in [Hosts -> 0..(Timeout + 1)] /\ calm \in Nat /\ calm <= CalmMax
    <3>1. 0 \in Nat /\ 0 \in 0..(Timeout + 1) /\ 0 <= CalmMax
      OBVIOUS
    <3> QED BY <3>1 DEF Init, None
  <2>3. /\ \A h \in Hosts : rank[h] \in Ranks[h]
        /\ rank \in [Hosts -> Nat \ {0}]
    <3>1. /\ rank \in [Hosts -> UNION {Ranks[h] : h \in Hosts}]
          /\ \A h \in Hosts : rank[h] \in Ranks[h]
      BY DEF Init
    <3>2. \A h \in Hosts : rank[h] \in Nat \ {0}
      BY <3>1
    <3> QED BY <3>1, <3>2
  <2> QED BY <2>1, <2>2, <2>3 DEF ElectionTyped
<1>2. RefTypeOK /\ announcedLocked = locked
  <2>1. 0 \in 0..LockEdges /\ 0 \in 0..(Holdover + 1)
    OBVIOUS
  <2> QED BY <2>1, Zenon DEF Init, enable, RefTypeOK
<1>3. RolesFounded /\ LockIsCurrent
  BY DEF Init, RolesFounded, LockIsCurrent
<1>4. Settling
  <2>1. calm = 0 /\ Timeout \in Nat \ {0}
    BY DEF Init
  <2>2. Unheard
    BY <2>1, <1>1 DEF ElectionTyped, Unheard, Waited, Eligible, Listeners
  <2> QED BY <2>1, <2>2 DEF Settling, TimingHeld, Outranked, LiveInTime, AllSpeak, Decided,
                            OneSpeaks, SettleTime
<1> QED BY <1>1, <1>2, <1>3, <1>4 DEF ElectionInv, ElectionBase

\* After a fault nothing is owed yet.
LEMMA FaultForgives ==
  ASSUME ElectionBase', calm' = 0
  PROVE  ElectionInv'
<1> USE ElectionAssumption
<1>1. Timeout \in Nat \ {0}
  OBVIOUS
<1>2. Unheard'
  BY <1>1 DEF ElectionBase, ElectionTyped, Unheard, Waited, Eligible, Listeners
<1> QED BY <1>1, <1>2 DEF ElectionInv, Settling, TimingHeld, Outranked, LiveInTime, AllSpeak,
                          Decided, OneSpeaks, SettleTime

\* What an Announce does to those it reaches and to the others.
LEMMA Announced ==
  ASSUME ElectionTyped, NEW hs \in SUBSET Hosts, NEW dataset \in Nat \ {0},
         NEW comp \in [Hosts -> Nat], handleForeignAnnounce(hs, dataset, comp)
  PROVE  /\ competitor' \in [Hosts -> Nat] /\ age' \in [Hosts -> 0..(Timeout + 1)]
         /\ \A h \in hs : /\ competitor'[h] # None /\ competitor'[h] <= dataset /\ age'[h] = 0
                          /\ comp[h] # None => competitor'[h] <= comp[h]
         /\ \A h \in Hosts \ hs : competitor'[h] = comp[h] /\ age'[h] = age[h]
<1> USE ElectionAssumption DEF None
<1>1. competitor' \in [Hosts -> Nat] /\ age' \in [Hosts -> 0..(Timeout + 1)]
  BY DEF handleForeignAnnounce, ElectionTyped
<1>2. ASSUME NEW h \in hs
      PROVE  /\ competitor'[h] # None /\ competitor'[h] <= dataset /\ age'[h] = 0
             /\ comp[h] # None => competitor'[h] <= comp[h]
  <2>1. h \in Hosts /\ comp[h] \in Nat
    OBVIOUS
  <2>2. /\ age'[h] = 0
        /\ competitor'[h] = IF comp[h] = None \/ dataset < comp[h] THEN dataset ELSE comp[h]
    BY <2>1 DEF handleForeignAnnounce, isBetterMaster
  <2> QED BY <2>1, <2>2
<1>3. \A h \in Hosts \ hs : competitor'[h] = comp[h] /\ age'[h] = age[h]
  BY DEF handleForeignAnnounce
<1> QED BY <1>1, <1>2, <1>3

\* The turn of a host: what it makes of what it has heard.
comparedWith(h) == IF h \in SlaveOnly THEN competitor[h] ELSE kept(h)

LEMMA Evaluated ==
  ASSUME ElectionBase, NEW h \in Hosts
  PROVE  /\ evaluateBMCA(h) \in {"Listening", "Master", "Passive"}
         /\ evaluateBMCA(h) = "Master" => h \notin SlaveOnly
         /\ h \notin SlaveOnly /\ evaluateBMCA(h) = "Passive" =>
              kept(h) = competitor[h] /\ competitor[h] # None /\ competitor[h] < rank[h]
         /\ h \notin SlaveOnly /\ evaluateBMCA(h) = "Master" =>
              kept(h) = None \/ ~(kept(h) < rank[h])
         /\ evaluateBMCA(h) = "Listening" =>
              /\ h \notin SlaveOnly /\ role[h] = "Listening" /\ kept(h) = None
              /\ upFor[h] < Timeout
         /\ kept(h) = None \/ kept(h) = competitor[h]
<1> QED BY DEF evaluateBMCA, kept, expired, isBetterMaster

LEMMA TurnKeepsBase ==
  ASSUME ElectionBase, NEW h \in Hosts, transmitThread(h)
  PROVE  /\ ElectionBase'
         /\ calm' # 0 => calm' = calm
         /\ calm' # 0 /\ announceDue[h] /\ evaluateBMCA(h) = "Master" =>
              handleForeignAnnounce(Listeners \ {h}, rank[h], [competitor EXCEPT ![h] = comparedWith(h)])
<1> USE ElectionAssumption
<1> DEFINE new == evaluateBMCA(h)
           comp == [competitor EXCEPT ![h] = comparedWith(h)]
<1>1. /\ running[h] /\ role' = [role EXCEPT ![h] = new]
      /\ announceDue' = [announceDue EXCEPT ![h] = FALSE]
      /\ upFor' = [upFor EXCEPT ![h] = IF new = "Listening" THEN @ ELSE 0]
      /\ UNCHANGED <<rank, running, slaveActive, gmVars, timing>>
      /\ \/ /\ new = "Master" /\ announceDue[h] /\ sendAnnounce(h, comp)
         \/ /\ ~(new = "Master" /\ announceDue[h])
            /\ competitor' = comp
            /\ age' = [age EXCEPT ![h] = IF comp[h] = None THEN 0 ELSE @]
            /\ UNCHANGED <<silent, faults, calm>>
  BY DEF transmitThread, comparedWith
<1>2. comp \in [Hosts -> Nat] /\ rank[h] \in Nat \ {0}
  BY Evaluated DEF ElectionBase, ElectionTyped, comparedWith, None
<1>3. /\ comp[h] = comparedWith(h)
      /\ \A k \in Hosts : k # h => comp[k] = competitor[k]
  BY DEF ElectionBase, ElectionTyped
<1> HIDE DEF new, comp
<1>4. /\ competitor' \in [Hosts -> Nat] /\ age' \in [Hosts -> 0..(Timeout + 1)]
      /\ calm' \in Nat /\ calm' <= CalmMax /\ (calm' # 0 => calm' = calm)
      /\ competitor'[h] = comp[h]
      /\ \A k \in Hosts : competitor[k] # None /\ k # h =>
           competitor'[k] # None /\ competitor'[k] <= competitor[k]
      /\ calm' # 0 /\ announceDue[h] /\ new = "Master" =>
           handleForeignAnnounce(Listeners \ {h}, rank[h], comp)
  <2>1. CASE sendAnnounce(h, comp)
    <3>1. PICK hs \in SUBSET (Listeners \ {h}) :
            Reaches(Listeners \ {h}, hs) /\ handleForeignAnnounce(hs, rank[h], comp)
      BY <2>1 DEF sendAnnounce
    <3>2. hs \in SUBSET Hosts /\ h \notin hs
      BY DEF Listeners
    <3>3. calm' \in Nat /\ calm' <= CalmMax /\ (calm' # 0 => calm' = calm /\ hs = Listeners \ {h})
      BY <3>1 DEF Reaches, Fault, ElectionBase, ElectionTyped
    <3>4. /\ competitor' \in [Hosts -> Nat] /\ age' \in [Hosts -> 0..(Timeout + 1)]
          /\ \A k \in hs : /\ competitor'[k] # None
                           /\ comp[k] # None => competitor'[k] <= comp[k]
          /\ \A k \in Hosts \ hs : competitor'[k] = comp[k]
      BY <1>2, <3>1, <3>2, Announced DEF ElectionBase
    <3>5. ASSUME NEW k \in Hosts, competitor[k] # None, k # h
          PROVE  competitor'[k] # None /\ competitor'[k] <= competitor[k]
      <4>1. comp[k] = competitor[k] /\ comp[k] \in Nat
        BY <1>2, <1>3, <3>5
      <4> QED BY <3>4, <3>5, <4>1
    <3> QED BY <3>1, <3>2, <3>3, <3>4, <3>5
  <2>2. CASE /\ ~(new = "Master" /\ announceDue[h]) /\ competitor' = comp
             /\ age' = [age EXCEPT ![h] = IF comp[h] = None THEN 0 ELSE @]
             /\ UNCHANGED calm
    <3>1. age' \in [Hosts -> 0..(Timeout + 1)] /\ calm \in Nat /\ calm <= CalmMax
      BY <2>2 DEF ElectionBase, ElectionTyped
    <3>2. ASSUME NEW k \in Hosts, competitor[k] # None, k # h
          PROVE  competitor'[k] # None /\ competitor'[k] <= competitor[k]
      <4>1. comp[k] = competitor[k] /\ comp[k] \in Nat
        BY <1>2, <1>3, <3>2
      <4> QED BY <2>2, <3>2, <4>1
    <3> QED BY <1>2, <2>2, <3>1, <3>2
  <2> QED BY <1>1, <2>1, <2>2
<1>5. ElectionTyped'
  <2>1. new \in {"Listening", "Master", "Passive"}
    BY Evaluated DEF new
  <2>2. role' \in [Hosts -> {"Listening", "Master", "Passive"}]
    BY <1>1, <2>1 DEF ElectionBase, ElectionTyped
  <2>3. upFor' \in [Hosts -> Nat]
    BY <1>1 DEF ElectionBase, ElectionTyped
  <2>4. announceDue' \in [Hosts -> BOOLEAN]
    BY <1>1 DEF ElectionBase, ElectionTyped
  <2>5. UNCHANGED <<rank, running, slaveActive, gmUp, gmDue, edgeDue, announcedLocked, timing>>
    BY <1>1 DEF gmVars
  <2> QED BY <1>4, <2>2, <2>3, <2>4, <2>5 DEF ElectionBase, ElectionTyped
<1>6. RolesFounded'
  <2>1. ASSUME NEW k \in Hosts \ SlaveOnly, role'[k] = "Passive" PROVE competitor'[k] # None
    <3>1. CASE k = h
      <4>1. new = "Passive"
        BY <1>1, <2>1, <3>1 DEF ElectionBase, ElectionTyped
      <4>2. comparedWith(h) = competitor[h] /\ competitor[h] # None
        BY <2>1, <3>1, <4>1, Evaluated DEF new, comparedWith
      <4> QED BY <1>3, <1>4, <3>1, <4>2
    <3>2. CASE k # h
      <4>1. competitor[k] # None
        BY <1>1, <2>1, <3>2 DEF ElectionBase, ElectionTyped, RolesFounded
      <4> QED BY <1>4, <3>2, <4>1
    <3> QED BY <3>1, <3>2
  <2>2. ASSUME NEW k \in Hosts, role'[k] = "Master" PROVE running'[k] /\ k \notin SlaveOnly
    <3>1. CASE k = h
      <4>1. new = "Master"
        BY <1>1, <2>2, <3>1 DEF ElectionBase, ElectionTyped
      <4> QED BY <1>1, <3>1, <4>1, Evaluated DEF new
    <3>2. CASE k # h
      BY <1>1, <2>2, <3>2 DEF ElectionBase, ElectionTyped, RolesFounded
    <3> QED BY <3>1, <3>2
  <2> QED BY <2>1, <2>2 DEF RolesFounded
<1>7. RefTypeOK' /\ (announcedLocked = locked)' /\ LockIsCurrent'
  BY <1>1 DEF ElectionBase, gmVars, refVars, RefTypeOK, LockIsCurrent
<1> QED BY <1>4, <1>5, <1>6, <1>7 DEF ElectionBase, new, comp

LEMMA FaultTyped ==
  ASSUME ElectionTyped, Fault
  PROVE  calm' = 0 /\ calm' \in Nat /\ calm' <= CalmMax
BY ElectionAssumption DEF Fault, ElectionTyped

LEMMA ControlKeeps ==
  ASSUME ElectionInv, NEW h \in Hosts, start(h) \/ stop(h) \/ slaveStartFails(h)
  PROVE  ElectionInv'
<1>1. ElectionBase /\ Fault /\ UNCHANGED <<rank, competitor, age, gmVars, timing>>
  BY DEF ElectionInv, start, stop, slaveStartFails, hostVars
<1> DEFINE roles == {"Listening", "Master", "Passive"}
<1>2. /\ running' \in [Hosts -> BOOLEAN] /\ announceDue' \in [Hosts -> BOOLEAN]
      /\ slaveActive' \in [Hosts -> BOOLEAN] /\ role' \in [Hosts -> roles]
      /\ upFor' \in [Hosts -> Nat]
  <2>1. /\ running \in [Hosts -> BOOLEAN] /\ announceDue \in [Hosts -> BOOLEAN]
        /\ slaveActive \in [Hosts -> BOOLEAN] /\ role \in [Hosts -> roles]
        /\ upFor \in [Hosts -> Nat]
    BY <1>1 DEF ElectionBase, ElectionTyped
  <2>2. CASE start(h)
    BY <2>1, <2>2 DEF start
  <2>3. CASE stop(h)
    BY <2>1, <2>3 DEF stop
  <2>4. CASE slaveStartFails(h)
    BY <2>1, <2>4 DEF slaveStartFails, hostVars
  <2> QED BY <2>2, <2>3, <2>4
<1>3. ElectionTyped'
  <2>1. UNCHANGED <<rank, competitor, age, gmUp, gmDue, edgeDue, announcedLocked, timing>>
    BY <1>1 DEF gmVars
  <2> QED BY <1>1, <1>2, <2>1, FaultTyped DEF ElectionBase, ElectionTyped
<1>4. RolesFounded'
  <2>1. \A k \in Hosts : \/ role'[k] = role[k] /\ running'[k] = running[k]
                         \/ role'[k] = "Listening"
    <3>1. CASE start(h)
      BY <3>1 DEF start, ElectionInv, ElectionBase, ElectionTyped
    <3>2. CASE stop(h)
      BY <3>2 DEF stop, ElectionInv, ElectionBase, ElectionTyped
    <3>3. CASE slaveStartFails(h)
      BY <3>3 DEF slaveStartFails, hostVars
    <3> QED BY <3>1, <3>2, <3>3
  <2> QED BY <1>1, <2>1 DEF ElectionBase, RolesFounded
<1>5. RefTypeOK' /\ (announcedLocked = locked)' /\ LockIsCurrent'
  BY <1>1 DEF ElectionBase, gmVars, refVars, RefTypeOK, LockIsCurrent
<1> QED BY <1>1, <1>3, <1>4, <1>5, FaultTyped, FaultForgives DEF ElectionBase

\* The class moves: roles taken on the old one stand until the host's next turn.
LEMMA ClassKeeps ==
  ASSUME ElectionInv, NEW h \in Hosts, clockClassMoves(h)
  PROVE  ElectionInv'
<1> USE ElectionAssumption
<1>1. /\ ElectionBase /\ Fault
      /\ UNCHANGED <<running, role, upFor, competitor, age, announceDue, slaveActive, gmUp, gmDue,
                     edgeDue, announcedLocked, locked, consecutive, haveLastEdge, idle, timing>>
  BY DEF ElectionInv, clockClassMoves, hostVars, gmVars, refVars
<1>2. /\ \A k \in Hosts : rank'[k] \in Ranks[k]
      /\ rank' \in [Hosts -> Nat \ {0}]
  <2>1. PICK r \in Ranks[h] : rank' = [rank EXCEPT ![h] = r]
    BY DEF clockClassMoves
  <2>2. r \in Nat \ {0}
    OBVIOUS
  <2> QED BY <1>1, <2>1, <2>2 DEF ElectionBase, ElectionTyped
<1>3. ElectionTyped'
  BY <1>1, <1>2, FaultTyped DEF ElectionBase, ElectionTyped
<1>4. RolesFounded' /\ RefTypeOK' /\ (announcedLocked = locked)' /\ LockIsCurrent'
  BY <1>1 DEF ElectionBase, RolesFounded, RefTypeOK, LockIsCurrent
<1> QED BY <1>1, <1>3, <1>4, FaultTyped, FaultForgives DEF ElectionBase

LEMMA GmControlKeeps == ElectionInv /\ (gmStart \/ gmStop) => ElectionInv'
<1> SUFFICES ASSUME ElectionInv, gmStart \/ gmStop PROVE ElectionInv'
  OBVIOUS
<1> USE ReferenceAssumption
<1>1. /\ ElectionBase /\ Fault /\ restarted
      /\ announcedLocked' = FALSE
      /\ UNCHANGED <<rank, running, role, upFor, competitor, age, announceDue, slaveActive, timing>>
  BY DEF ElectionInv, gmStart, gmStop, hostVars, freeDataset
<1>2. gmUp' \in BOOLEAN /\ gmDue' \in BOOLEAN /\ edgeDue' \in BOOLEAN
  BY Zenon DEF gmStart, gmStop
<1>3. ElectionTyped'
  BY <1>1, <1>2, FaultTyped DEF ElectionBase, ElectionTyped
<1>4. RolesFounded'
  BY <1>1 DEF ElectionBase, RolesFounded
<1>5. RefTypeOK' /\ (announcedLocked = locked)' /\ LockIsCurrent'
  <2>1. 0 \in 0..LockEdges /\ 0 \in 0..(Holdover + 1)
    OBVIOUS
  <2> QED BY <1>1, <2>1, Zenon DEF restarted, RefTypeOK, LockIsCurrent
<1> QED BY <1>1, <1>3, <1>4, <1>5, FaultTyped, FaultForgives DEF ElectionBase

\* One call of service(), with or without an edge.
LEMMA Serviced ==
  ASSUME RefTypeOK, serviceNoEdge \/ \E e \in EdgeKinds : serviceEdge(e)
  PROVE  RefTypeOK' /\ (idle' > Holdover => ~locked')
<1> USE ReferenceAssumption
<1>1. CASE serviceNoEdge
  <2>1. consecutive' \in 0..LockEdges /\ idle' \in 0..(Holdover + 1) /\ idle' = idle
    BY <1>1 DEF serviceNoEdge, RefTypeOK
  <2>2. locked' \in BOOLEAN /\ haveLastEdge' \in BOOLEAN /\ (idle > Holdover => ~locked')
    BY <1>1 DEF serviceNoEdge, holdoverExpired
  <2> QED BY <2>1, <2>2 DEF RefTypeOK
<1>2. ASSUME NEW e \in EdgeKinds, serviceEdge(e)
      PROVE  RefTypeOK' /\ (idle' > Holdover => ~locked')
  <2>1. idle' = 0 /\ 0 \in 0..(Holdover + 1) /\ ~(0 > Holdover)
    BY <1>2 DEF serviceEdge
  <2>2. consecutive' \in 0..LockEdges
    BY <1>2 DEF serviceEdge, RefTypeOK
  <2>3. locked' \in BOOLEAN /\ haveLastEdge' \in BOOLEAN
    <3>1. \/ locked' = (locked /\ ~holdoverExpired)
          \/ locked' = (consecutive' >= LockEdges)
      BY <1>2, Zenon DEF serviceEdge
    <3>2. haveLastEdge' = (e # "notCredible")
      BY <1>2 DEF serviceEdge
    <3>3. locked' \in BOOLEAN
      <4>1. CASE locked' = (locked /\ ~holdoverExpired)
        BY <4>1, Zenon
      <4>2. CASE locked' = (consecutive' >= LockEdges)
        BY <2>2, <4>2, SMT
      <4> QED BY <3>1, <4>1, <4>2
    <3>4. haveLastEdge' \in BOOLEAN
      BY <3>2, Zenon
    <3> QED BY <3>3, <3>4
  <2> QED BY <2>1, <2>2, <2>3 DEF RefTypeOK
<1> QED BY <1>1, <1>2

LEMMA GmTurnKeepsBase ==
  ASSUME ElectionBase, gmTurn
  PROVE  /\ ElectionBase'
         /\ calm' # 0 => calm' = calm
         /\ calm' # 0 /\ gmDue => handleForeignAnnounce(Listeners, gmRank, competitor)
<1> USE ElectionAssumption
<1>1. /\ gmUp /\ gmDue' = FALSE /\ announcedLocked' = locked'
      /\ UNCHANGED <<rank, running, role, upFor, announceDue, slaveActive, gmUp, timing>>
      /\ serviceNoEdge \/ \E e \in EdgeKinds : serviceEdge(e)
      /\ edgeDue' = edgeDue \/ edgeDue' = FALSE
  BY DEF gmTurn, followTheReference
<1>2. RefTypeOK' /\ (idle' > Holdover => ~locked')
  BY <1>1, Serviced DEF ElectionBase
<1>3. /\ competitor' \in [Hosts -> Nat] /\ age' \in [Hosts -> 0..(Timeout + 1)]
      /\ calm' \in Nat /\ calm' <= CalmMax /\ (calm' # 0 => calm' = calm)
      /\ \A k \in Hosts : competitor[k] # None =>
           competitor'[k] # None /\ competitor'[k] <= competitor[k]
      /\ calm' # 0 /\ gmDue => handleForeignAnnounce(Listeners, gmRank, competitor)
  <2>1. competitor \in [Hosts -> Nat] /\ gmRank \in Nat \ {0}
    BY DEF ElectionBase, ElectionTyped, gmRank
  <2>2. CASE gmDue
    <3>1. PICK hs \in SUBSET Listeners :
            Reaches(Listeners, hs) /\ handleForeignAnnounce(hs, gmRank, competitor)
      BY <2>2 DEF gmTurn, gmSendAnnounce
    <3>2. hs \in SUBSET Hosts
      BY DEF Listeners
    <3>3. calm' \in Nat /\ calm' <= CalmMax /\ (calm' # 0 => calm' = calm /\ hs = Listeners)
      BY <3>1 DEF Reaches, Fault, ElectionBase, ElectionTyped
    <3>4. /\ competitor' \in [Hosts -> Nat] /\ age' \in [Hosts -> 0..(Timeout + 1)]
          /\ \A k \in hs : /\ competitor'[k] # None
                           /\ competitor[k] # None => competitor'[k] <= competitor[k]
          /\ \A k \in Hosts \ hs : competitor'[k] = competitor[k]
      BY <2>1, <3>1, <3>2, Announced DEF ElectionBase
    <3>5. ASSUME NEW k \in Hosts, competitor[k] # None
          PROVE  competitor'[k] # None /\ competitor'[k] <= competitor[k]
      <4>1. competitor[k] \in Nat
        BY <2>1
      <4> QED BY <3>4, <3>5, <4>1
    <3> QED BY <3>1, <3>3, <3>4, <3>5
  <2>3. CASE ~gmDue
    <3>1. UNCHANGED <<competitor, age, calm>>
      BY <2>3 DEF gmTurn
    <3>2. \A k \in Hosts : competitor[k] \in Nat
      BY <2>1
    <3> QED BY <2>3, <3>1, <3>2 DEF ElectionBase, ElectionTyped
  <2> QED BY <2>2, <2>3
<1>4. ElectionTyped'
  <2>1. announcedLocked' \in BOOLEAN
    BY <1>1, <1>2 DEF RefTypeOK
  <2>2. edgeDue' \in BOOLEAN /\ gmDue' \in BOOLEAN
    BY <1>1 DEF ElectionBase, ElectionTyped
  <2> QED BY <1>1, <1>3, <2>1, <2>2 DEF ElectionBase, ElectionTyped
<1>5. RolesFounded'
  <2>1. ASSUME NEW k \in Hosts \ SlaveOnly, role'[k] = "Passive" PROVE competitor'[k] # None
    <3>1. competitor[k] # None
      BY <1>1, <2>1 DEF ElectionBase, RolesFounded
    <3> QED BY <1>3, <3>1
  <2>2. \A k \in Hosts : role'[k] = "Master" => running'[k] /\ k \notin SlaveOnly
    BY <1>1 DEF ElectionBase, RolesFounded
  <2> QED BY <2>1, <2>2 DEF RolesFounded
<1>6. LockIsCurrent'
  BY <1>1, <1>2 DEF LockIsCurrent
<1> QED BY <1>1, <1>2, <1>3, <1>4, <1>5, <1>6 DEF ElectionBase

LEMMA Numbers ==
  ASSUME ElectionBase
  PROVE  \A k \in Hosts : /\ competitor[k] \in Nat /\ age[k] \in Nat /\ upFor[k] \in Nat
                          /\ rank[k] \in Nat
BY ElectionAssumption DEF ElectionBase, ElectionTyped

LEMMA NumbersStill ==
  ASSUME ElectionBase'
  PROVE  \A k \in Hosts : competitor'[k] \in Nat
BY DEF ElectionBase, ElectionTyped

LEMMA LeadersEligible ==
  ASSUME ElectionBase
  PROVE  Masters = {h \in Eligible : role[h] = "Master"}
BY DEF ElectionBase, RolesFounded, Masters, Eligible, Listeners

LEMMA LeadersStillEligible ==
  ASSUME ElectionBase'
  PROVE  Masters' = {h \in Eligible' : role'[h] = "Master"}
BY DEF ElectionBase, RolesFounded, Masters, Eligible, Listeners

\* While somebody speaks in every period, nobody forgets whom he has heard.
LEMMA LiveTurn ==
  ASSUME ElectionBase, Live, NEW m \in Eligible
  PROVE  /\ beaten(m) => evaluateBMCA(m) = "Passive" /\ kept(m) = competitor[m]
         /\ ~beaten(m) => evaluateBMCA(m) = "Master"
         /\ m \notin Firm => kept(m) = competitor[m]
<1> USE ElectionAssumption
<1>1. m \in Hosts /\ m \notin SlaveOnly /\ Timeout \in Nat \ {0} /\ age[m] \in Nat
  BY DEF Eligible, Listeners, ElectionBase, ElectionTyped
<1>2. m \notin Firm => competitor[m] # None /\ ~(age[m] > Timeout)
  BY <1>1 DEF Live, Heard
<1>3. m \notin Firm => kept(m) = competitor[m]
  BY <1>2 DEF kept, expired
<1>4. ASSUME beaten(m) PROVE evaluateBMCA(m) = "Passive" /\ kept(m) = competitor[m]
  <2>1. m \notin Firm
    BY <1>4 DEF Firm
  <2> QED BY <1>1, <1>3, <1>4, <2>1 DEF evaluateBMCA, beaten, isBetterMaster
<1>5. ASSUME ~beaten(m) PROVE evaluateBMCA(m) = "Master"
  <2>1. CASE m \in Firm
    <3>1. role[m] = "Master" /\ (kept(m) = None \/ kept(m) = competitor[m])
      BY <2>1 DEF Firm, kept
    <3> QED BY <1>1, <1>5, <3>1 DEF evaluateBMCA, beaten, isBetterMaster
  <2>2. CASE m \notin Firm
    BY <1>1, <1>2, <1>3, <1>5, <2>2 DEF evaluateBMCA, beaten, isBetterMaster
  <2> QED BY <2>1, <2>2
<1> QED BY <1>3, <1>4, <1>5

\* Nothing that the election goes by has changed.
LEMMA SameView ==
  ASSUME ElectionInv, ElectionBase', UNCHANGED <<rank, running, gmUp, gmDue, calm, timing>>,
         \A k \in Eligible : /\ role'[k] = role[k] /\ competitor'[k] = competitor[k]
                             /\ age'[k] = age[k] /\ upFor'[k] = upFor[k]
                             /\ announceDue'[k] = announceDue[k]
  PROVE  ElectionInv'
<1>1. Eligible' = Eligible
  BY DEF Eligible, Listeners
<1>2. Firm' = Firm
  BY <1>1 DEF Firm, beaten
<1>3. Masters' = Masters
  BY <1>1, LeadersEligible, LeadersStillEligible DEF ElectionInv
<1>4. StillToSpeak' = StillToSpeak
  BY <1>2 DEF StillToSpeak, Firm
<1>5. Live' = Live
  BY <1>1, <1>2, <1>4 DEF Live, Heard
<1>6. Unheard' = Unheard
  BY <1>1 DEF Unheard, Waited, Waits
<1>7. LiveInTime' /\ TimingHeld' /\ OneSpeaks'
  BY <1>1, <1>3, <1>5, <1>6 DEF ElectionInv, Settling, LiveInTime, TimingHeld, OneSpeaks
<1>8. AllSpeak'
  BY <1>1, <1>5 DEF ElectionInv, Settling, AllSpeak, Spoken, KnownTo
<1>9. Decided'
  <2>1. \A k \in Masters : StepsDown(k)' = StepsDown(k)
    BY <1>2, LeadersEligible DEF ElectionInv, StepsDown
  <2> QED BY <1>1, <1>2, <1>3, <1>5, <2>1 DEF ElectionInv, Settling, Decided, OneFirm
<1>10. Outranked'
  BY <1>1 DEF ElectionInv, Settling, Outranked, beaten
<1> QED BY <1>7, <1>8, <1>9, <1>10 DEF ElectionInv, Settling

\* A host announces itself, and all others hear it.
LEMMA HostSpeaks ==
  ASSUME ElectionInv, ElectionBase', NEW m \in Eligible, evaluateBMCA(m) = "Master",
         calm \in Nat \ {0}, UNCHANGED <<rank, running, gmUp, gmDue, calm, timing>>,
         role' = [role EXCEPT ![m] = "Master"],
         announceDue' = [announceDue EXCEPT ![m] = FALSE],
         competitor'[m] = None \/ ~(competitor'[m] < rank[m]),
         \A k \in Listeners \ {m} :
           /\ competitor'[k] # None /\ competitor'[k] <= rank[m] /\ age'[k] = 0
           /\ competitor[k] # None => competitor'[k] <= competitor[k]
  PROVE  ElectionInv'
<1> USE ElectionAssumption
<1>1. /\ Eligible' = Eligible /\ Eligible \subseteq Listeners /\ Eligible \subseteq Hosts
      /\ Timeout \in Nat \ {0}
  BY DEF Eligible, Listeners
<1>2. /\ role'[m] = "Master" /\ ~announceDue'[m]
      /\ \A k \in Hosts : k # m => role'[k] = role[k] /\ announceDue'[k] = announceDue[k]
  BY <1>1 DEF ElectionInv, ElectionBase, ElectionTyped
<1>3. /\ \A k \in Hosts : /\ competitor[k] \in Nat /\ competitor'[k] \in Nat
                          /\ rank[k] \in Nat /\ age[k] \in Nat
      /\ \A k \in Eligible : upFor[k] \in Nat
      /\ \A k, j \in Hosts : rank[k] = rank[j] => k = j
  BY <1>1, Numbers, NumbersStill DEF ElectionInv, ElectionBase, ElectionTyped
<1>4. \A k \in Eligible \ {m} : beaten(k) => beaten(k)'
  BY <1>1, <1>3 DEF beaten
<1>5. m \in Firm' /\ Firm' \subseteq Firm \cup {m}
  BY <1>1, <1>2, <1>4 DEF Firm, beaten
<1>6. Live'
  BY <1>1, <1>5 DEF Live, Heard
<1>7. ASSUME Live PROVE ~beaten(m)
  BY <1>7, LiveTurn DEF ElectionInv
<1>8. ASSUME ~Live, NEW k \in Eligible
      PROVE  /\ role[k] = "Master" => calm = 1 /\ announceDue[k]
             /\ role[k] = "Listening" => calm <= Timeout /\ (upFor[k] >= calm \/ upFor[k] >= Timeout)
             /\ announceDue[k] \/ Waits(k)
             /\ calm <= Timeout + 1
  BY <1>8 DEF ElectionInv, Settling, LiveInTime, Unheard, Waited
<1>9. AllSpeak'
  <2>1. SUFFICES ASSUME calm >= Timeout, NEW k \in Eligible, ~announceDue'[k] PROVE Spoken(k)'
    BY <1>1 DEF AllSpeak
  <2>2. CASE k = m
    <3>1. \A j \in Eligible : rank[m] < rank[j] => competitor'[j] # None /\ competitor'[j] <= rank[m]
      BY <1>1, <1>3
    <3> QED BY <1>1, <1>2, <2>2, <3>1 DEF Spoken, KnownTo
  <2>3. CASE k # m /\ Live
    <3>1. Spoken(k) /\ role'[k] = role[k]
      BY <1>1, <1>2, <2>1, <2>3 DEF ElectionInv, Settling, AllSpeak
    <3>2. ASSUME role[k] = "Master", NEW j \in Eligible, rank[k] < rank[j]
          PROVE  competitor'[j] # None /\ competitor'[j] <= rank[k]
      <4>1. competitor[j] # None /\ competitor[j] <= rank[k]
        BY <3>1, <3>2 DEF Spoken, KnownTo
      <4>2. j # m
        BY <1>1, <1>3, <1>7, <2>3, <3>2, <4>1 DEF beaten
      <4> QED BY <1>1, <1>3, <4>1, <4>2
    <3> QED BY <1>1, <3>1, <3>2 DEF Spoken, KnownTo
  <2>4. CASE k # m /\ ~Live
    <3>1. role'[k] = role[k] /\ Waits(k)
      BY <1>1, <1>2, <1>8, <2>1, <2>4
    <3>2. role[k] = "Passive"
      BY <1>3, <1>8, <2>1, <2>4, <3>1 DEF Waits
    <3> QED BY <3>1, <3>2 DEF Spoken
  <2> QED BY <2>2, <2>3, <2>4
<1>10. ASSUME Live, OneFirm, calm >= Timeout + 1
       PROVE  m \in Firm /\ Firm' \subseteq Firm /\ Masters' = Masters
  <2>1. role[m] = "Master"
    <3>1. role[m] # "Passive"
      BY <1>1, <1>7, <1>10 DEF ElectionInv, Settling, Outranked
    <3> QED BY <1>1, <1>10, <3>1 DEF OneFirm, ElectionInv, ElectionBase, ElectionTyped
  <2>2. m \in Firm
    BY <1>7, <1>10, <2>1 DEF Firm
  <2>3. Masters' = Masters
    BY <1>1, <1>2, <2>1, LeadersEligible, LeadersStillEligible DEF ElectionInv
  <2> QED BY <1>5, <2>2, <2>3
<1>11. Decided'
  <2>1. SUFFICES ASSUME calm >= Timeout + 1 PROVE OneFirm'
    BY <1>1 DEF Decided
  <2>2. CASE Live
    <3>1. OneFirm
      BY <2>1, <2>2 DEF ElectionInv, Settling, Decided
    <3>2. \A k \in Eligible : role'[k] # "Listening"
      BY <1>1, <1>2, <3>1 DEF OneFirm
    <3>3. \A k \in Eligible : StepsDown(k) => StepsDown(k)'
      BY <1>1, <1>2, <1>10, <2>1, <2>2, <3>1 DEF StepsDown
    <3>4. Masters \subseteq Eligible
      BY LeadersEligible DEF ElectionInv
    <3> QED BY <1>1, <1>10, <2>1, <2>2, <3>1, <3>2, <3>3, <3>4 DEF OneFirm
  <2>3. CASE ~Live
    <3>1. \A k \in Eligible : role[k] # "Master" /\ role[k] # "Listening"
      BY <1>1, <1>8, <2>1, <2>3
    <3>2. \A k \in Eligible : k # m => role'[k] # "Master" /\ role'[k] # "Listening"
      BY <1>1, <1>2, <3>1
    <3>3. Masters' \subseteq {m} /\ Firm' \subseteq {m}
      BY <1>1, <3>2, LeadersStillEligible DEF Firm
    <3> QED BY <1>1, <1>2, <3>2, <3>3 DEF OneFirm
  <2> QED BY <2>2, <2>3
<1>12. OneSpeaks'
  <2>1. SUFFICES ASSUME calm >= Timeout + 2 PROVE (\A k, j \in Masters \cup timing : k = j)'
    BY DEF OneSpeaks, SettleTime
  <2>2. Live
    BY <1>1, <1>8, <2>1
  <2>3. OneFirm
    BY <1>1, <2>1, <2>2 DEF ElectionInv, Settling, Decided
  <2> QED BY <1>10, <2>1, <2>2, <2>3 DEF ElectionInv, Settling, OneSpeaks, SettleTime
<1>13. Outranked'
  <2>1. SUFFICES ASSUME NEW k \in Eligible, role'[k] = "Passive"
                 PROVE  beaten(k)' \/ (calm = 1 /\ announceDue'[k])
    BY <1>1 DEF Outranked
  <2>2. k # m /\ k \in Hosts
    BY <1>1, <1>2, <2>1
  <2>3. beaten(k) \/ (calm = 1 /\ announceDue[k])
    BY <1>2, <2>1, <2>2 DEF ElectionInv, Settling, Outranked
  <2> QED BY <1>2, <1>4, <2>2, <2>3
<1> QED BY <1>1, <1>6, <1>9, <1>11, <1>12, <1>13
        DEF ElectionInv, Settling, LiveInTime, TimingHeld

\* The Linux grandmaster announces itself, and all hosts hear it.
LEMMA GmSpeaks ==
  ASSUME ElectionInv, ElectionBase', gmUp, gmDue,
         calm \in Nat \ {0}, UNCHANGED <<rank, running, role, announceDue, gmUp, calm, timing>>,
         \A k \in Listeners :
           /\ competitor'[k] # None /\ age'[k] = 0
           /\ competitor[k] # None => competitor'[k] <= competitor[k]
  PROVE  ElectionInv'
<1> USE ElectionAssumption
<1>1. /\ Eligible' = Eligible /\ Eligible \subseteq Listeners /\ Eligible \subseteq Hosts
      /\ Timeout \in Nat \ {0}
  BY DEF Eligible, Listeners
<1>2. \A k \in Hosts : /\ competitor[k] \in Nat /\ competitor'[k] \in Nat
                       /\ rank[k] \in Nat /\ upFor[k] \in Nat
  BY <1>1, Numbers, NumbersStill DEF ElectionInv
<1>3. Firm' \subseteq Firm
  BY <1>1, <1>2 DEF Firm, beaten
<1>4. Masters' = Masters /\ Masters \subseteq Eligible
  BY <1>1, LeadersEligible, LeadersStillEligible DEF ElectionInv
<1>5. Live'
  BY <1>1 DEF Live, Heard
<1>6. ASSUME ~Live
      PROVE  /\ calm = 1
             /\ \A k \in Eligible : /\ role[k] = "Listening" => upFor[k] >= calm \/ upFor[k] >= Timeout
                                    /\ announceDue[k] \/ Waits(k)
  BY <1>6 DEF ElectionInv, Settling, LiveInTime, Unheard, Waited
<1>7. AllSpeak'
  <2>1. SUFFICES ASSUME calm >= Timeout, NEW k \in Eligible, ~announceDue[k] PROVE Spoken(k)'
    BY <1>1 DEF AllSpeak
  <2>2. CASE Live
    <3>1. Spoken(k)
      BY <1>1, <2>1, <2>2 DEF ElectionInv, Settling, AllSpeak
    <3>2. ASSUME role[k] = "Master", NEW j \in Eligible, rank[k] < rank[j]
          PROVE  competitor'[j] # None /\ competitor'[j] <= rank[k]
      <4>1. competitor[j] # None /\ competitor[j] <= rank[k]
        BY <3>1, <3>2 DEF Spoken, KnownTo
      <4> QED BY <1>1, <1>2, <4>1
    <3> QED BY <1>1, <3>1, <3>2 DEF Spoken, KnownTo
  <2>3. CASE ~Live
    <3>1. role[k] = "Passive"
      BY <1>1, <1>2, <1>6, <2>1, <2>3 DEF Waits
    <3> QED BY <3>1 DEF Spoken
  <2> QED BY <2>2, <2>3
<1>8. Decided'
  <2>1. SUFFICES ASSUME calm >= Timeout + 1 PROVE OneFirm'
    BY <1>1 DEF Decided
  <2>2. Live
    BY <1>1, <1>6, <2>1
  <2>3. OneFirm
    BY <2>1, <2>2 DEF ElectionInv, Settling, Decided
  <2>4. \A k \in Masters : StepsDown(k) => StepsDown(k)'
    BY <1>3, <1>4 DEF StepsDown
  <2> QED BY <1>1, <1>3, <1>4, <2>3, <2>4 DEF OneFirm
<1>9. Outranked'
  <2>1. \A k \in Eligible : beaten(k) => beaten(k)'
    BY <1>1, <1>2 DEF beaten
  <2> QED BY <1>1, <2>1 DEF ElectionInv, Settling, Outranked
<1> QED BY <1>1, <1>4, <1>5, <1>7, <1>8, <1>9
        DEF ElectionInv, Settling, LiveInTime, TimingHeld, OneSpeaks

\* A host has its turn and says nothing.
LEMMA SilentTurn ==
  ASSUME ElectionInv, ElectionBase', NEW m \in Eligible,
         ~(announceDue[m] /\ evaluateBMCA(m) = "Master"),
         calm \in Nat \ {0}, UNCHANGED <<rank, running, gmUp, gmDue, calm, timing>>,
         role' = [role EXCEPT ![m] = evaluateBMCA(m)],
         announceDue' = [announceDue EXCEPT ![m] = FALSE],
         upFor' = [upFor EXCEPT ![m] = IF evaluateBMCA(m) = "Listening" THEN @ ELSE 0],
         competitor' = [competitor EXCEPT ![m] = kept(m)],
         age' = [age EXCEPT ![m] = IF kept(m) = None THEN 0 ELSE @]
  PROVE  ElectionInv'
<1> USE ElectionAssumption
<1>1. /\ Eligible' = Eligible /\ Eligible \subseteq Listeners /\ Eligible \subseteq Hosts
      /\ Timeout \in Nat \ {0} /\ m \in Hosts /\ m \notin SlaveOnly
  BY DEF Eligible, Listeners
<1>2. /\ role'[m] = evaluateBMCA(m) /\ ~announceDue'[m]
      /\ competitor'[m] = kept(m) /\ (kept(m) # None => age'[m] = age[m])
      /\ evaluateBMCA(m) = "Listening" => upFor'[m] = upFor[m]
      /\ \A k \in Hosts : k # m => /\ role'[k] = role[k] /\ announceDue'[k] = announceDue[k]
                                   /\ competitor'[k] = competitor[k] /\ age'[k] = age[k]
                                   /\ upFor'[k] = upFor[k]
  BY <1>1 DEF ElectionInv, ElectionBase, ElectionTyped
<1>3. \A k \in Hosts : /\ competitor[k] \in Nat /\ age[k] \in Nat
                       /\ rank[k] \in Nat /\ upFor[k] \in Nat
  BY Numbers DEF ElectionInv
<1>7. Outranked'
  <2>1. SUFFICES ASSUME NEW k \in Eligible, role'[k] = "Passive"
                 PROVE  beaten(k)' \/ (calm = 1 /\ announceDue'[k])
    BY <1>1 DEF Outranked
  <2>2. CASE k = m
    <3>1. evaluateBMCA(m) = "Passive"
      BY <1>2, <2>1, <2>2
    <3>2. kept(m) = competitor[m] /\ competitor[m] # None /\ competitor[m] < rank[m]
      BY <1>1, <3>1, Evaluated DEF ElectionInv
    <3> QED BY <1>2, <2>2, <3>2 DEF beaten
  <2>3. CASE k # m
    <3>1. beaten(k) \/ (calm = 1 /\ announceDue[k])
      BY <1>1, <1>2, <2>1, <2>3 DEF ElectionInv, Settling, Outranked
    <3> QED BY <1>1, <1>2, <2>1, <2>3, <3>1 DEF beaten
  <2> QED BY <2>2, <2>3
<1>4. CASE Live /\ beaten(m)
  <2>1. evaluateBMCA(m) = "Passive" /\ kept(m) = competitor[m] /\ competitor[m] # None
    BY <1>4, LiveTurn DEF ElectionInv, beaten
  <2>2. /\ \A k \in Eligible : competitor'[k] = competitor[k] /\ age'[k] = age[k]
        /\ role'[m] = "Passive"
    BY <1>1, <1>2, <2>1
  <2>3. Firm' = Firm /\ m \notin Firm
    BY <1>1, <1>2, <1>4, <2>2 DEF Firm, beaten
  <2>4. StillToSpeak' = StillToSpeak
    BY <1>1, <1>2, <2>3 DEF StillToSpeak, Firm
  <2>5. Live'
    BY <1>1, <1>4, <2>2, <2>3, <2>4 DEF Live, Heard
  <2>6. Masters' = Masters \ {m} /\ Masters \subseteq Eligible
    BY <1>1, <1>2, <2>2, LeadersEligible, LeadersStillEligible DEF ElectionInv
  <2>7. AllSpeak'
    <3>1. Spoken(m)'
      BY <2>2 DEF Spoken
    <3>2. ASSUME NEW k \in Eligible, k # m, Spoken(k) PROVE Spoken(k)'
      BY <1>1, <1>2, <2>2, <3>2 DEF Spoken, KnownTo
    <3> QED BY <1>1, <1>2, <1>4, <3>1, <3>2 DEF ElectionInv, Settling, AllSpeak
  <2>8. Decided'
    <3>1. \A k \in Masters \ {m} : StepsDown(k) => StepsDown(k)'
      BY <1>1, <1>2, <2>3, <2>6 DEF StepsDown
    <3>2. OneFirm => OneFirm'
      BY <1>1, <1>2, <2>2, <2>3, <2>6, <3>1 DEF OneFirm
    <3> QED BY <1>4, <3>2 DEF ElectionInv, Settling, Decided
  <2> QED BY <1>1, <1>7, <2>5, <2>6, <2>7, <2>8
          DEF ElectionInv, Settling, LiveInTime, TimingHeld, OneSpeaks
<1>5. CASE Live /\ ~beaten(m)
  <2>0. evaluateBMCA(m) = "Master" /\ ~announceDue[m]
    BY <1>5, LiveTurn DEF ElectionInv
  <2>1. /\ evaluateBMCA(m) = "Master" /\ ~announceDue[m] /\ role[m] # "Passive"
        /\ kept(m) = None \/ kept(m) = competitor[m]
        /\ m \notin Firm => kept(m) = competitor[m]
    BY <1>5, <2>0, LiveTurn DEF ElectionInv, Settling, Outranked, kept
  <2>2. \A k \in Eligible : announceDue'[k] = announceDue[k]
    <3>1. announceDue[m] = FALSE /\ announceDue'[m] = FALSE
      BY <1>1, <2>1 DEF ElectionInv, ElectionBase, ElectionTyped
    <3> QED BY <1>1, <1>2, <3>1
  <2>3. Firm' = Firm \cup {m}
    BY <1>1, <1>2, <1>5, <2>1 DEF Firm, beaten
  <2>4. Live'
    <3>1. StillToSpeak => StillToSpeak'
      BY <1>1, <2>2, <2>3 DEF StillToSpeak, Firm
    <3> QED BY <1>1, <1>2, <1>5, <2>3, <3>1 DEF Live, Heard
  <2>5. ASSUME role[m] # "Listening" PROVE Firm' = Firm /\ Masters' = Masters
    <3>1. role[m] = "Master"
      BY <1>1, <2>1, <2>5 DEF ElectionInv, ElectionBase, ElectionTyped
    <3>2. m \in Firm
      BY <1>5, <3>1 DEF Firm
    <3>3. \A k \in Eligible : role'[k] = role[k]
      BY <1>1, <1>2, <2>1, <3>1
    <3>4. Masters' = Masters
      BY <1>1, <3>3, LeadersEligible, LeadersStillEligible DEF ElectionInv
    <3> QED BY <2>3, <3>2, <3>4
  <2>6. AllSpeak'
    <3>1. SUFFICES ASSUME calm >= Timeout, NEW k \in Eligible, ~announceDue[k]
                   PROVE  Spoken(k)'
      BY <1>1, <2>2 DEF AllSpeak
    <3>2. Spoken(k) /\ Spoken(m)
      BY <1>5, <2>1, <3>1 DEF ElectionInv, Settling, AllSpeak
    <3>3. role'[k] = role[k]
      BY <1>1, <1>2, <2>1, <3>2 DEF Spoken, ElectionInv, ElectionBase, ElectionTyped
    <3>4. ASSUME role[k] = "Master", NEW j \in Eligible, rank[k] < rank[j]
          PROVE  competitor'[j] # None /\ competitor'[j] <= rank[k]
      <4>1. competitor[j] # None /\ competitor[j] <= rank[k]
        BY <3>2, <3>4 DEF Spoken, KnownTo
      <4>2. j # m
        BY <1>1, <1>3, <1>5, <3>4, <4>1 DEF beaten
      <4> QED BY <1>1, <1>2, <4>1, <4>2
    <3> QED BY <1>1, <3>2, <3>3, <3>4 DEF Spoken, KnownTo
  <2>7. Decided'
    <3>1. SUFFICES ASSUME calm >= Timeout + 1 PROVE OneFirm'
      BY DEF Decided
    <3>2. OneFirm
      BY <1>5, <3>1 DEF ElectionInv, Settling, Decided
    <3>3. Firm' = Firm /\ Masters' = Masters /\ Masters \subseteq Eligible
      BY <2>5, <3>2, LeadersEligible DEF OneFirm, ElectionInv
    <3>4. \A k \in Masters : StepsDown(k)' = StepsDown(k)
      BY <2>2, <3>3 DEF StepsDown
    <3>5. \A k \in Eligible : role'[k] # "Listening"
      BY <1>1, <1>2, <2>1, <3>2 DEF OneFirm
    <3> QED BY <1>1, <3>2, <3>3, <3>4, <3>5 DEF OneFirm
  <2>8. OneSpeaks'
    <3>1. SUFFICES ASSUME calm >= Timeout + 2 PROVE (\A k, j \in Masters \cup timing : k = j)'
      BY DEF OneSpeaks, SettleTime
    <3>2. OneFirm
      BY <1>1, <1>5, <3>1 DEF ElectionInv, Settling, Decided
    <3>3. Masters' = Masters
      BY <2>5, <3>2 DEF OneFirm
    <3> QED BY <3>1, <3>3 DEF ElectionInv, Settling, OneSpeaks, SettleTime
  <2> QED BY <1>1, <1>7, <2>4, <2>6, <2>7, <2>8
          DEF ElectionInv, Settling, LiveInTime, TimingHeld
<1>6. CASE ~Live
  <2>1. /\ Unheard /\ calm <= Timeout + 1 /\ Waited(m)
    BY <1>6 DEF ElectionInv, Settling, LiveInTime, Unheard
  <2>2. announceDue[m] \/ Waits(m)
    BY <2>1 DEF Waited
  <2>3. evaluateBMCA(m) # "Master"
    <3>1. CASE announceDue[m]
      BY <3>1
    <3>2. CASE role[m] = "Passive" /\ age[m] <= Timeout /\ ~announceDue[m]
      <4>1. beaten(m)
        BY <3>2 DEF ElectionInv, Settling, Outranked
      <4>2. kept(m) = competitor[m]
        BY <1>1, <1>3, <3>2 DEF kept, expired
      <4> QED BY <1>1, <4>1, <4>2 DEF evaluateBMCA, beaten, isBetterMaster
    <3>3. CASE role[m] = "Listening" /\ upFor[m] < Timeout /\ competitor[m] = None
      <4>1. kept(m) = None
        BY <3>3 DEF kept, expired
      <4> QED BY <1>1, <3>3, <4>1 DEF evaluateBMCA
    <3> QED BY <2>2, <3>1, <3>2, <3>3 DEF Waits
  <2>4. \/ evaluateBMCA(m) = "Passive" /\ kept(m) = competitor[m] /\ beaten(m)
        \/ /\ evaluateBMCA(m) = "Listening" /\ role[m] = "Listening" /\ kept(m) = None
           /\ upFor[m] < Timeout
    BY <1>1, <2>3, Evaluated DEF ElectionInv, beaten
  <2>5. Firm' = Firm /\ m \notin Firm
    BY <1>1, <1>2, <2>4 DEF Firm, beaten
  <2>6. StillToSpeak' = StillToSpeak
    BY <1>1, <1>2, <2>5 DEF StillToSpeak, Firm
  <2>7. ~Live'
    <3>1. SUFFICES ASSUME Live' PROVE Live
      BY <1>6
    <3>2. Heard(m)' => Heard(m)
      BY <1>2, <2>4, <2>6 DEF Heard
    <3>3. \A k \in Eligible : k # m /\ Heard(k)' => Heard(k)
      BY <1>1, <1>2, <2>6 DEF Heard
    <3> QED BY <1>1, <2>5, <3>1, <3>2, <3>3 DEF Live
  <2>8. Waited(m)'
    <3>1. CASE evaluateBMCA(m) = "Passive" /\ kept(m) = competitor[m] /\ beaten(m)
      <4>1. age'[m] = age[m] /\ competitor'[m] = competitor[m] /\ role'[m] = "Passive"
        BY <1>2, <3>1 DEF beaten
      <4>2. age[m] <= Timeout
        BY <1>1, <1>3, <3>1 DEF kept, expired, beaten
      <4> QED BY <2>1, <4>1, <4>2 DEF Waited, Waits
    <3>2. CASE /\ evaluateBMCA(m) = "Listening" /\ role[m] = "Listening" /\ kept(m) = None
               /\ upFor[m] < Timeout
      <4>1. competitor'[m] = None /\ role'[m] = "Listening" /\ upFor'[m] = upFor[m]
        BY <1>2, <3>2
      <4> QED BY <2>1, <3>2, <4>1 DEF Waited, Waits
    <3> QED BY <2>4, <3>1, <3>2
  <2>9. \A k \in Eligible : k # m => Waited(k)'
    BY <1>1, <1>2, <2>1 DEF Unheard, Waited, Waits
  <2>10. Unheard'
    BY <1>1, <2>1, <2>8, <2>9 DEF Unheard
  <2> QED BY <1>1, <1>7, <2>1, <2>7, <2>10
          DEF ElectionInv, Settling, LiveInTime, TimingHeld, AllSpeak, Decided, OneSpeaks,
              SettleTime
<1> QED BY <1>4, <1>5, <1>6

LEMMA TransmitKeeps ==
  ASSUME ElectionInv, NEW h \in Hosts, transmitThread(h)
  PROVE  ElectionInv'
<1> USE ElectionAssumption
<1>1. /\ ElectionBase /\ ElectionBase' /\ calm' \in Nat
      /\ calm' # 0 => calm' = calm
      /\ calm' # 0 /\ announceDue[h] /\ evaluateBMCA(h) = "Master" =>
           handleForeignAnnounce(Listeners \ {h}, rank[h],
                                 [competitor EXCEPT ![h] = comparedWith(h)])
  BY TurnKeepsBase DEF ElectionInv, ElectionBase, ElectionTyped
<1>2. CASE calm' = 0
  BY <1>1, <1>2, FaultForgives
<1>3. CASE calm' # 0
  <2>1. /\ running[h] /\ role' = [role EXCEPT ![h] = evaluateBMCA(h)]
        /\ announceDue' = [announceDue EXCEPT ![h] = FALSE]
        /\ upFor' = [upFor EXCEPT ![h] = IF evaluateBMCA(h) = "Listening" THEN @ ELSE 0]
        /\ UNCHANGED <<rank, running, gmUp, gmDue, calm, timing>> /\ calm \in Nat \ {0}
        /\ \/ evaluateBMCA(h) = "Master" /\ announceDue[h]
           \/ /\ competitor' = [competitor EXCEPT ![h] = comparedWith(h)]
              /\ age' = [age EXCEPT ![h] = IF comparedWith(h) = None THEN 0 ELSE @]
    <3>1. LET comp == [competitor EXCEPT ![h] = comparedWith(h)]
          IN  /\ running[h] /\ role' = [role EXCEPT ![h] = evaluateBMCA(h)]
              /\ announceDue' = [announceDue EXCEPT ![h] = FALSE]
              /\ upFor' = [upFor EXCEPT ![h] = IF evaluateBMCA(h) = "Listening" THEN @ ELSE 0]
              /\ UNCHANGED <<rank, running, gmUp, gmDue, timing>>
              /\ \/ evaluateBMCA(h) = "Master" /\ announceDue[h]
                 \/ /\ competitor' = comp
                    /\ age' = [age EXCEPT ![h] = IF comp[h] = None THEN 0 ELSE @]
      BY DEF transmitThread, gmVars, comparedWith
    <3>2. [competitor EXCEPT ![h] = comparedWith(h)][h] = comparedWith(h)
      BY <1>1 DEF ElectionBase, ElectionTyped
    <3> QED BY <1>1, <1>3, <3>1, <3>2
  <2>2. h \in Listeners
    BY <2>1 DEF Listeners
  <2>3. CASE evaluateBMCA(h) = "Master" /\ announceDue[h]
    <3> DEFINE comp == [competitor EXCEPT ![h] = comparedWith(h)]
    <3>1. h \in Eligible /\ h \notin SlaveOnly
      BY <1>1, <2>2, <2>3, Evaluated DEF Eligible
    <3>2. /\ comp \in [Hosts -> Nat] /\ rank[h] \in Nat \ {0} /\ comp[h] = kept(h)
          /\ \A k \in Hosts : k # h => comp[k] = competitor[k]
      BY <1>1, <3>1, Evaluated DEF ElectionBase, ElectionTyped, comparedWith, None
    <3>3. handleForeignAnnounce(Listeners \ {h}, rank[h], comp)
      BY <1>1, <1>3, <2>3
    <3> DEFINE others == Listeners \ {h}
    <3>4. others \in SUBSET Hosts /\ h \in Hosts \ others
      BY DEF Listeners
    <3> HIDE DEF comp, others
    <3>5. /\ \A k \in others :
               /\ competitor'[k] # None /\ competitor'[k] <= rank[h] /\ age'[k] = 0
               /\ comp[k] # None => competitor'[k] <= comp[k]
          /\ competitor'[h] = comp[h]
      <4>1. handleForeignAnnounce(others, rank[h], comp) /\ ElectionTyped
        BY <1>1, <3>3 DEF others, ElectionBase
      <4> QED BY <3>2, <3>4, <4>1, Announced
    <3>6. competitor'[h] = None \/ ~(competitor'[h] < rank[h])
      BY <1>1, <2>3, <3>1, <3>2, <3>5, Evaluated
    <3>7. \A k \in others : competitor[k] # None => competitor'[k] <= competitor[k]
      BY <3>2, <3>4, <3>5
    <3> USE DEF others
    <3> QED BY <1>1, <2>1, <2>3, <3>1, <3>5, <3>6, <3>7, HostSpeaks
  <2>4. CASE ~(evaluateBMCA(h) = "Master" /\ announceDue[h]) /\ h \in SlaveOnly
    <3>1. h \notin Eligible /\ Eligible \subseteq Hosts
      BY <2>4 DEF Eligible, Listeners
    <3>2. \A k \in Eligible : /\ role'[k] = role[k] /\ competitor'[k] = competitor[k]
                              /\ age'[k] = age[k] /\ upFor'[k] = upFor[k]
                              /\ announceDue'[k] = announceDue[k]
      <4>1. /\ role \in [Hosts -> {"Listening", "Master", "Passive"}] /\ upFor \in [Hosts -> Nat]
            /\ announceDue \in [Hosts -> BOOLEAN] /\ competitor \in [Hosts -> Nat]
            /\ age \in [Hosts -> 0..(Timeout + 1)]
        BY <1>1 DEF ElectionBase, ElectionTyped
      <4>2. /\ competitor' = [competitor EXCEPT ![h] = comparedWith(h)]
            /\ age' = [age EXCEPT ![h] = IF comparedWith(h) = None THEN 0 ELSE @]
        BY <2>1, <2>4
      <4> QED BY <2>1, <3>1, <4>1, <4>2
    <3> QED BY <1>1, <2>1, <3>2, SameView
  <2>5. CASE ~(evaluateBMCA(h) = "Master" /\ announceDue[h]) /\ h \notin SlaveOnly
    <3>1. h \in Eligible /\ comparedWith(h) = kept(h)
      BY <2>2, <2>5 DEF Eligible, comparedWith
    <3> QED BY <1>1, <2>1, <2>5, <3>1, SilentTurn
  <2> QED BY <2>3, <2>4, <2>5
<1> QED BY <1>2, <1>3

LEMMA GmTurnKeeps == ElectionInv /\ gmTurn => ElectionInv'
<1> SUFFICES ASSUME ElectionInv, gmTurn PROVE ElectionInv'
  OBVIOUS
<1> USE ElectionAssumption
<1>1. /\ ElectionBase /\ ElectionBase' /\ calm' \in Nat
      /\ calm' # 0 => calm' = calm
      /\ calm' # 0 /\ gmDue => handleForeignAnnounce(Listeners, gmRank, competitor)
  BY GmTurnKeepsBase DEF ElectionInv, ElectionBase, ElectionTyped
<1>2. /\ gmUp /\ gmDue' = FALSE
      /\ UNCHANGED <<rank, running, role, upFor, announceDue, gmUp, timing>>
      /\ ~gmDue => UNCHANGED <<competitor, age>>
  BY DEF gmTurn
<1>3. CASE calm' = 0
  BY <1>1, <1>3, FaultForgives
<1>4. CASE calm' # 0 /\ gmDue
  <2>1. competitor \in [Hosts -> Nat] /\ gmRank \in Nat \ {0} /\ Listeners \in SUBSET Hosts
    BY <1>1 DEF ElectionBase, ElectionTyped, gmRank, Listeners
  <2>2. \A k \in Listeners :
          /\ competitor'[k] # None /\ age'[k] = 0
          /\ competitor[k] # None => competitor'[k] <= competitor[k]
    <3>1. handleForeignAnnounce(Listeners, gmRank, competitor) /\ ElectionTyped
      BY <1>1, <1>4 DEF ElectionBase
    <3> QED BY <2>1, <3>1, Announced
  <2>3. calm \in Nat \ {0} /\ calm' = calm
    BY <1>1, <1>4
  <2> QED BY <1>1, <1>2, <1>4, <2>2, <2>3, GmSpeaks
<1>5. CASE calm' # 0 /\ ~gmDue
  <2>1. gmDue' = gmDue
    BY <1>1, <1>2, <1>5 DEF ElectionBase, ElectionTyped
  <2> QED BY <1>1, <1>2, <1>5, <2>1, SameView
<1> QED BY <1>3, <1>4, <1>5

LEMMA SendTimingKeeps ==
  ASSUME ElectionInv, NEW h \in Hosts, sendTiming(h)
  PROVE  ElectionInv'
<1>1. /\ ElectionBase /\ h \in Masters /\ timing' = timing \cup {h}
      /\ UNCHANGED <<rank, running, role, upFor, competitor, age, announceDue, slaveActive, gmUp, gmDue,
                     edgeDue, announcedLocked, locked, consecutive, haveLastEdge, idle, calm>>
  BY DEF ElectionInv, sendTiming, Masters, Listeners, hostVars, gmVars, refVars
<1>2. ElectionTyped' /\ RefTypeOK'
  BY <1>1 DEF ElectionBase, ElectionTyped, RefTypeOK
<1>3. RolesFounded' /\ LockIsCurrent'
  BY <1>1 DEF ElectionBase, RolesFounded, LockIsCurrent
<1>4. Eligible' = Eligible /\ Masters' = Masters /\ Firm' = Firm
  BY <1>1 DEF Eligible, Listeners, Masters, Firm, beaten
<1>5. Live' = Live /\ Unheard' = Unheard
  BY <1>1, <1>4 DEF Live, Heard, StillToSpeak, Unheard, Waited, Waits
<1>6. AllSpeak' /\ Decided'
  BY <1>1, <1>4, <1>5 DEF ElectionInv, Settling, AllSpeak, Spoken, KnownTo, Decided, OneFirm,
                          StepsDown
<1>7. TimingHeld'
  BY <1>1, <1>4, LeadersEligible DEF ElectionInv, Settling, TimingHeld
<1>8. Masters' \cup timing' = Masters \cup timing
  BY <1>1, <1>4
<1>9. OneSpeaks' /\ LiveInTime' /\ Outranked'
  BY <1>1, <1>4, <1>5, <1>8 DEF ElectionInv, Settling, OneSpeaks, LiveInTime, Outranked, beaten
<1> QED BY <1>1, <1>2, <1>3, <1>6, <1>7, <1>9 DEF ElectionInv, ElectionBase, Settling

LEMMA MonitorKeeps ==
  ASSUME ElectionInv, NEW h \in Hosts, monitorThread(h)
  PROVE  ElectionInv'
<1>1. /\ ElectionBase /\ slaveActive' = [slaveActive EXCEPT ![h] = ~@]
      /\ UNCHANGED <<rank, running, role, upFor, competitor, age, announceDue, gmUp, gmDue, edgeDue,
                     announcedLocked, locked, consecutive, haveLastEdge, idle, timing, calm>>
  BY DEF ElectionInv, monitorThread, hostVars, gmVars, refVars
<1>2. slaveActive' \in [Hosts -> BOOLEAN]
  BY <1>1 DEF ElectionBase, ElectionTyped
<1>3. ElectionTyped' /\ RefTypeOK'
  BY <1>1, <1>2 DEF ElectionBase, ElectionTyped, RefTypeOK
<1>4. RolesFounded' /\ LockIsCurrent'
  BY <1>1 DEF ElectionBase, RolesFounded, LockIsCurrent
<1>5. ElectionBase'
  BY <1>1, <1>3, <1>4 DEF ElectionBase
<1> QED BY <1>1, <1>5, SameView

LEMMA PeriodKeepsBase ==
  ASSUME ElectionBase, Tick
  PROVE  /\ ElectionBase'
         /\ calm' \in Nat \ {0} /\ calm' <= calm + 1
<1> USE ElectionAssumption, ReferenceAssumption
<1>1. /\ UNCHANGED <<rank, running, role, competitor, slaveActive, gmUp, announcedLocked, locked,
                     consecutive, haveLastEdge>>
      /\ announceDue' = running /\ gmDue' = gmUp /\ edgeDue' = gmUp /\ timing' = {}
      /\ calm' = IF calm < CalmMax THEN calm + 1 ELSE calm
      /\ IF gmUp THEN second ELSE UNCHANGED idle
  BY DEF Tick
<1>2. calm' \in Nat \ {0} /\ calm' <= calm + 1 /\ calm' <= CalmMax
  <2>1. calm \in Nat /\ CalmMax \in Nat \ {0} /\ calm <= CalmMax
    BY DEF ElectionBase, ElectionTyped
  <2> QED BY <1>1, <2>1
<1>3. upFor' \in [Hosts -> Nat]
  BY DEF Tick, ElectionBase, ElectionTyped
<1>4. age' \in [Hosts -> 0..(Timeout + 1)]
  BY DEF Tick, ElectionBase, ElectionTyped
<1>5. ElectionTyped'
  <2>1. announceDue' \in [Hosts -> BOOLEAN] /\ gmDue' \in BOOLEAN /\ edgeDue' \in BOOLEAN
    BY <1>1 DEF ElectionBase, ElectionTyped
  <2> QED BY <1>1, <1>2, <1>3, <1>4, <2>1 DEF ElectionBase, ElectionTyped
<1>6. RefTypeOK'
  <2>1. idle' \in 0..(Holdover + 1)
    BY <1>1 DEF ElectionBase, RefTypeOK, second
  <2> QED BY <1>1, <2>1 DEF ElectionBase, RefTypeOK
<1>7. RolesFounded' /\ LockIsCurrent'
  BY <1>1 DEF ElectionBase, RolesFounded, LockIsCurrent
<1> QED BY <1>1, <1>2, <1>5, <1>6, <1>7 DEF ElectionBase

LEMMA PeriodKeeps == ElectionInv /\ Tick => ElectionInv'
<1> SUFFICES ASSUME ElectionInv, Tick PROVE ElectionInv'
  OBVIOUS
<1> USE ElectionAssumption
<1>1. ElectionBase /\ ElectionBase' /\ calm' \in Nat \ {0} /\ calm' <= calm + 1 /\ calm \in Nat
  BY PeriodKeepsBase DEF ElectionInv, ElectionBase, ElectionTyped
<1>2. /\ \A h \in Hosts : ~announceDue[h] /\ (announceDue'[h] <=> running[h])
      /\ ~(gmUp /\ gmDue) /\ (gmDue' <=> gmUp)
      /\ UNCHANGED <<rank, running, role, competitor, gmUp>> /\ timing' = {}
  BY DEF Tick
<1>3. /\ Eligible' = Eligible /\ Firm' = Firm /\ Masters' = Masters
      /\ Eligible \subseteq Hosts /\ Timeout \in Nat \ {0}
      /\ \A k \in Eligible : running[k] /\ announceDue'[k]
  BY <1>2 DEF Eligible, Listeners, Firm, beaten, Masters
<1>4. Masters \subseteq Eligible
  BY <1>1, LeadersEligible
<1>5. ASSUME NEW k \in Eligible
      PROVE  /\ age'[k] = IF competitor[k] # None /\ age[k] <= Timeout THEN age[k] + 1 ELSE age[k]
             /\ upFor'[k] = IF role[k] = "Listening" /\ upFor[k] < Timeout
                            THEN upFor[k] + 1 ELSE upFor[k]
             /\ age[k] \in Nat /\ upFor[k] \in Nat /\ competitor[k] \in Nat
             /\ rank[k] \in Nat
             /\ role[k] \in {"Listening", "Master", "Passive"}
  <2>1. k \in Hosts /\ running[k]
    BY <1>3
  <2>2. role[k] \in {"Listening", "Master", "Passive"}
    BY <1>1, <2>1 DEF ElectionBase, ElectionTyped
  <2> QED BY <1>1, <2>1, <2>2, Numbers DEF Tick
<1>6. Live => Live'
  <2>1. ASSUME Live PROVE Live'
    <3>1. gmUp' \/ Firm' # {}
      BY <1>2, <1>3, <2>1 DEF Live
    <3>2. StillToSpeak'
      BY <1>2, <1>3, <3>1 DEF StillToSpeak, Firm
    <3>3. ~StillToSpeak
      BY <1>2, <1>3 DEF StillToSpeak, Firm
    <3>4. ASSUME NEW k \in Eligible \ Firm PROVE Heard(k)'
      <4>1. competitor[k] # None /\ age[k] = 0
        BY <2>1, <3>3 DEF Live, Heard
      <4>2. age'[k] = 1 /\ competitor'[k] = competitor[k]
        BY <1>2, <1>3, <1>5, <4>1
      <4> QED BY <3>2, <4>1, <4>2 DEF Heard
    <3> QED BY <1>3, <3>1, <3>4 DEF Live
  <2> QED BY <2>1
<1>7. ASSUME ~Live
      PROVE  /\ Unheard /\ (gmUp => calm = 0)
             /\ \A k \in Eligible : /\ role[k] = "Master" => calm = 0
                                    /\ role[k] = "Listening" => calm < Timeout
                                    /\ role[k] = "Passive" => calm <= Timeout
  <2>1. Unheard
    BY <1>7 DEF ElectionInv, Settling, LiveInTime
  <2>2. gmUp => calm = 0
    BY <1>2, <2>1 DEF Unheard
  <2>3. ASSUME NEW k \in Eligible
        PROVE  /\ role[k] = "Master" => calm = 0
               /\ role[k] = "Listening" => calm < Timeout
               /\ role[k] = "Passive" => calm <= Timeout
    <3>1. Waited(k) /\ ~announceDue[k] /\ (calm = 0 \/ Waits(k))
      BY <1>2, <1>3, <2>1 DEF Unheard, Waited
    <3>2. role[k] = "Passive" => competitor[k] # None
      BY <1>1, <1>3 DEF ElectionBase, RolesFounded, Eligible
    <3> QED BY <1>1, <1>3, <1>5, <3>1, <3>2 DEF Waited, Waits
  <2> QED BY <2>1, <2>2, <2>3
<1>8. LiveInTime'
  <2>1. SUFFICES ASSUME ~Live
                 PROVE  Unheard' /\ (gmUp' \/ Eligible' # {} => calm' <= Timeout + 1)
    BY <1>6 DEF LiveInTime
  <2>2. gmUp' => calm' = 1 /\ gmDue'
    BY <1>1, <1>2, <1>7, <2>1
  <2>3. ASSUME NEW k \in Eligible PROVE Waited(k)' /\ calm' <= Timeout + 1
    <3>1. Waited(k)
      BY <1>7, <2>1 DEF Unheard
    <3>2. role'[k] = "Master" => calm' = 1 /\ announceDue'[k]
      BY <1>1, <1>2, <1>3, <1>7, <2>1
    <3>3. competitor'[k] # None => age'[k] >= calm' \/ age'[k] > Timeout
      BY <1>1, <1>2, <1>3, <1>5, <3>1 DEF Waited
    <3>4. role'[k] = "Listening" =>
            calm' <= Timeout /\ (upFor'[k] >= calm' \/ upFor'[k] >= Timeout)
      BY <1>1, <1>2, <1>3, <1>5, <1>7, <2>1, <3>1 DEF Waited
    <3>5. calm' <= Timeout + 1
      BY <1>1, <1>3, <1>5, <1>7, <2>1
    <3> QED BY <1>3, <3>2, <3>3, <3>4, <3>5 DEF Waited
  <2> QED BY <1>2, <1>3, <2>2, <2>3 DEF Unheard
<1>9. AllSpeak'
  BY <1>3 DEF AllSpeak
<1>10. Decided'
  <2>1. SUFFICES ASSUME calm >= Timeout PROVE OneFirm'
    BY <1>1, <1>3 DEF Decided
  <2>2. CASE Live
    <3>1. \A k \in Eligible : Spoken(k)
      BY <1>2, <1>3, <2>1, <2>2 DEF ElectionInv, Settling, AllSpeak
    <3>2. ASSUME NEW k \in Masters, NEW j \in Masters, rank[k] < rank[j] PROVE beaten(j)
      <4>1. k \in Eligible /\ j \in Eligible /\ role[k] = "Master"
        BY <1>4 DEF Masters
      <4>2. competitor[j] # None /\ competitor[j] <= rank[k]
        BY <3>1, <3>2, <4>1 DEF Spoken, KnownTo
      <4> QED BY <1>5, <3>2, <4>1, <4>2 DEF beaten
    <3>3. ASSUME NEW k \in Masters, NEW j \in Masters, k # j PROVE beaten(k) \/ beaten(j)
      <4>1. k \in Hosts /\ j \in Hosts /\ rank[k] \in Nat /\ rank[j] \in Nat
        BY <1>3, <1>4, <1>5
      <4>2. rank[k] # rank[j]
        BY <1>1, <3>3, <4>1 DEF ElectionBase, ElectionTyped
      <4>3. rank[k] < rank[j] \/ rank[j] < rank[k]
        BY <4>1, <4>2
      <4> QED BY <3>2, <4>3
    <3>4. Firm \subseteq Masters /\ \A k \in Firm : ~beaten(k)
      BY DEF Firm, Masters, Eligible
    <3>5. \A k, j \in Firm : k = j
      BY <3>3, <3>4
    <3>6. \A k \in Masters : beaten(k) => StepsDown(k)'
      BY <1>3, <1>4, <3>4 DEF StepsDown
    <3>7. \A k \in Eligible : role'[k] # "Listening"
      BY <1>2, <3>1 DEF Spoken
    <3> QED BY <1>3, <3>3, <3>5, <3>6, <3>7 DEF OneFirm
  <2>3. CASE ~Live
    <3>1. \A k \in Eligible : role[k] # "Master" /\ role[k] # "Listening"
      BY <1>1, <1>3, <1>7, <2>1, <2>3
    <3>2. Masters = {} /\ Firm = {}
      BY <1>4, <3>1 DEF Masters, Firm
    <3> QED BY <1>2, <1>3, <3>1, <3>2 DEF OneFirm
  <2> QED BY <2>2, <2>3
<1>11. OneSpeaks'
  <2>1. SUFFICES ASSUME calm >= Timeout + 1 PROVE \A k, j \in Masters : k = j
    BY <1>1, <1>2, <1>3 DEF OneSpeaks, SettleTime
  <2>2. CASE Live
    <3>1. OneFirm
      BY <2>1, <2>2 DEF ElectionInv, Settling, Decided
    <3> QED BY <1>2, <1>3, <1>4, <3>1 DEF OneFirm, StepsDown
  <2>3. CASE ~Live
    <3>1. \A k \in Eligible : role[k] # "Master"
      BY <1>1, <1>3, <1>7, <2>1, <2>3
    <3> QED BY <1>4, <3>1 DEF Masters
  <2> QED BY <2>2, <2>3
<1>12. TimingHeld'
  BY <1>2 DEF TimingHeld
<1>13. Outranked'
  <2>1. \A k \in Eligible : role[k] = "Passive" => beaten(k)' \/ calm = 0
    BY <1>2, <1>3 DEF ElectionInv, Settling, Outranked, beaten
  <2>2. calm = 0 => calm' = 1
    BY <1>1
  <2> QED BY <1>2, <1>3, <2>1, <2>2 DEF Outranked
<1> QED BY <1>1, <1>8, <1>9, <1>10, <1>11, <1>12, <1>13 DEF ElectionInv, Settling

LEMMA ElectionNextKeeps == ElectionInv /\ [Next]_vars => ElectionInv'
<1> SUFFICES ASSUME ElectionInv, [Next]_vars PROVE ElectionInv'
  OBVIOUS
<1>1. CASE UNCHANGED vars
  <2>1. UNCHANGED <<rank, running, role, upFor, competitor, age, announceDue, slaveActive, gmUp, gmDue,
                    edgeDue, announcedLocked, locked, consecutive, haveLastEdge, idle, timing,
                    calm>>
    BY <1>1 DEF vars, hostVars, gmVars, refVars
  <2>2. ElectionTyped' /\ RefTypeOK'
    BY <2>1 DEF ElectionInv, ElectionBase, ElectionTyped, RefTypeOK
  <2>3. ElectionBase'
    BY <2>1, <2>2 DEF ElectionInv, ElectionBase, RolesFounded, LockIsCurrent
  <2> QED BY <2>1, <2>3, SameView
<1>2. ASSUME NEW h \in Hosts, start(h) \/ stop(h) \/ slaveStartFails(h) PROVE ElectionInv'
  BY <1>2, ControlKeeps
<1>3. ASSUME NEW h \in Hosts, transmitThread(h) PROVE ElectionInv'
  BY <1>3, TransmitKeeps
<1>4. ASSUME NEW h \in Hosts, sendTiming(h) PROVE ElectionInv'
  BY <1>4, SendTimingKeeps
<1>5. ASSUME NEW h \in Hosts, monitorThread(h) PROVE ElectionInv'
  BY <1>5, MonitorKeeps
<1>6. CASE gmStart \/ gmStop
  BY <1>6, GmControlKeeps
<1>7. CASE gmTurn
  BY <1>7, GmTurnKeeps
<1>8. CASE Tick
  BY <1>8, PeriodKeeps
<1>9. ASSUME NEW h \in Hosts, clockClassMoves(h) PROVE ElectionInv'
  BY <1>9, ClassKeeps
<1> QED BY <1>1, <1>2, <1>3, <1>4, <1>5, <1>6, <1>7, <1>8, <1>9 DEF Next

\* The segment settles: for any number of Macs, any ranks, which move as their sources
\* lock or are lost, any timeouts and losses, two periods after the announce timeout
\* without a further fault and with no rank moving exactly one Mac gives
\* the time where no Linux machine does, and at most one in any case; and that machine
\* does not announce a lock it has lost.
THEOREM SegmentAlwaysSettles == Spec => []SegmentSettles
<1>1. Init => ElectionInv
  BY ElectionInitInv
<1>2. ElectionInv /\ [Next]_vars => ElectionInv'
  BY ElectionNextKeeps
<1>3. ElectionInv => SegmentSettles
  BY ElectionInvImplies
<1> QED BY <1>1, <1>2, <1>3, PTL DEF Spec
=============================================================================
