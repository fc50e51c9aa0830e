------------------------------- MODULE Election -------------------------------
(***************************************************************************)
(* Who is grandmaster on a segment: Macs whose PTPArbitrator runs a        *)
(* PTPMaster (best master clock election) and, whenever it is not the      *)
(* active master, a PTPSlave; and the Linux grandmaster daemon, which      *)
(* announces and never arbitrates.                                         *)
(*                                                                         *)
(* A tick is one announce period (1 s). A dataset is abstracted to its     *)
(* place in the order of isBetterMaster(): a smaller rank is better, 0 is  *)
(* "no competitor". Announces are multicast and may be lost per receiver.  *)
(***************************************************************************)
EXTENDS ExternalReference, FiniteSets

CONSTANTS
  Hosts,          \* Macs running a PTPArbitrator
  Ranks,          \* Ranks[h]: the datasets host h may announce, as its source locks
  SlaveOnly,      \* hosts whose clock class is 255, which no source takes or leaves
  GmLockedRank,   \* the Linux daemon's dataset at clockClass 13
  GmFreeRank,     \* and at clockClass 248
  Timeout,        \* announceReceiptTimeoutMultiplier (3)
  MaxFaults,      \* bound: stops, starts, losses, failed slave starts, class changes
  CalmMax,        \* bound: ticks counted since the last fault
  SilenceMax      \* bound: ticks counted since a competitor was heard

ASSUME ElectionAssumption ==
  /\ \A h \in Hosts : Ranks[h] # {} /\ \A r \in Ranks[h] : r \in Nat \ {0}
  /\ \A h, k \in Hosts : \A r \in Ranks[h] : r \in Ranks[k] => h = k
  /\ SlaveOnly \subseteq Hosts
  /\ GmLockedRank \in Nat \ {0} /\ GmFreeRank \in Nat \ {0}
  /\ \A h \in Hosts : GmLockedRank \notin Ranks[h] /\ GmFreeRank \notin Ranks[h]
  /\ Timeout \in Nat \ {0} /\ {MaxFaults, CalmMax, SilenceMax} \subseteq Nat
  /\ CalmMax >= Timeout + 2

None == 0

VARIABLES
  rank,           \* ourAnnounceData(): the host's own dataset, by its clockClass()
  running,        \* PTPMaster::running_, per host
  role,           \* PTPMaster::role_
  upFor,          \* ticks since startTime_, up to Timeout
  competitor,     \* competitor_: the dataset kept, or None
  age,            \* ticks since competitorLastSeen_, up to Timeout + 1
  silent,         \* history: ticks since the kept dataset itself was heard
  announceDue,    \* nextAnnounce has passed in this tick
  slaveActive,    \* PTPArbitrator::slaveActive_
  gmUp,           \* the Linux daemon is running
  announcedLocked,\* Grandmaster::announcedLocked_, the class in dataset_
  gmDue,          \* its next Announce is due
  edgeDue,        \* the reference has an edge to give in this tick
  timing,         \* hosts whose Sync or Delay_Resp went out in this tick
  calm,           \* history: ticks since the last fault, up to CalmMax
  faults          \* faults so far

hostVars == <<running, role, upFor, competitor, age, silent, announceDue>>
gmVars == <<gmUp, announcedLocked, gmDue, edgeDue, refVars>>
vars == <<rank, hostVars, slaveActive, gmVars, timing, calm, faults>>

\* Any of the clocks may have just been started, the others are off.
Init ==
  /\ rank \in [Hosts -> UNION {Ranks[h] : h \in Hosts}]
  /\ \A h \in Hosts : rank[h] \in Ranks[h]
  /\ running \in [Hosts -> BOOLEAN]
  /\ role = [h \in Hosts |-> "Listening"]
  /\ upFor = [h \in Hosts |-> 0]
  /\ competitor = [h \in Hosts |-> None]
  /\ age = [h \in Hosts |-> 0]
  /\ silent = [h \in Hosts |-> 0]
  /\ announceDue = running
  /\ slaveActive = [h \in Hosts |-> FALSE]
  /\ gmUp \in BOOLEAN /\ announcedLocked = FALSE /\ gmDue = gmUp /\ edgeDue = gmUp
  /\ enable
  /\ timing = {} /\ calm = 0 /\ faults = 0

Fault == faults < MaxFaults /\ faults' = faults + 1 /\ calm' = 0

isBetterMaster(a, b) == a < b

(***************************************************************************)
(* PTPMaster                                                               *)
(***************************************************************************)

\* evaluateBMCA() forgets a competitor whose last Announce is too old...
expired(h) == competitor[h] # None /\ age[h] > Timeout
kept(h) == IF expired(h) THEN None ELSE competitor[h]

\* Mutant: the active master does not yield the role.
evaluateBMCA_holdsOn(h) ==
  IF role[h] = "Master" THEN "Master"
  ELSE IF kept(h) = None
  THEN IF role[h] = "Listening" /\ upFor[h] < Timeout THEN "Listening" ELSE "Master"
  ELSE IF isBetterMaster(kept(h), rank[h]) THEN "Passive" ELSE "Master"

\* ... and decides the role from what is left.
evaluateBMCA(h) ==
  IF h \in SlaveOnly THEN "Passive"
  ELSE IF kept(h) = None
  THEN IF role[h] = "Listening" /\ upFor[h] < Timeout THEN "Listening" ELSE "Master"
  ELSE IF isBetterMaster(kept(h), rank[h]) THEN "Passive" ELSE "Master"

\* handleForeignAnnounce() at every host of hs but the sender. The stored
\* dataset is replaced only by a strictly better one; its age is reset by any.
handleForeignAnnounce(hs, dataset, comp) ==
  LET takes(h) == comp[h] = None \/ isBetterMaster(dataset, comp[h])
  IN /\ competitor' = [h \in Hosts |-> IF h \in hs /\ takes(h) THEN dataset ELSE comp[h]]
     /\ age' = [h \in Hosts |-> IF h \in hs THEN 0 ELSE age[h]]
     /\ silent' = [h \in Hosts |->
                     IF h \in hs /\ (takes(h) \/ comp[h] = dataset) THEN 0 ELSE silent[h]]

\* An Announce reaches every listener, or, as one fault, not all of them.
Reaches(listeners, hs) ==
  \/ hs = listeners /\ UNCHANGED <<faults, calm>>
  \/ hs \in SUBSET listeners /\ hs # listeners /\ Fault

Listeners == {h \in Hosts : running[h]}

\* CoreAudioClockSource::currentTimeNs(): the reference locks or is lost, and the
\* host's clock class, 13 or 248, moves with it. The others hear of it as they may.
clockClassMoves(h) ==
  /\ running[h] /\ Fault
  /\ \E r \in Ranks[h] \ {rank[h]} : rank' = [rank EXCEPT ![h] = r]
  /\ UNCHANGED <<hostVars, slaveActive, gmVars, timing>>

\* start(): the competitor of an earlier session is not cleared.
start(h) ==
  /\ ~running[h] /\ Fault
  /\ running' = [running EXCEPT ![h] = TRUE]
  /\ role' = [role EXCEPT ![h] = "Listening"]
  /\ upFor' = [upFor EXCEPT ![h] = 0]
  /\ announceDue' = [announceDue EXCEPT ![h] = TRUE]
  /\ UNCHANGED <<rank, competitor, age, silent, slaveActive, gmVars, timing>>

\* PTPArbitrator::stop(): monitor joined, slave stopped, then the master.
stop(h) ==
  /\ running[h] /\ Fault
  /\ running' = [running EXCEPT ![h] = FALSE]
  /\ role' = [role EXCEPT ![h] = "Listening"]
  /\ slaveActive' = [slaveActive EXCEPT ![h] = FALSE]
  /\ announceDue' = [announceDue EXCEPT ![h] = FALSE]
  /\ upFor' = [upFor EXCEPT ![h] = 0]
  /\ UNCHANGED <<rank, competitor, age, silent, gmVars, timing>>

sendAnnounce(h, comp) ==
  \E hs \in SUBSET (Listeners \ {h}) :
    /\ Reaches(Listeners \ {h}, hs)
    /\ handleForeignAnnounce(hs, rank[h], comp)

\* One turn of transmitThread(): the election, then the Announce if this host
\* is the master and its deadline has passed.
transmitThread(h) ==
  LET newRole == evaluateBMCA(h)
      comp == [competitor EXCEPT ![h] = IF h \in SlaveOnly THEN @ ELSE kept(h)]
  IN /\ running[h]
     /\ role' = [role EXCEPT ![h] = newRole]
     /\ announceDue' = [announceDue EXCEPT ![h] = FALSE]
     /\ upFor' = [upFor EXCEPT ![h] = IF newRole = "Listening" THEN @ ELSE 0]
     /\ IF newRole = "Master" /\ announceDue[h]
        THEN sendAnnounce(h, comp)
        ELSE /\ competitor' = comp
             /\ age' = [age EXCEPT ![h] = IF comp[h] = None THEN 0 ELSE @]
             /\ UNCHANGED <<silent, faults, calm>>
     /\ UNCHANGED <<rank, running, slaveActive, gmVars, timing>>

\* sendSyncAndFollowUp() and handleDelayReq(): both only while Master.
sendTiming(h) ==
  /\ running[h] /\ role[h] = "Master" /\ h \notin timing
  /\ timing' = timing \cup {h}
  /\ UNCHANGED <<rank, hostVars, slaveActive, gmVars, calm, faults>>

(***************************************************************************)
(* PTPArbitrator                                                           *)
(***************************************************************************)

\* Mutant: the slave is started and never stopped.
monitorThread_startOnly(h) ==
  /\ running[h] /\ role[h] # "Master" /\ ~slaveActive[h]
  /\ slaveActive' = [slaveActive EXCEPT ![h] = TRUE]
  /\ UNCHANGED <<rank, hostVars, gmVars, timing, calm, faults>>

\* monitorThread(): the slave runs exactly while this host is not the master.
\* A slave that does not start is tried again on the next turn.
monitorThread(h) ==
  /\ running[h]
  /\ slaveActive[h] = (role[h] = "Master")
  /\ slaveActive' = [slaveActive EXCEPT ![h] = ~@]
  /\ UNCHANGED <<rank, hostVars, gmVars, timing, calm, faults>>

\* A failed PTPSlave::start() changes nothing here.
slaveStartFails(h) ==
  /\ running[h] /\ ~slaveActive[h] /\ role[h] # "Master" /\ Fault
  /\ UNCHANGED <<rank, hostVars, slaveActive, gmVars, timing>>

(***************************************************************************)
(* The Linux grandmaster                                                   *)
(***************************************************************************)

\* Grandmaster::start() begins with the free-running dataset.
freeDataset == announcedLocked' = FALSE

gmStart ==
  /\ ~gmUp /\ Fault
  /\ gmUp' = TRUE /\ gmDue' = TRUE
  /\ freeDataset
  /\ restarted
  /\ edgeDue' = TRUE
  /\ UNCHANGED <<rank, hostVars, slaveActive, timing>>

\* The process ends; what it knew of the reference goes with it.
gmStop ==
  /\ gmUp /\ Fault
  /\ gmUp' = FALSE /\ gmDue' = FALSE /\ edgeDue' = FALSE /\ announcedLocked' = FALSE
  /\ restarted
  /\ UNCHANGED <<rank, hostVars, slaveActive, timing>>

\* followTheReference(): the dataset takes the reference's lock over.
followTheReference == announcedLocked' = locked'

gmRank == IF announcedLocked THEN GmLockedRank ELSE GmFreeRank

gmSendAnnounce ==
  \E hs \in SUBSET Listeners :
    /\ Reaches(Listeners, hs)
    /\ handleForeignAnnounce(hs, gmRank, competitor)

\* One turn of run(): the Announce with the dataset as it stands, if due, then
\* the reference. An Announce of somebody else is only logged.
gmTurn ==
  /\ gmUp
  /\ gmDue' = FALSE
  /\ IF gmDue
     THEN gmSendAnnounce
     ELSE UNCHANGED <<competitor, age, silent, faults, calm>>
  /\ \/ serviceNoEdge /\ UNCHANGED edgeDue
     \/ /\ edgeDue /\ edgeDue' = FALSE
        /\ \E e \in EdgeKinds : serviceEdge(e)
  /\ followTheReference
  /\ UNCHANGED <<rank, running, role, upFor, announceDue, slaveActive, gmUp, timing>>

(***************************************************************************)
(* An announce period passes. Threads wake at least every 250 ms, so every *)
(* running clock has had its turn in the period that ends.                 *)
(***************************************************************************)
Tick ==
  /\ \A h \in Hosts : ~announceDue[h]
  /\ ~(gmUp /\ gmDue)
  /\ \A h \in Listeners : role[h] = "Master" => h \in timing
  /\ announceDue' = running
  /\ gmDue' = gmUp
  /\ edgeDue' = gmUp
  /\ upFor' = [h \in Hosts |->
                 IF running[h] /\ role[h] = "Listening" /\ upFor[h] < Timeout
                 THEN upFor[h] + 1 ELSE upFor[h]]
  /\ age' = [h \in Hosts |->
               IF competitor[h] # None /\ age[h] <= Timeout THEN age[h] + 1 ELSE age[h]]
  /\ silent' = [h \in Hosts |->
                  IF competitor[h] # None /\ silent[h] < SilenceMax
                  THEN silent[h] + 1 ELSE silent[h]]
  /\ IF gmUp THEN second ELSE UNCHANGED idle
  /\ timing' = {}
  /\ calm' = IF calm < CalmMax THEN calm + 1 ELSE calm
  /\ UNCHANGED <<rank, running, role, competitor, slaveActive, gmUp, announcedLocked,
                 locked, consecutive, haveLastEdge, faults>>

Next ==
  \/ \E h \in Hosts : start(h) \/ stop(h) \/ transmitThread(h) \/ sendTiming(h)
                      \/ monitorThread(h) \/ slaveStartFails(h) \/ clockClassMoves(h)
  \/ gmStart \/ gmStop \/ gmTurn
  \/ Tick

\* Threads keep running: every loop takes its turn and time passes.
Fairness ==
  /\ WF_vars(Tick) /\ WF_vars(gmTurn)
  /\ \A h \in Hosts : WF_vars(transmitThread(h)) /\ WF_vars(sendTiming(h))
                      /\ WF_vars(monitorThread(h))

(***************************************************************************)
(* Properties                                                              *)
(***************************************************************************)

TypeOK ==
  /\ \A h \in Hosts : rank[h] \in Ranks[h]
  /\ running \in [Hosts -> BOOLEAN] /\ slaveActive \in [Hosts -> BOOLEAN]
  /\ role \in [Hosts -> {"Listening", "Master", "Passive"}]
  /\ age \in [Hosts -> 0..(Timeout + 1)]
  /\ timing \subseteq Hosts
  /\ RefTypeOK

Masters == {h \in Listeners : role[h] = "Master"}

\* The announce timeout for a dead master to be forgotten or a new host to speak up,
\* and then: all hear each other, the losers step down, their last Sync is past.
SettleTime == Timeout + 2

\* Once the segment has been calm for that long (nothing started, stopped or lost,
\* and no Mac's clock class has moved), only one Mac sends Sync and answers Delay_Req: two that took the role
\* at once have heard each other and one has stepped down.
SplitHealed == calm >= SettleTime => Cardinality(timing) <= 1

\* ... and, with no other grandmaster on the segment, one of the running Macs
\* does hold the role: a dead master is forgotten within the announce timeout
\* although each Mac times it by its own last Announce heard.
HeadlessBounded ==
  calm >= SettleTime /\ ~gmUp /\ Listeners \ SlaveOnly # {} => Cardinality(Masters) = 1

\* The Linux daemon has taken its lock back, in the dataset it announces, by
\* the end of the period in which the reference's holdover ran out.
LockIsCurrent == gmUp /\ ~gmDue /\ idle > Holdover => ~announcedLocked

\* The segment settles on one grandmaster in bounded time: not two, not none, and
\* none that announces a lock it has lost.
SegmentSettles == TypeOK /\ SplitHealed /\ HeadlessBounded /\ LockIsCurrent

\* When the faults end, every Mac ends up either disciplining the segment or
\* following it, never both or neither for good: the arbitrator's monitor
\* thread brings the slave in line with the role.
SlaveFollows ==
  <>[](\A h \in Hosts : running[h] => slaveActive[h] = (role[h] # "Master"))

\* Refuted: "they went quiet -- no longer a competitor" (evaluateBMCA): a Mac that
\* stands aside does so for a clock heard less than SilenceMax periods ago,
\* where SilenceMax leaves the announce timeout twice over.
QuietIsForgotten == \A h \in Hosts : role[h] = "Passive" => silent[h] < SilenceMax

Spec == Init /\ [][Next]_vars /\ Fairness
================================================================================
