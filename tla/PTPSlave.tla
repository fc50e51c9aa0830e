------------------------------ MODULE PTPSlave ------------------------------
(***************************************************************************)
(* PTPSlave (aes67-macos-driver/NetworkEngine/PTP/PTPSlave.cpp): follows   *)
(* the best PTP grandmaster on the segment and measures the offset from    *)
(* it.  A receive thread handles the messages of the two sockets and       *)
(* checks the announce timeout; a delay-request thread asks the master     *)
(* for the path delay; a control thread (the arbitrator, which runs the    *)
(* slave whenever this host is not master) starts and stops both.          *)
(*                                                                         *)
(* A timestamp is represented by the exchange it belongs to: t1 and t2 by  *)
(* the sender and the number of the Sync, t3 and t4 by the number of the   *)
(* Delay_Req, the number 0 being the zero timestamp the code takes for     *)
(* "none".  Whether a filtered offset is within the tolerance is a free    *)
(* choice.  The network may lose, delay, reorder and duplicate: a message  *)
(* that has been sent may arrive at any time, and again, and all Syncs     *)
(* have been sent.  The handlers do not look at who sent a Sync, Follow_Up *)
(* or Delay_Resp.  Time is the one bit the code derives from it: stale,    *)
(* more than the timeout since the current master's last Announce.  The    *)
(* delay mechanism is end to end.                                          *)
(***************************************************************************)
EXTENDS Integers, FiniteSets

CONSTANTS
  Masters,         \* grandmaster identities, numbers: the lower one wins a tie
  Datasets,        \* [quality, id] they announce; a lower quality is better
  twoStepOnly,     \* configuration: refuse one-step Syncs
  kLockThreshold,
  Syncs,           \* [from, n], the Syncs they send: each numbers its own
  MaxRequests,     \* bound: Delay_Reqs made
  MaxStops,        \* bound: calls of stop()
  MaxDeaths        \* bound: grandmasters that fall silent

ASSUME SlaveAssumption ==
  /\ Masters \subseteq Nat /\ Datasets \subseteq [quality : Nat, id : Masters]
  /\ [quality |-> 0, id |-> 0] \notin Datasets
  /\ twoStepOnly \in BOOLEAN
  /\ kLockThreshold \in Nat \ {0}
  /\ Syncs \subseteq [from : Masters, n : Nat \ {0}]
  /\ MaxRequests \in Nat /\ MaxStops \in Nat /\ MaxDeaths \in Nat

VARIABLES
  running_,
  hasMaster_,
  currentMaster_,              \* NoDataset when there is none: the code leaves
                               \* the last one there and does not look at it
  stale,
  t1_syncOriginTimestamp_, t2_receiveTimeNs_, lastSyncSequenceId_, waitingForFollowUp_,
  synced,                      \* syncCount_ > 0
  delayReqSequenceId_, t3_delayReqSendTimeNs_, t4_delayRespReceiveTimestamp_,
  waitingForDelayResp_,
  consecutiveGoodMeasurements_, locked_,
  rpc,        \* receive thread: "off", "select", "general" (the event socket
              \* has been served, the general one is next) or "check"
  computing,  \* receive thread: about to run calculateOffsetAndDelay()
  dpc,        \* delay-request thread: "off", "sleep", "ask" or "record"
  ctl,        \* control thread: "idle", "opening" or "join"
  sockets,    \* those that are open
  stops,
  alive,      \* grandmasters that send
  requests,   \* numbers of the Delay_Reqs that reached the network
  best,       \* history: the best dataset heard since the slave last had no
              \* master, NoDataset if none
  earned,     \* history: good measurements since the master last changed
  before      \* history: delayReqSequenceId_ when the slave was started

masterVars == <<hasMaster_, currentMaster_, stale>>
syncVars == <<t1_syncOriginTimestamp_, t2_receiveTimeNs_, lastSyncSequenceId_,
              waitingForFollowUp_, synced>>
delayVars == <<delayReqSequenceId_, t3_delayReqSendTimeNs_, t4_delayRespReceiveTimestamp_,
               waitingForDelayResp_>>
lockVars == <<consecutiveGoodMeasurements_, locked_, earned>>
netVars == <<alive, requests>>
ctlVars == <<running_, ctl, sockets, stops, before>>
vars == <<masterVars, syncVars, delayVars, lockVars, netVars, ctlVars, rpc, computing, dpc,
          best>>

min(a, b) == IF a =< b THEN a ELSE b
max(a, b) == IF a >= b THEN a ELSE b

NoDataset == [quality |-> 0, id |-> 0]

\* The zero timestamp is of no Sync.
NoStamp == [from |-> 0, n |-> 0]

\* The comparison of datasets: quality first, identity last.
isBetterMaster(a, b) == a.quality < b.quality \/ (a.quality = b.quality /\ a.id < b.id)

\* The better of two datasets, said independently of it; NoDataset is none.
bestOf(a, b) ==
  LET both == {a, b} \ {NoDataset}
      top == {d \in both : \A e \in both : d.quality =< e.quality}
  IN  CHOOSE d \in top : \A e \in top : d.id =< e.id

Init ==
  /\ running_ = FALSE
  /\ hasMaster_ = FALSE /\ currentMaster_ = NoDataset /\ stale = FALSE
  /\ t1_syncOriginTimestamp_ = NoStamp /\ t2_receiveTimeNs_ = NoStamp
  /\ lastSyncSequenceId_ = 0 /\ waitingForFollowUp_ = FALSE /\ synced = FALSE
  /\ delayReqSequenceId_ = 0 /\ t3_delayReqSendTimeNs_ = 0
  /\ t4_delayRespReceiveTimestamp_ = 0 /\ waitingForDelayResp_ = FALSE
  /\ consecutiveGoodMeasurements_ = 0 /\ locked_ = FALSE /\ earned = 0
  /\ rpc = "off" /\ computing = FALSE /\ dpc = "off" /\ ctl = "idle" /\ sockets = {} /\ stops = 0
  /\ alive = Masters
  /\ requests = {}
  /\ best = NoDataset /\ before = 0

-----------------------------------------------------------------------------
(* The segment *)

Die(m) ==
  /\ m \in alive /\ Cardinality(Masters \ alive) < MaxDeaths
  /\ alive' = alive \ {m}
  /\ UNCHANGED <<masterVars, syncVars, delayVars, lockVars, requests,
                 ctlVars, rpc, computing, dpc, best>>

\* No Announce of the current master for longer than the timeout.
Expire ==
  /\ hasMaster_ /\ ~stale
  /\ stale' = TRUE
  /\ UNCHANGED <<hasMaster_, currentMaster_, syncVars, delayVars, lockVars, netVars, ctlVars,
                 rpc, computing, dpc, best>>

-----------------------------------------------------------------------------
(* Control thread *)

\* start() opens the event socket and then the general one.  When a step of
\* either fails, those that are open are closed and start() returns false.
OpenEvent ==
  /\ ctl = "idle" /\ ~running_
  /\ ctl' = "opening" /\ sockets' = sockets \cup {"event"}
  /\ UNCHANGED <<masterVars, syncVars, delayVars, lockVars, netVars, running_, stops, before,
                 rpc, computing, dpc, best>>

OpenFails ==
  /\ ctl = "opening"
  /\ ctl' = "idle" /\ sockets' = {}
  /\ UNCHANGED <<masterVars, syncVars, delayVars, lockVars, netVars, running_, stops, before,
                 rpc, computing, dpc, best>>

OpenGeneral ==
  /\ ctl = "opening" /\ ctl' = "idle"
  /\ sockets' = sockets \cup {"general"}

\* With both open start() goes on.  The four timestamps and the request number
\* stay as the previous run left them.
Start ==
  /\ OpenGeneral
  /\ hasMaster_' = FALSE /\ currentMaster_' = NoDataset /\ stale' = FALSE
  /\ locked_' = FALSE
  /\ waitingForFollowUp_' = FALSE /\ waitingForDelayResp_' = FALSE
  /\ consecutiveGoodMeasurements_' = 0
  /\ synced' = FALSE
  /\ running_' = TRUE
  /\ rpc' = "select" /\ dpc' = "sleep"
  /\ best' = NoDataset /\ earned' = 0 /\ before' = delayReqSequenceId_
  /\ UNCHANGED <<t1_syncOriginTimestamp_, t2_receiveTimeNs_,
                 lastSyncSequenceId_, delayReqSequenceId_, t3_delayReqSendTimeNs_,
                 t4_delayRespReceiveTimestamp_, computing, stops, netVars>>

Stop ==
  /\ ctl = "idle" /\ running_ /\ stops < MaxStops
  /\ running_' = FALSE
  /\ ctl' = "join" /\ stops' = stops + 1
  /\ UNCHANGED <<masterVars, syncVars, delayVars, lockVars, netVars, sockets, before, rpc,
                 computing, dpc, best>>

\* Both joins returned: the sockets are closed and the lock is withdrawn.
Joined ==
  /\ ctl = "join" /\ rpc = "off" /\ dpc = "off"
  /\ locked_' = FALSE
  /\ ctl' = "idle" /\ sockets' = {}
  /\ UNCHANGED <<masterVars, syncVars, delayVars, consecutiveGoodMeasurements_, earned,
                 netVars, running_, stops, before, rpc, computing, dpc, best>>

-----------------------------------------------------------------------------
(* Receive thread.  One turn of its loop serves the event socket, then the  *)
(* general one, whichever are readable, and then checks the timeout.        *)

onEvent == rpc = "select" /\ ~computing /\ rpc' = "general"
onGeneral == rpc \in {"select", "general"} /\ ~computing /\ rpc' = "check"

\* The general socket is not readable in this turn.
SkipGeneral ==
  /\ rpc = "general" /\ ~computing
  /\ rpc' = "check"
  /\ UNCHANGED <<masterVars, syncVars, delayVars, lockVars, netVars, ctlVars, computing, dpc,
                 best>>

\* A message that dispatchMessage() or its handler refuses, or that is meant
\* for others.
Ignored ==
  /\ onEvent \/ onGeneral
  /\ UNCHANGED <<masterVars, syncVars, delayVars, lockVars, netVars, ctlVars, computing, dpc,
                 best>>

HandleSync(sync, isTwoStep) ==
  /\ onEvent
  /\ isTwoStep \/ ~twoStepOnly
  /\ synced' = TRUE
  /\ t2_receiveTimeNs_' = sync
  /\ lastSyncSequenceId_' = sync.n
  /\ waitingForFollowUp_' = isTwoStep
  /\ t1_syncOriginTimestamp_' = IF isTwoStep THEN t1_syncOriginTimestamp_ ELSE sync
  /\ computing' = ~isTwoStep
  /\ UNCHANGED <<masterVars, delayVars, lockVars, netVars, ctlVars, dpc, best>>

\* Matched by its number alone.
HandleFollowUp(sync) ==
  /\ onGeneral
  /\ waitingForFollowUp_ /\ sync.n = lastSyncSequenceId_
  /\ t1_syncOriginTimestamp_' = sync
  /\ waitingForFollowUp_' = FALSE
  /\ computing' = TRUE
  /\ UNCHANGED <<masterVars, t2_receiveTimeNs_, lastSyncSequenceId_, synced, delayVars,
                 lockVars, netVars, ctlVars, dpc, best>>

\* Mutant: an answer to any request is taken.
HandleDelayResp_any(n) ==
  /\ onEvent \/ onGeneral
  /\ waitingForDelayResp_
  /\ t4_delayRespReceiveTimestamp_' = n
  /\ waitingForDelayResp_' = FALSE
  /\ computing' = TRUE
  /\ UNCHANGED <<masterVars, syncVars, delayReqSequenceId_, t3_delayReqSendTimeNs_, lockVars,
                 netVars, ctlVars, dpc, best>>

\* Taken on either socket.
HandleDelayResp(n) ==
  /\ onEvent \/ onGeneral
  /\ waitingForDelayResp_ /\ n = delayReqSequenceId_
  /\ t4_delayRespReceiveTimestamp_' = n
  /\ waitingForDelayResp_' = FALSE
  /\ computing' = TRUE
  /\ UNCHANGED <<masterVars, syncVars, delayReqSequenceId_, t3_delayReqSendTimeNs_, lockVars,
                 netVars, ctlVars, dpc, best>>

\* The lock starts over with a new master.
resetLock ==
  /\ locked_' = FALSE
  /\ consecutiveGoodMeasurements_' = 0
  /\ earned' = 0

\* Mutant: any grandmaster's Announce refreshes the timeout.
refreshes_any(announce) == TRUE

\* It is that of the grandmaster followed.
refreshes(announce) == announce.id = currentMaster_.id

HandleAnnounce(announce) ==
  /\ onGeneral
  /\ best' = bestOf(best, announce)
  /\ \/ /\ ~hasMaster_
        /\ currentMaster_' = announce /\ hasMaster_' = TRUE /\ stale' = FALSE
        /\ UNCHANGED lockVars
     \/ /\ hasMaster_ /\ isBetterMaster(announce, currentMaster_)
        /\ currentMaster_' = announce /\ stale' = FALSE
        /\ resetLock
        /\ UNCHANGED hasMaster_
     \/ /\ hasMaster_ /\ ~isBetterMaster(announce, currentMaster_)
        /\ stale' = (stale /\ ~refreshes(announce))
        /\ UNCHANGED <<hasMaster_, currentMaster_, lockVars>>
  /\ UNCHANGED <<syncVars, delayVars, netVars, ctlVars, computing, dpc>>

\* calculateOffsetAndDelay() with a Sync to measure: the filtered offset is
\* within the tolerance, or not.
measured(good) ==
  LET count == IF good THEN min(consecutiveGoodMeasurements_ + 1, 2 * kLockThreshold)
                       ELSE max(0, consecutiveGoodMeasurements_ - 1)
  IN  /\ consecutiveGoodMeasurements_' = count
      /\ locked_' = (count >= kLockThreshold)
      /\ earned' = IF good THEN min(earned + 1, kLockThreshold) ELSE earned

haveSync == ~waitingForFollowUp_ /\ t1_syncOriginTimestamp_.n # 0

\* Without a delay measurement the stored path delay is used instead.
haveDelay == /\ ~waitingForDelayResp_
             /\ t3_delayReqSendTimeNs_ # 0 /\ t4_delayRespReceiveTimestamp_ # 0

CalculateOffsetAndDelay ==
  /\ computing
  /\ computing' = FALSE
  /\ \/ haveSync /\ \E good \in BOOLEAN : measured(good)
     \/ ~haveSync /\ UNCHANGED lockVars
  /\ UNCHANGED <<masterVars, syncVars, delayVars, netVars, ctlVars, rpc, dpc, best>>

\* Mutant: losing the master leaves the count of good measurements.
CheckTimeout_countKept ==
  /\ rpc = "check" /\ ~computing
  /\ rpc' = IF running_ THEN "select" ELSE "off"
  /\ IF hasMaster_ /\ stale
     THEN /\ hasMaster_' = FALSE /\ currentMaster_' = NoDataset /\ stale' = FALSE
          /\ locked_' = FALSE /\ earned' = 0
          /\ best' = NoDataset
          /\ UNCHANGED consecutiveGoodMeasurements_
     ELSE UNCHANGED <<masterVars, lockVars, best>>
  /\ UNCHANGED <<syncVars, delayVars, netVars, ctlVars, computing, dpc>>

\* The announce timeout, and the loop's condition.
CheckTimeout ==
  /\ rpc = "check" /\ ~computing
  /\ rpc' = IF running_ THEN "select" ELSE "off"
  /\ IF hasMaster_ /\ stale
     THEN /\ hasMaster_' = FALSE /\ currentMaster_' = NoDataset /\ stale' = FALSE
          /\ resetLock
          /\ best' = NoDataset
     ELSE UNCHANGED <<masterVars, lockVars, best>>
  /\ UNCHANGED <<syncVars, delayVars, netVars, ctlVars, computing, dpc>>

\* select() times out and the loop sees running_ false.  A timeout while
\* running_ goes straight back to select(), a stuttering step.
ReceiveExits ==
  /\ rpc = "select" /\ ~running_ /\ ~computing
  /\ rpc' = "off"
  /\ UNCHANGED <<masterVars, syncVars, delayVars, lockVars, netVars, ctlVars, computing, dpc,
                 best>>

\* select() fails and the thread ends.
ReceiveFails ==
  /\ rpc = "select" /\ ~computing
  /\ rpc' = "off"
  /\ UNCHANGED <<masterVars, syncVars, delayVars, lockVars, netVars, ctlVars, computing, dpc,
                 best>>

-----------------------------------------------------------------------------
(* Delay-request thread *)

\* There is a master: go on to look for a Sync of this run.  Otherwise sleep on.
DelayWake ==
  /\ dpc = "sleep" /\ running_
  /\ hasMaster_
  /\ dpc' = "ask"
  /\ UNCHANGED <<masterVars, syncVars, delayVars, lockVars, netVars, ctlVars, rpc, computing,
                 best>>

\* There has been no Sync in this run: the answer would mean nothing.
DelaySkip ==
  /\ dpc = "ask" /\ ~synced
  /\ dpc' = "sleep"
  /\ UNCHANGED <<masterVars, syncVars, delayVars, lockVars, netVars, ctlVars, rpc, computing,
                 best>>

\* The request takes the next number and is sent, or fails to be.  That there
\* has been a Sync stays true until the next start(), so it is looked at here.
SendDelayReq ==
  /\ dpc = "ask" /\ synced
  /\ delayReqSequenceId_ < MaxRequests
  /\ delayReqSequenceId_' = delayReqSequenceId_ + 1
  /\ \/ requests' = requests \cup {delayReqSequenceId_'} /\ dpc' = "record"
     \/ UNCHANGED requests /\ dpc' = "sleep"
  /\ UNCHANGED <<masterVars, syncVars, t3_delayReqSendTimeNs_, t4_delayRespReceiveTimestamp_,
                 waitingForDelayResp_, lockVars, alive, ctlVars, rpc,
                 computing, best>>

\* Its send time is recorded once it is on its way.
RecordDelayReq ==
  /\ dpc = "record"
  /\ t3_delayReqSendTimeNs_' = delayReqSequenceId_
  /\ waitingForDelayResp_' = TRUE
  /\ dpc' = "sleep"
  /\ UNCHANGED <<masterVars, syncVars, delayReqSequenceId_, t4_delayRespReceiveTimestamp_,
                 lockVars, netVars, ctlVars, rpc, computing, best>>

DelayExits ==
  /\ dpc = "sleep" /\ ~running_
  /\ dpc' = "off"
  /\ UNCHANGED <<masterVars, syncVars, delayVars, lockVars, netVars, ctlVars, rpc, computing,
                 best>>

-----------------------------------------------------------------------------

Handle ==
  \/ \E sync \in Syncs :
       (\E isTwoStep \in BOOLEAN : HandleSync(sync, isTwoStep)) \/ HandleFollowUp(sync)
  \/ \E n \in requests : HandleDelayResp(n)
  \/ \E d \in Datasets : d.id \in alive /\ HandleAnnounce(d)

Next ==
  \/ Expire
  \/ \E m \in Masters : Die(m)
  \/ OpenEvent \/ OpenFails \/ Start \/ Stop \/ Joined
  \/ Handle \/ Ignored \/ SkipGeneral \/ CalculateOffsetAndDelay \/ CheckTimeout
  \/ ReceiveExits \/ ReceiveFails
  \/ DelayWake \/ DelaySkip \/ SendDelayReq \/ RecordDelayReq \/ DelayExits

\* The receive thread finishes every turn of its loop; nothing but a message
\* makes it begin one.  Time passes, so a grandmaster that is gone becomes stale.
Fairness ==
  /\ WF_vars(SkipGeneral \/ CalculateOffsetAndDelay \/ CheckTimeout)
  /\ WF_vars(currentMaster_.id \notin alive /\ Expire)

Spec == Init /\ [][Next]_vars /\ Fairness

-----------------------------------------------------------------------------
(* Properties *)

Stamps == Syncs \cup {NoStamp}

\* Every variable has its type.
PTPTypeOK ==
  /\ running_ \in BOOLEAN /\ hasMaster_ \in BOOLEAN /\ stale \in BOOLEAN
  /\ currentMaster_ \in Datasets \cup {NoDataset}
  /\ {t1_syncOriginTimestamp_, t2_receiveTimeNs_} \subseteq Stamps
  /\ lastSyncSequenceId_ \in {s.n : s \in Stamps}
  /\ waitingForFollowUp_ \in BOOLEAN /\ synced \in BOOLEAN
  /\ delayReqSequenceId_ \in 0..MaxRequests
  /\ t3_delayReqSendTimeNs_ \in 0..MaxRequests
  /\ t4_delayRespReceiveTimestamp_ \in 0..MaxRequests
  /\ waitingForDelayResp_ \in BOOLEAN
  /\ consecutiveGoodMeasurements_ \in 0..(2 * kLockThreshold) /\ locked_ \in BOOLEAN
  /\ rpc \in {"off", "select", "general", "check"} /\ computing \in BOOLEAN
  /\ dpc \in {"off", "sleep", "ask", "record"} /\ ctl \in {"idle", "opening", "join"}
  /\ alive \subseteq Masters

\* The t1 and t2 of a measurement are of Syncs with the same number: also when
\* Follow_Ups are lost, late or out of order, when the measurement is made for a
\* Delay_Resp, and after a restart, which does not clear the timestamps.
SyncNumbersMatch ==
  computing /\ haveSync => t1_syncOriginTimestamp_.n = t2_receiveTimeNs_.n

\* The t3 and t4 of a measurement are of one request, once this run of the slave has
\* recorded one.  The one exception is an answer that comes before its request is
\* recorded, and it is over with that: the next measurement is of one request again.
DelayNumbersMatch ==
  computing /\ haveDelay /\ t3_delayReqSendTimeNs_ > before
    => \/ t4_delayRespReceiveTimestamp_ = t3_delayReqSendTimeNs_
       \/ dpc = "record" /\ t4_delayRespReceiveTimestamp_ = delayReqSequenceId_

\* Before that, the two are those the run before left.
DelayLeftOver ==
  computing /\ haveDelay /\ t3_delayReqSendTimeNs_ =< before
    => t4_delayRespReceiveTimestamp_ =< before

\* While either thread is in its loop both sockets are open: stop() joins before it
\* closes, so no thread selects on a number the kernel has given to something else.
\* And none is left open by a start() that failed half way, or by stop().
SocketsHeld ==
  /\ rpc # "off" \/ dpc # "off" => sockets = {"event", "general"}
  /\ ~running_ /\ ctl = "idle" => sockets = {}

\* What the numbers matched by handleFollowUp() and handleDelayResp() give a
\* measurement, whatever was lost, repeated, late or left over from an earlier run:
\* a t1 and a t2 numbered alike, and a t3 and a t4 of one request but for an answer
\* that overtakes the record of its request.  It is made by a thread that holds its
\* sockets.  The senders of t1 and t2 may differ: see FollowUpMatches.
MeasuresTruly ==
  PTPTypeOK /\ SyncNumbersMatch /\ DelayNumbersMatch /\ DelayLeftOver /\ SocketsHeld

\* The slave claims lock only on as many good measurements as it takes, all made
\* since it last changed or lost its grandmaster, or was started: none is carried
\* over.  And never once stop() has returned.
LockIsEarned == locked_ => earned >= kLockThreshold /\ (running_ \/ ctl = "join")

\* No dataset heard since the slave last had no master is better than that of
\* the master it follows, in whatever order they came and however they changed.
BestOfHeard == hasMaster_ => currentMaster_ = best

\* What the slave says of its grandmaster: it is the best one heard, and the lock was
\* earned in the time it has been followed.  Of whose Syncs those measurements were
\* the handlers do not ask.
FollowsTruly == LockIsEarned /\ BestOfHeard

followsDead == running_ /\ rpc # "off" /\ hasMaster_ /\ currentMaster_.id \notin alive

\* As long as messages of any kind keep coming in, a grandmaster that has gone is
\* given up, by the announce timeout or for a better one.  (The timeout is looked at
\* only after a message: on a silent segment it never is.)
MasterLossNoticed == []<><<Handle \/ Ignored>>_vars => (followsDead ~> ~followsDead)

\* Refuted: the Follow_Up taken is that of the Sync waited for, which is what the
\* comment in handleFollowUp() asks of it.
FollowUpMatches == computing /\ haveSync => t1_syncOriginTimestamp_ = t2_receiveTimeNs_

\* The small instance: two grandmasters of the same quality, and the first of them
\* degraded; a number both use, and one that only the first does.
MCDatasets == {[quality |-> 1, id |-> 1], [quality |-> 1, id |-> 2], [quality |-> 2, id |-> 1]}
MCSyncs == {[from |-> 1, n |-> 1], [from |-> 1, n |-> 2], [from |-> 2, n |-> 2]}
=============================================================================
