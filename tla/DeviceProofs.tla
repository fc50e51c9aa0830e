---------------------------- MODULE DeviceProofs ----------------------------
(***************************************************************************)
(* What a device goes by, proved: the grandmaster it follows, and the      *)
(* settings its manager wrote.                                             *)
(*                                                                         *)
(* The slave, for any number of grandmasters, datasets, Syncs, requests    *)
(* and restarts: the numbers a measurement is matched by, and what the     *)
(* slave says of its grandmaster.                                          *)
(*                                                                         *)
(* The settings, for any files, edits, faults and restarts.  The app and   *)
(* the driver never compare anything, so the invariant (SettingsInv) keeps *)
(* the files apart: a file that is the app's is one both readers take      *)
(* whole (MineIsWhole), the app shows what it reads of it (ShowsTheFile),  *)
(* and the device was made of files of which those not touched since are   *)
(* still there (RunsWhatWasRead).  That the two then agree is a lemma      *)
(* about each pair of readers and about the two tables of profiles.        *)
(***************************************************************************)
EXTENDS PTPSlave, Settings, SequenceTheorems, WellFoundedInduction, TLAPS

(* The slave *)

\* The type invariant in two parts, the flags and the numbers.
FlagsTyped ==
  /\ running_ \in BOOLEAN /\ hasMaster_ \in BOOLEAN /\ stale \in BOOLEAN
  /\ currentMaster_ \in Datasets \cup {NoDataset}
  /\ waitingForFollowUp_ \in BOOLEAN /\ synced \in BOOLEAN /\ waitingForDelayResp_ \in BOOLEAN
  /\ locked_ \in BOOLEAN /\ computing \in BOOLEAN
  /\ rpc \in {"off", "select", "general", "check"}
  /\ dpc \in {"off", "sleep", "ask", "record"} /\ ctl \in {"idle", "opening", "join"}
  /\ alive \subseteq Masters

NumbersTyped ==
  /\ {t1_syncOriginTimestamp_, t2_receiveTimeNs_} \subseteq Stamps
  /\ lastSyncSequenceId_ \in {s.n : s \in Stamps}
  /\ delayReqSequenceId_ \in 0..MaxRequests
  /\ t3_delayReqSendTimeNs_ \in 0..MaxRequests
  /\ t4_delayRespReceiveTimestamp_ \in 0..MaxRequests
  /\ consecutiveGoodMeasurements_ \in 0..(2 * kLockThreshold)

\* The threads run between start() and the end of stop(), and a measurement is
\* pending only while the receive thread is in its loop.  The sockets open follow
\* from where the control thread is.
ThreadsRun ==
  /\ rpc # "off" \/ dpc # "off" => running_ \/ ctl = "join"
  /\ computing => rpc # "off"
  /\ running_ \/ ctl = "join" => sockets = {"event", "general"}
  /\ ctl # "idle" => ~running_
  /\ ctl = "opening" => sockets = {"event"}
  /\ ~running_ /\ ctl = "idle" => sockets = {}

\* What restarts leave behind: only a Sync of this run is waited for, asked about
\* or measured, and its t1, once known, has the number of the Sync that t2 is of.
SyncPaired ==
  /\ waitingForFollowUp_ \/ waitingForDelayResp_ \/ computing \/ dpc = "record" => synced
  /\ synced => lastSyncSequenceId_ = t2_receiveTimeNs_.n
  /\ synced /\ ~waitingForFollowUp_ => t1_syncOriginTimestamp_.n = t2_receiveTimeNs_.n

\* No timestamp is of a request later than the last one, an answer that is not
\* waited for any more is to the request recorded or to the one about to be, and
\* until a request of this run is recorded none is waited for or taken.
DelayOrdered ==
  /\ before \in 0..delayReqSequenceId_
  /\ requests \subseteq 1..delayReqSequenceId_
  /\ t3_delayReqSendTimeNs_ =< delayReqSequenceId_
  /\ t4_delayRespReceiveTimestamp_ =< delayReqSequenceId_
  /\ ~waitingForDelayResp_ /\ t3_delayReqSendTimeNs_ > before
       => \/ t4_delayRespReceiveTimestamp_ = t3_delayReqSendTimeNs_
          \/ dpc = "record" /\ t4_delayRespReceiveTimestamp_ = delayReqSequenceId_
  /\ waitingForDelayResp_ => t3_delayReqSendTimeNs_ > before
  /\ t3_delayReqSendTimeNs_ =< before => t4_delayRespReceiveTimestamp_ =< before
  /\ waitingForDelayResp_ /\ dpc # "record" /\ delayReqSequenceId_ \in requests
       => t3_delayReqSendTimeNs_ = delayReqSequenceId_
  /\ dpc = "record" => before < delayReqSequenceId_

\* The count the code locks on never runs ahead of the measurements made with
\* this grandmaster.
CountEarned ==
  /\ earned \in 0..kLockThreshold
  /\ earned < kLockThreshold => consecutiveGoodMeasurements_ =< earned

\* The history of what was heard starts over with the master.
HeardSinceNone ==
  IF hasMaster_ THEN best \in Datasets ELSE best = NoDataset

\* The inductive invariant.
SlaveInv ==
  /\ FlagsTyped /\ NumbersTyped /\ ThreadsRun /\ SyncPaired /\ DelayOrdered /\ CountEarned
  /\ HeardSinceNone
  /\ LockIsEarned /\ BestOfHeard

-----------------------------------------------------------------------------
(* The comparison of datasets *)

\* With nothing heard before, the dataset announced is the best one.
LEMMA FirstIsBest ==
  ASSUME NEW a \in Datasets
  PROVE  bestOf(NoDataset, a) = a
<1>1. a # NoDataset /\ a \in [quality : Nat, id : Nat]
  BY SlaveAssumption DEF NoDataset
<1>2. {NoDataset, a} \ {NoDataset} = {a}
  BY <1>1
<1>3. {d \in {a} : \A e \in {a} : d.quality =< e.quality} = {a}
  BY <1>1
<1>4. a.id =< a.id
  BY <1>1
<1>5. (CHOOSE d \in {a} : \A e \in {a} : d.id =< e.id) = a
  BY <1>4
<1> QED
  BY <1>2, <1>3, <1>5 DEF bestOf

\* isBetterMaster() decides which of two datasets is the best: the code's
\* comparison is total, and agrees with the definition that does not use it.
LEMMA BetterIsBest ==
  ASSUME NEW a \in Datasets, NEW b \in Datasets
  PROVE  bestOf(b, a) = IF isBetterMaster(a, b) THEN a ELSE b
<1> DEFINE top == {d \in {a, b} : \A e \in {a, b} : d.quality =< e.quality}
<1>1. /\ a # NoDataset /\ a \in [quality : Nat, id : Nat]
      /\ b # NoDataset /\ b \in [quality : Nat, id : Nat]
  BY SlaveAssumption DEF NoDataset
<1>2. {b, a} \ {NoDataset} = {a, b}
  BY <1>1
<1>3. bestOf(b, a) = CHOOSE d \in top : \A e \in top : d.id =< e.id
  BY <1>2 DEF bestOf
<1>4. CASE a.quality < b.quality
  <2>1. top = {a}
    BY <1>1, <1>4
  <2>2. (CHOOSE d \in {a} : \A e \in {a} : d.id =< e.id) = a
    BY <1>1
  <2> QED
    BY <1>3, <1>4, <2>1, <2>2 DEF isBetterMaster
<1>5. CASE b.quality < a.quality
  <2>1. top = {b}
    BY <1>1, <1>5
  <2>2. (CHOOSE d \in {b} : \A e \in {b} : d.id =< e.id) = b
    BY <1>1
  <2>3. ~isBetterMaster(a, b)
    BY <1>1, <1>5 DEF isBetterMaster
  <2> QED
    BY <1>3, <2>1, <2>2, <2>3
<1>6. CASE a.quality = b.quality
  <2>1. top = {a, b}
    BY <1>1, <1>6
  <2>2. CASE a.id < b.id
    <3>1. (CHOOSE d \in {a, b} : \A e \in {a, b} : d.id =< e.id) = a
      BY <1>1, <2>2
    <3> QED
      BY <1>3, <1>6, <2>1, <2>2, <3>1 DEF isBetterMaster
  <2>3. CASE ~(a.id < b.id)
    <3>1. \A d \in {a, b} : (\A e \in {a, b} : d.id =< e.id) => d = b
      BY <1>1, <1>6, <2>3
    <3>2. \A e \in {a, b} : b.id =< e.id
      BY <1>1, <2>3
    <3>3. (CHOOSE d \in {a, b} : \A e \in {a, b} : d.id =< e.id) = b
      BY <3>1, <3>2
    <3> QED
      BY <1>1, <1>3, <1>6, <2>1, <2>3, <3>3 DEF isBetterMaster
  <2> QED
    BY <2>2, <2>3
<1> QED
  BY <1>1, <1>4, <1>5, <1>6

-----------------------------------------------------------------------------
(* The invariant *)

\* The constants' bounds as the integers they are.
LEMMA Bounds ==
  /\ kLockThreshold \in Nat \ {0} /\ 2 * kLockThreshold \in Nat
  /\ MaxRequests \in Nat /\ MaxStops \in Nat
  BY SlaveAssumption

\* A slave that has not been started satisfies the invariant.
LEMMA SlaveInvInit == Init => SlaveInv
<1> SUFFICES ASSUME Init PROVE SlaveInv
  OBVIOUS
<1>1. FlagsTyped /\ NumbersTyped
  <2>1. FlagsTyped
    BY Bounds DEF Init, FlagsTyped
  <2>2. NumbersTyped
    BY Bounds DEF Init, NumbersTyped, Stamps, NoStamp
  <2> QED
    BY <2>1, <2>2
<1>2. ThreadsRun /\ SyncPaired /\ HeardSinceNone /\ LockIsEarned /\ BestOfHeard
  BY DEF Init, ThreadsRun, SyncPaired, HeardSinceNone, LockIsEarned, BestOfHeard
<1>3. DelayOrdered /\ CountEarned
  BY Bounds DEF Init, DelayOrdered, CountEarned
<1> QED
  BY <1>1, <1>2, <1>3 DEF SlaveInv

\* A step of the segment, of the control thread or of the receive thread's loop
\* keeps the invariant.
LEMMA ControlKeepsInv ==
  ASSUME SlaveInv,
         \/ Expire \/ (\E m \in Masters : Die(m))
         \/ OpenEvent \/ OpenFails \/ Start \/ Stop \/ Joined
         \/ Ignored \/ SkipGeneral \/ ReceiveExits \/ ReceiveFails
         \/ DelayWake \/ DelaySkip \/ DelayExits \/ UNCHANGED vars
  PROVE  SlaveInv'
<1> USE DEF SlaveInv, masterVars, syncVars, delayVars, lockVars, netVars, ctlVars
<1>1. CASE Expire
  BY <1>1 DEF Expire, FlagsTyped, NumbersTyped, ThreadsRun, SyncPaired, DelayOrdered, CountEarned,
      HeardSinceNone, LockIsEarned, BestOfHeard
<1>2. CASE \E m \in Masters : Die(m)
  BY <1>2 DEF Die, FlagsTyped, NumbersTyped, ThreadsRun, SyncPaired, DelayOrdered, CountEarned,
      HeardSinceNone, LockIsEarned, BestOfHeard
<1>3. CASE Start
  <2>1. FlagsTyped' /\ NumbersTyped'
    <3>1. FlagsTyped'
      BY <1>3, Bounds DEF Start, OpenGeneral, FlagsTyped
    <3>2. NumbersTyped'
      BY <1>3, Bounds DEF Start, OpenGeneral, NumbersTyped
    <3> QED
      BY <3>1, <3>2
  <2>2. ThreadsRun' /\ SyncPaired' /\ HeardSinceNone' /\ LockIsEarned' /\ BestOfHeard'
    BY <1>3 DEF Start, OpenGeneral, FlagsTyped, NumbersTyped, ThreadsRun, SyncPaired, HeardSinceNone, LockIsEarned,
        BestOfHeard
  <2>3. DelayOrdered' /\ CountEarned'
    BY <1>3, Bounds DEF Start, OpenGeneral, FlagsTyped, NumbersTyped, DelayOrdered, CountEarned
  <2> QED
    BY <2>1, <2>2, <2>3
<1>4. CASE Stop
  <2>1. FlagsTyped' /\ ThreadsRun' /\ SyncPaired' /\ HeardSinceNone' /\ LockIsEarned' /\ BestOfHeard'
    BY <1>4 DEF Stop, FlagsTyped, ThreadsRun, SyncPaired, HeardSinceNone, LockIsEarned,
        BestOfHeard
  <2>2. NumbersTyped' /\ DelayOrdered' /\ CountEarned'
    BY <1>4 DEF Stop, NumbersTyped, DelayOrdered, CountEarned
  <2> QED
    BY <2>1, <2>2
<1>5. CASE Joined
  <2>1. FlagsTyped' /\ ThreadsRun' /\ SyncPaired' /\ HeardSinceNone' /\ LockIsEarned' /\ BestOfHeard'
    BY <1>5 DEF Joined, FlagsTyped, ThreadsRun, SyncPaired, HeardSinceNone, LockIsEarned,
        BestOfHeard
  <2>2. NumbersTyped' /\ DelayOrdered' /\ CountEarned'
    BY <1>5 DEF Joined, NumbersTyped, DelayOrdered, CountEarned
  <2> QED
    BY <2>1, <2>2
<1>6. CASE Ignored
  BY <1>6 DEF Ignored, onEvent, onGeneral, FlagsTyped, NumbersTyped, ThreadsRun, SyncPaired, DelayOrdered,
      CountEarned, HeardSinceNone, LockIsEarned, BestOfHeard
<1>7. CASE SkipGeneral
  BY <1>7 DEF SkipGeneral, FlagsTyped, NumbersTyped, ThreadsRun, SyncPaired, DelayOrdered, CountEarned,
      HeardSinceNone, LockIsEarned, BestOfHeard
<1>8. CASE ReceiveExits \/ ReceiveFails
  <2>1. FlagsTyped' /\ ThreadsRun' /\ SyncPaired' /\ HeardSinceNone' /\ LockIsEarned' /\ BestOfHeard'
    BY <1>8 DEF ReceiveExits, ReceiveFails, FlagsTyped, ThreadsRun, SyncPaired, HeardSinceNone, LockIsEarned,
        BestOfHeard
  <2>2. NumbersTyped' /\ CountEarned'
    BY <1>8 DEF ReceiveExits, ReceiveFails, NumbersTyped, CountEarned
  <2>3. DelayOrdered'
    <3>1. UNCHANGED <<delayVars, requests, before>> /\ (dpc' = "record") = (dpc = "record")
      BY <1>8 DEF ReceiveExits, ReceiveFails
    <3> QED
      BY <3>1 DEF DelayOrdered
  <2> QED
    BY <2>1, <2>2, <2>3
<1>9. CASE DelayWake \/ DelaySkip \/ DelayExits
  <2>1. FlagsTyped' /\ ThreadsRun' /\ SyncPaired' /\ HeardSinceNone' /\ LockIsEarned' /\ BestOfHeard'
    BY <1>9 DEF DelayWake, DelaySkip, DelayExits, FlagsTyped, ThreadsRun, SyncPaired, HeardSinceNone, LockIsEarned,
        BestOfHeard
  <2>2. NumbersTyped' /\ CountEarned'
    BY <1>9 DEF DelayWake, DelaySkip, DelayExits, NumbersTyped, CountEarned
  <2>3. DelayOrdered'
    <3>1. UNCHANGED <<delayVars, requests, before>> /\ (dpc' = "record") = (dpc = "record")
      BY <1>9 DEF DelayWake, DelaySkip, DelayExits
    <3> QED
      BY <3>1 DEF DelayOrdered
  <2> QED
    BY <2>1, <2>2, <2>3
<1>10. CASE UNCHANGED vars
  BY <1>10 DEF vars, FlagsTyped, NumbersTyped, ThreadsRun, SyncPaired, DelayOrdered, CountEarned,
      HeardSinceNone, LockIsEarned, BestOfHeard
<1>11. CASE OpenEvent \/ OpenFails
  <2>1. FlagsTyped' /\ ThreadsRun' /\ SyncPaired' /\ HeardSinceNone' /\ LockIsEarned' /\ BestOfHeard'
    BY <1>11 DEF OpenEvent, OpenFails, FlagsTyped, ThreadsRun, SyncPaired, HeardSinceNone,
        LockIsEarned, BestOfHeard
  <2>2. NumbersTyped' /\ CountEarned'
    BY <1>11 DEF OpenEvent, OpenFails, NumbersTyped, CountEarned
  <2>3. DelayOrdered'
    <3>1. UNCHANGED <<delayVars, requests, before>> /\ (dpc' = "record") = (dpc = "record")
      BY <1>11 DEF OpenEvent, OpenFails
    <3> QED
      BY <3>1 DEF DelayOrdered
  <2> QED
    BY <2>1, <2>2, <2>3
<1> QED
  BY <1>1, <1>2, <1>3, <1>4, <1>5, <1>6, <1>7, <1>8, <1>9, <1>10, <1>11

\* A Sync, a Follow_Up or an answer keeps it: what is then measured has the numbers
\* of one Sync and of one request.
LEMMA MessageKeepsInv ==
  ASSUME SlaveInv,
         \/ \E sync \in Syncs : (\E isTwoStep \in BOOLEAN : HandleSync(sync, isTwoStep))
                                   \/ HandleFollowUp(sync)
         \/ \E n \in requests : HandleDelayResp(n)
  PROVE  SlaveInv'
<1> USE DEF SlaveInv, masterVars, syncVars, delayVars, lockVars, netVars, ctlVars,
            onEvent, onGeneral
<1>1. ASSUME NEW sync \in Syncs, NEW isTwoStep \in BOOLEAN, HandleSync(sync, isTwoStep)
      PROVE  SlaveInv'
  <2>1. FlagsTyped' /\ NumbersTyped'
    <3>1. FlagsTyped'
      BY <1>1, Bounds DEF HandleSync, FlagsTyped
    <3>2. NumbersTyped'
      BY <1>1, Bounds DEF HandleSync, NumbersTyped, Stamps
    <3> QED
      BY <3>1, <3>2
  <2>2. ThreadsRun' /\ HeardSinceNone' /\ LockIsEarned' /\ BestOfHeard'
    BY <1>1 DEF HandleSync, FlagsTyped, NumbersTyped, ThreadsRun, HeardSinceNone, LockIsEarned, BestOfHeard
  <2>3. SyncPaired'
    BY <1>1 DEF HandleSync, SyncPaired
  <2>4. DelayOrdered' /\ CountEarned'
    BY <1>1 DEF HandleSync, DelayOrdered, CountEarned
  <2> QED
    BY <2>1, <2>2, <2>3, <2>4
<1>2. ASSUME NEW sync \in Syncs, HandleFollowUp(sync)
      PROVE  SlaveInv'
  <2>1. FlagsTyped' /\ NumbersTyped'
    <3>1. FlagsTyped'
      BY <1>2, Bounds DEF HandleFollowUp, FlagsTyped
    <3>2. NumbersTyped'
      BY <1>2, Bounds DEF HandleFollowUp, NumbersTyped, Stamps
    <3> QED
      BY <3>1, <3>2
  <2>2. ThreadsRun' /\ HeardSinceNone' /\ LockIsEarned' /\ BestOfHeard'
    BY <1>2 DEF HandleFollowUp, FlagsTyped, NumbersTyped, ThreadsRun, HeardSinceNone, LockIsEarned,
        BestOfHeard
  <2>3. SyncPaired'
    BY <1>2 DEF HandleFollowUp, SyncPaired
  <2>4. DelayOrdered' /\ CountEarned'
    BY <1>2 DEF HandleFollowUp, DelayOrdered, CountEarned
  <2> QED
    BY <2>1, <2>2, <2>3, <2>4
<1>3. ASSUME NEW n \in requests, HandleDelayResp(n)
      PROVE  SlaveInv'
  <2>1. FlagsTyped' /\ NumbersTyped'
    <3>1. FlagsTyped'
      BY <1>3 DEF HandleDelayResp, FlagsTyped
    <3>2. NumbersTyped'
      BY <1>3, Bounds DEF HandleDelayResp, NumbersTyped
    <3> QED
      BY <3>1, <3>2
  <2>2. ThreadsRun' /\ HeardSinceNone' /\ LockIsEarned' /\ BestOfHeard'
    BY <1>3 DEF HandleDelayResp, FlagsTyped, NumbersTyped, ThreadsRun, HeardSinceNone, LockIsEarned,
        BestOfHeard
  <2>3. SyncPaired'
    BY <1>3 DEF HandleDelayResp, SyncPaired
  <2>4. DelayOrdered' /\ CountEarned'
    BY <1>3, Bounds DEF HandleDelayResp, DelayOrdered, CountEarned, NumbersTyped
  <2> QED
    BY <2>1, <2>2, <2>3, <2>4
<1> QED
  BY <1>1, <1>2, <1>3

\* An Announce keeps it: the master followed is the best of what was heard, and a
\* change of master starts the lock over.
LEMMA AnnounceKeepsInv ==
  ASSUME SlaveInv, NEW d \in Datasets, HandleAnnounce(d)
  PROVE  SlaveInv'
<1> USE DEF SlaveInv, masterVars, syncVars, delayVars, lockVars, netVars, ctlVars,
            onGeneral, HandleAnnounce
<1>1. FlagsTyped' /\ NumbersTyped'
  <2>1. FlagsTyped'
    BY Bounds DEF FlagsTyped, resetLock, refreshes
  <2>2. NumbersTyped'
    BY Bounds DEF NumbersTyped, resetLock
  <2> QED
    BY <2>1, <2>2
<1>2. ThreadsRun' /\ SyncPaired'
  BY DEF ThreadsRun, SyncPaired, FlagsTyped
<1>3. DelayOrdered'
  BY DEF DelayOrdered
<1>4. CountEarned' /\ LockIsEarned'
  BY Bounds DEF CountEarned, LockIsEarned, resetLock
<1>5. HeardSinceNone' /\ BestOfHeard'
  <2>1. CASE ~hasMaster_
    BY <2>1, FirstIsBest DEF HeardSinceNone, BestOfHeard
  <2>2. CASE hasMaster_
    <3>1. currentMaster_ \in Datasets /\ best = currentMaster_
      BY <2>2 DEF HeardSinceNone, BestOfHeard
    <3>2. best' = IF isBetterMaster(d, currentMaster_) THEN d ELSE currentMaster_
      BY <3>1, BetterIsBest
    <3> QED
      BY <2>2, <3>1, <3>2 DEF HeardSinceNone, BestOfHeard
  <2> QED
    BY <2>1, <2>2
<1> QED
  BY <1>1, <1>2, <1>3, <1>4, <1>5

\* So does a measurement: the count never passes what was earned.
LEMMA MeasurementKeepsInv ==
  ASSUME SlaveInv, CalculateOffsetAndDelay
  PROVE  SlaveInv'
<1> USE DEF SlaveInv, masterVars, syncVars, delayVars, lockVars, netVars, ctlVars,
            CalculateOffsetAndDelay
<1>1. ThreadsRun' /\ SyncPaired' /\ HeardSinceNone' /\ BestOfHeard' /\ DelayOrdered'
  BY DEF ThreadsRun, SyncPaired, HeardSinceNone, BestOfHeard, DelayOrdered
<1>2. running_' \/ ctl' = "join"
  BY DEF ThreadsRun
<1>3. /\ consecutiveGoodMeasurements_ \in 0..(2 * kLockThreshold)
      /\ consecutiveGoodMeasurements_' \in 0..(2 * kLockThreshold)
      /\ locked_' \in BOOLEAN
      /\ CountEarned'
      /\ locked_' => earned' >= kLockThreshold
  <2>1. ASSUME NEW good \in BOOLEAN, measured(good)
        PROVE  <1>3
    <3>1. PICK c \in Nat, e \in Nat, k \in Nat \ {0} :
            /\ c = consecutiveGoodMeasurements_ /\ e = earned /\ k = kLockThreshold
            /\ c =< 2 * k /\ e =< k /\ (e < k => c =< e)
      BY Bounds DEF NumbersTyped, CountEarned
    <3>2. CASE good
      <4>1. /\ consecutiveGoodMeasurements_' = IF c + 1 =< 2 * k THEN c + 1 ELSE 2 * k
            /\ earned' = IF e + 1 =< k THEN e + 1 ELSE k
            /\ locked_' = (consecutiveGoodMeasurements_' >= k)
        BY <2>1, <3>1, <3>2 DEF measured, min
      <4>2. locked_' \in BOOLEAN /\ (locked_' => consecutiveGoodMeasurements_' >= k)
        <5> DEFINE reached == consecutiveGoodMeasurements_' >= k
        <5>1. reached \in BOOLEAN
          BY <3>1, <4>1
        <5>2. locked_' = reached
          BY <4>1
        <5> HIDE DEF reached
        <5>3. locked_' \in BOOLEAN /\ (locked_' => reached)
          BY <5>1, <5>2
        <5> QED
          BY <5>3 DEF reached
      <4>3. /\ consecutiveGoodMeasurements_' \in 0..(2 * k) /\ earned' \in 0..k
            /\ earned' < k => consecutiveGoodMeasurements_' =< earned'
            /\ consecutiveGoodMeasurements_' >= k => earned' >= k
        BY <3>1, <4>1
      <4> QED
        BY <3>1, <4>2, <4>3 DEF CountEarned, NumbersTyped
    <3>3. CASE ~good
      <4>1. /\ consecutiveGoodMeasurements_' = IF 0 >= c - 1 THEN 0 ELSE c - 1
            /\ earned' = e
            /\ locked_' = (consecutiveGoodMeasurements_' >= k)
        BY <2>1, <3>1, <3>3 DEF measured, max
      <4>2. locked_' \in BOOLEAN /\ (locked_' => consecutiveGoodMeasurements_' >= k)
        <5> DEFINE reached == consecutiveGoodMeasurements_' >= k
        <5>1. reached \in BOOLEAN
          BY <3>1, <4>1
        <5>2. locked_' = reached
          BY <4>1
        <5> HIDE DEF reached
        <5>3. locked_' \in BOOLEAN /\ (locked_' => reached)
          BY <5>1, <5>2
        <5> QED
          BY <5>3 DEF reached
      <4>3. /\ consecutiveGoodMeasurements_' \in 0..(2 * k) /\ earned' \in 0..k
            /\ earned' < k => consecutiveGoodMeasurements_' =< earned'
            /\ consecutiveGoodMeasurements_' >= k => earned' >= k
        BY <3>1, <4>1
      <4> QED
        BY <3>1, <4>2, <4>3 DEF CountEarned, NumbersTyped
    <3> QED
      BY <3>2, <3>3
  <2>2. ASSUME UNCHANGED lockVars
        PROVE  <1>3
    BY <2>2 DEF CountEarned, NumbersTyped, FlagsTyped, LockIsEarned
  <2> QED
    BY <2>1, <2>2
<1>4. FlagsTyped' /\ NumbersTyped'
  <2>1. FlagsTyped'
    BY <1>3 DEF FlagsTyped
  <2>2. NumbersTyped'
    BY <1>3 DEF NumbersTyped
  <2> QED
    BY <2>1, <2>2
<1>5. LockIsEarned'
  BY <1>2, <1>3 DEF LockIsEarned
<1> QED
  BY <1>1, <1>3, <1>4, <1>5

\* The announce timeout forgets the master, what was heard and the lock together.
LEMMA TimeoutKeepsInv ==
  ASSUME SlaveInv, CheckTimeout
  PROVE  SlaveInv'
<1> USE DEF SlaveInv, masterVars, syncVars, delayVars, lockVars, netVars, ctlVars,
            CheckTimeout, resetLock
<1>1. FlagsTyped' /\ NumbersTyped'
  <2>1. FlagsTyped'
    BY Bounds DEF FlagsTyped
  <2>2. NumbersTyped'
    BY Bounds DEF NumbersTyped
  <2> QED
    BY <2>1, <2>2
<1>2. ThreadsRun' /\ SyncPaired'
  BY DEF ThreadsRun, SyncPaired
<1>3. DelayOrdered'
  BY DEF DelayOrdered
<1>4. CountEarned' /\ LockIsEarned'
  BY Bounds DEF CountEarned, LockIsEarned
<1>5. HeardSinceNone' /\ BestOfHeard'
  BY DEF HeardSinceNone, BestOfHeard
<1> QED
  BY <1>1, <1>2, <1>3, <1>4, <1>5

\* And a Delay_Req, sent and then recorded: a request is never recorded for a
\* number that has not been given out.
LEMMA RequestKeepsInv ==
  ASSUME SlaveInv, SendDelayReq \/ RecordDelayReq
  PROVE  SlaveInv'
<1> USE DEF SlaveInv, masterVars, syncVars, delayVars, lockVars, netVars, ctlVars
<1>1. CASE SendDelayReq
  <2>1. FlagsTyped' /\ NumbersTyped'
    <3>1. FlagsTyped'
      BY <1>1, Bounds DEF SendDelayReq, FlagsTyped
    <3>2. NumbersTyped'
      BY <1>1, Bounds DEF SendDelayReq, NumbersTyped
    <3> QED
      BY <3>1, <3>2
  <2>2. ThreadsRun' /\ SyncPaired' /\ HeardSinceNone' /\ LockIsEarned' /\ BestOfHeard'
    BY <1>1 DEF SendDelayReq, ThreadsRun, SyncPaired, HeardSinceNone, LockIsEarned,
        BestOfHeard
  <2>3. CountEarned'
    BY <1>1 DEF SendDelayReq, CountEarned
  <2>4. DelayOrdered'
    <3>1. PICK n \in Nat : n = delayReqSequenceId_ /\ delayReqSequenceId_' = n + 1
      BY <1>1, Bounds DEF SendDelayReq, NumbersTyped
    <3>2. requests' \subseteq requests \cup {n + 1}
      BY <1>1, <3>1 DEF SendDelayReq
    <3>3. requests' \subseteq 1..(n + 1)
      BY <3>1, <3>2 DEF DelayOrdered
    <3> QED
      BY <1>1, <3>1, <3>3, Bounds DEF SendDelayReq, DelayOrdered, NumbersTyped
  <2> QED
    BY <2>1, <2>2, <2>3, <2>4
<1>2. CASE RecordDelayReq
  <2>1. FlagsTyped' /\ NumbersTyped'
    <3>1. FlagsTyped'
      BY <1>2, Bounds DEF RecordDelayReq, FlagsTyped
    <3>2. NumbersTyped'
      BY <1>2, Bounds DEF RecordDelayReq, NumbersTyped
    <3> QED
      BY <3>1, <3>2
  <2>2. ThreadsRun' /\ SyncPaired' /\ HeardSinceNone' /\ LockIsEarned' /\ BestOfHeard'
    BY <1>2 DEF RecordDelayReq, ThreadsRun, SyncPaired, HeardSinceNone, LockIsEarned,
        BestOfHeard
  <2>3. CountEarned'
    BY <1>2 DEF RecordDelayReq, CountEarned
  <2>4. DelayOrdered'
    BY <1>2, Bounds DEF RecordDelayReq, DelayOrdered, NumbersTyped
  <2> QED
    BY <2>1, <2>2, <2>3, <2>4
<1> QED
  BY <1>1, <1>2

\* Every step keeps the invariant.
LEMMA SlaveInvStep == SlaveInv /\ [Next]_vars => SlaveInv'
<1> SUFFICES ASSUME SlaveInv, [Next]_vars PROVE SlaveInv'
  OBVIOUS
<1>1. CASE \/ Expire \/ (\E m \in Masters : Die(m))
           \/ OpenEvent \/ OpenFails \/ Start \/ Stop \/ Joined
           \/ Ignored \/ SkipGeneral \/ ReceiveExits \/ ReceiveFails
           \/ DelayWake \/ DelaySkip \/ DelayExits \/ UNCHANGED vars
  BY <1>1, ControlKeepsInv
<1>2. CASE Handle
  BY <1>2, MessageKeepsInv, AnnounceKeepsInv DEF Handle
<1>3. CASE CalculateOffsetAndDelay \/ CheckTimeout
  BY <1>3, MeasurementKeepsInv, TimeoutKeepsInv
<1>4. CASE SendDelayReq \/ RecordDelayReq
  BY <1>4, RequestKeepsInv
<1> QED
  BY <1>1, <1>2, <1>3, <1>4 DEF Next

\* ... so it holds throughout.
LEMMA SlaveInvHolds == Spec => []SlaveInv
  BY SlaveInvInit, SlaveInvStep, PTL DEF Spec

-----------------------------------------------------------------------------

\* The timestamps of a measurement are numbered alike, whatever was lost, repeated,
\* late or left over from an earlier run, but for an answer that overtakes the record
\* of its request; the threads hold their sockets.
THEOREM AlwaysMeasuresTruly == Spec => []MeasuresTruly
<1>1. SlaveInv => MeasuresTruly
  <2> SUFFICES ASSUME SlaveInv PROVE MeasuresTruly
    OBVIOUS
  <2>1. SyncNumbersMatch
    BY DEF SlaveInv, SyncPaired, SyncNumbersMatch, haveSync
  <2>2. DelayNumbersMatch /\ DelayLeftOver
    BY DEF SlaveInv, DelayOrdered, DelayNumbersMatch, DelayLeftOver, haveDelay
  <2>3. PTPTypeOK
    BY DEF SlaveInv, FlagsTyped, NumbersTyped, PTPTypeOK
  <2>4. SocketsHeld
    BY DEF SlaveInv, ThreadsRun, SocketsHeld
  <2> QED
    BY <2>1, <2>2, <2>3, <2>4 DEF MeasuresTruly
<1> QED
  BY <1>1, SlaveInvHolds, PTL

\* The slave follows the best grandmaster it has heard since it last had none, and
\* claims lock only on good measurements made since it follows it.
THEOREM AlwaysFollowsTruly == Spec => []FollowsTruly
<1>1. SlaveInv => FollowsTruly
  BY DEF SlaveInv, FollowsTruly
<1> QED
  BY <1>1, SlaveInvHolds, PTL

-----------------------------------------------------------------------------
(* The two tables of profiles *)

Ids == {"aes67", "ravenna", "st2110-30", "st2110-30-b", "dante", "dolby", "dolby-dac3202",
        "dolby-dma16", "dolby-dma24", "dolby-dma32", "dolby-cp850", "dolby-cp950",
        "dolby-cp950a", "dolby-lan"}

FlagFields == {"domainIsFixed", "useFixedMulticastWithPerFlowSourcePort", "usesLanAutoDetection"}
ValueFields ==
  {"kind", "fixedDomain", "recommendedPtpDomain", "direction", "maxTotalChannels", "ptpRole",
   "maxUnits", "recommendedMulticastAddress", "recommendedDscp", "allowedSampleRates",
   "allowedPtimesUs", "allowedEncodings", "requiredMulticastPrefix"}
OptionFields == FlagFields \cup ValueFields

\* What a row of either table says, the flags by the set of those that are on.
Says(o, id, domain, direction, channels, role, units, address, dscp, rates, ptimes, encodings,
     prefix, on) ==
  /\ OptionFields \subseteq DOMAIN o
  /\ o.kind = id /\ o.fixedDomain = 0 /\ o.recommendedPtpDomain = domain
  /\ o.direction = direction /\ o.maxTotalChannels = channels /\ o.ptpRole = role
  /\ o.maxUnits = units /\ o.recommendedMulticastAddress = address /\ o.recommendedDscp = dscp
  /\ o.allowedSampleRates = rates /\ o.allowedPtimesUs = ptimes
  /\ o.allowedEncodings = encodings /\ o.requiredMulticastPrefix = prefix
  /\ \A k \in FlagFields : o[k] \in BOOLEAN /\ (o[k] <=> k \in on)

\* What the app shows of a profile is what the driver has.
Agrees(o, p) == \A k \in DOMAIN o : o[k] = p[k]

LEMMA SayingAgrees ==
  ASSUME NEW o, NEW p, NEW id, NEW domain, NEW direction, NEW channels, NEW role, NEW units,
         NEW address, NEW dscp, NEW rates, NEW ptimes, NEW encodings, NEW prefix, NEW on,
         Says(o, id, domain, direction, channels, role, units, address, dscp, rates, ptimes,
              encodings, prefix, on),
         Says(p, id, domain, direction, channels, role, units, address, dscp, rates, ptimes,
              encodings, prefix, on),
         DOMAIN o = OptionFields
  PROVE  Agrees(o, p) /\ o.kind = id /\ p.kind = id /\ o.maxUnits = units
<1>1. \A k \in FlagFields : o[k] = p[k]
  BY DEF Says
<1>2. \A k \in ValueFields : o[k] = p[k]
  BY DEF Says, ValueFields
<1> QED BY <1>1, <1>2 DEF Says, Agrees, OptionFields

LEMMA OptionSays ==
  ASSUME NEW id, NEW domain, NEW dscp, NEW rates, NEW ptimes, NEW encodings, NEW prefix
  PROVE  LET o == option(id, domain, dscp, rates, ptimes, encodings, prefix)
         IN  /\ DOMAIN o = OptionFields
             /\ Says(o, id, domain, "any", 0, "any", 1, NoText, dscp, rates, ptimes, encodings,
                     prefix, {})
BY DEF option, Says, OptionFields, FlagFields, ValueFields

LEMMA AnySays ==
  Says(anyProfile, "aes67", -1, "any", 0, "any", 1, NoText, -1, {}, {}, {}, NoText, {})
BY DEF anyProfile, Says, OptionFields, FlagFields, ValueFields

LEMMA GenericSays ==
  /\ LET o == [option("aes67", -1, -1, {44100, 48000, 96000}, {1000}, {"L16", "L24"}, NoText) EXCEPT
                 !.domainIsFixed = TRUE]
     IN  /\ DOMAIN o = OptionFields
         /\ Says(o, "aes67", -1, "any", 0, "any", 1, NoText, -1, {44100, 48000, 96000}, {1000},
                 {"L16", "L24"}, NoText, {"domainIsFixed"})
  /\ LET o == [option("dante", -1, 46, {48000}, {1000}, {"L24"}, "239.69") EXCEPT
                 !.domainIsFixed = TRUE]
     IN  /\ DOMAIN o = OptionFields
         /\ Says(o, "dante", -1, "any", 0, "any", 1, NoText, 46, {48000}, {1000}, {"L24"},
                 "239.69", {"domainIsFixed"})
<1>1. ASSUME NEW o, NEW id, NEW dscp, NEW rates, NEW encodings, NEW prefix,
             DOMAIN o = OptionFields,
             Says(o, id, -1, "any", 0, "any", 1, NoText, dscp, rates, {1000}, encodings, prefix,
                  {})
      PROVE  /\ DOMAIN [o EXCEPT !.domainIsFixed = TRUE] = OptionFields
             /\ Says([o EXCEPT !.domainIsFixed = TRUE], id, -1, "any", 0, "any", 1, NoText, dscp,
                     rates, {1000}, encodings, prefix, {"domainIsFixed"})
  BY <1>1 DEF Says, OptionFields, FlagFields, ValueFields
<1> QED BY <1>1, OptionSays

LEMMA DolbyOptionSays ==
  ASSUME NEW id
  PROVE  /\ DOMAIN dolbyOption(id) = OptionFields
         /\ Says(dolbyOption(id), id, 109, "any", 0, "any", 1, "239.81.83.67", 46, {48000, 96000},
                 {1000}, {"L16", "L24"}, NoText, {"useFixedMulticastWithPerFlowSourcePort"})
<1> DEFINE base == option(id, 109, 46, {48000, 96000}, {1000}, {"L16", "L24"}, NoText)
<1>1. /\ DOMAIN base = OptionFields
      /\ Says(base, id, 109, "any", 0, "any", 1, NoText, 46, {48000, 96000}, {1000},
              {"L16", "L24"}, NoText, {})
  BY OptionSays
<1>2. dolbyOption(id) = [base EXCEPT !.recommendedMulticastAddress = "239.81.83.67",
                                     !.useFixedMulticastWithPerFlowSourcePort = TRUE]
  BY DEF dolbyOption
<1> HIDE DEF base
<1> QED BY <1>1, <1>2 DEF Says, OptionFields, FlagFields, ValueFields

LEMMA DolbyModelOptionSays ==
  ASSUME NEW id, NEW channels, NEW direction, NEW dscp
  PROVE  LET o == dolbyModelProfile(id, channels, direction, dscp)
         IN  /\ DOMAIN o = OptionFields
             /\ Says(o, id, 109, direction, channels,
                     IF direction = "transmitOnly" THEN "forcedMaster" ELSE "forcedSlave",
                     IF direction = "transmitOnly" THEN 3 ELSE 1, "239.81.83.67", dscp,
                     {48000, 96000}, {1000}, {"L16", "L24"}, NoText,
                     {"useFixedMulticastWithPerFlowSourcePort"})
BY DolbyOptionSays DEF dolbyModelProfile, Says, OptionFields, FlagFields, ValueFields

LEMMA DolbyLANOptionSays ==
  /\ DOMAIN dolbyLANProfile = OptionFields
  /\ Says(dolbyLANProfile, "dolby-lan", 109, "any", 0, "any", 3, "239.81.83.67", 46,
          {48000, 96000}, {1000}, {"L16", "L24"}, NoText,
          {"useFixedMulticastWithPerFlowSourcePort", "usesLanAutoDetection"})
BY DolbyOptionSays DEF dolbyLANProfile, Says, OptionFields, FlagFields, ValueFields

LEMMA GenericProfilesSay ==
  /\ Says(makeAES67Profile, "aes67", -1, "any", 0, "any", 1, NoText, -1, {44100, 48000, 96000},
          {1000}, {"L16", "L24"}, NoText, {"domainIsFixed"})
  /\ Says(makeRavennaProfile, "ravenna", 0, "any", 0, "any", 1, NoText, 46,
          {44100, 48000, 88200, 96000, 176400, 192000, 352800, 384000}, {}, {"L16", "L24"},
          NoText, {})
  /\ Says(makeDanteProfile, "dante", -1, "any", 0, "any", 1, NoText, 46, {48000}, {1000},
          {"L24"}, "239.69", {"domainIsFixed"})
<1>1. Says(makeAES67Profile, "aes67", -1, "any", 0, "any", 1, NoText, -1, {44100, 48000, 96000},
           {1000}, {"L16", "L24"}, NoText, {"domainIsFixed"})
  BY AnySays DEF makeAES67Profile, Says, OptionFields, FlagFields, ValueFields
<1>2. Says(makeRavennaProfile, "ravenna", 0, "any", 0, "any", 1, NoText, 46,
           {44100, 48000, 88200, 96000, 176400, 192000, 352800, 384000}, {}, {"L16", "L24"},
           NoText, {})
  BY AnySays DEF makeRavennaProfile, Says, OptionFields, FlagFields, ValueFields
<1>3. Says(makeDanteProfile, "dante", -1, "any", 0, "any", 1, NoText, 46, {48000}, {1000},
           {"L24"}, "239.69", {"domainIsFixed"})
  BY AnySays DEF makeDanteProfile, Says, OptionFields, FlagFields, ValueFields
<1> QED BY <1>1, <1>2, <1>3

LEMMA St2110Says ==
  ASSUME NEW kind, NEW ptimeUs
  PROVE  Says(makeSt2110Profile(kind, ptimeUs), kind, -1, "any", 0, "any", 1, NoText, -1, {48000},
              {ptimeUs}, {"L16", "L24"}, NoText, {})
BY AnySays DEF makeSt2110Profile, Says, OptionFields, FlagFields, ValueFields

LEMMA DolbySays ==
  Says(makeDolbyProfile, "dolby", 109, "any", 0, "any", 1, "239.81.83.67", 46, {48000, 96000},
       {1000}, {"L16", "L24"}, NoText, {"useFixedMulticastWithPerFlowSourcePort"})
BY AnySays DEF makeDolbyProfile, Says, OptionFields, FlagFields, ValueFields

LEMMA DolbyModelSays ==
  ASSUME NEW kind, NEW channels, NEW direction, NEW dscp
  PROVE  Says(makeDolbyModelProfile(kind, channels, direction, dscp), kind, 109, direction,
              channels, IF direction = "transmitOnly" THEN "forcedMaster" ELSE "forcedSlave",
              IF direction = "transmitOnly" THEN 3 ELSE 1, "239.81.83.67", dscp,
              {48000, 96000}, {1000}, {"L16", "L24"}, NoText,
              {"useFixedMulticastWithPerFlowSourcePort"})
BY DolbySays DEF makeDolbyModelProfile, Says, OptionFields, FlagFields, ValueFields

dolbyLAN ==
  [makeDolbyProfile EXCEPT !.kind = "dolby-lan", !.maxUnits = 3, !.usesLanAutoDetection = TRUE]

LEMMA DolbyLANSays ==
  Says(dolbyLAN, "dolby-lan", 109, "any", 0, "any", 3, "239.81.83.67", 46, {48000, 96000},
       {1000}, {"L16", "L24"}, NoText,
       {"useFixedMulticastWithPerFlowSourcePort", "usesLanAutoDetection"})
BY DolbySays DEF dolbyLAN, Says, OptionFields, FlagFields, ValueFields

\* The rows by their ids.
optionRow(id) ==
  CASE id = "aes67" -> [option("aes67", -1, -1, {44100, 48000, 96000}, {1000}, {"L16", "L24"}, NoText)
               EXCEPT !.domainIsFixed = TRUE]
    [] id = "ravenna" -> option("ravenna", 0, 46,
                    {44100, 48000, 88200, 96000, 176400, 192000, 352800, 384000}, {},
                    {"L16", "L24"}, NoText)
    [] id = "st2110-30" -> option("st2110-30", -1, -1, {48000}, {1000}, {"L16", "L24"}, NoText)
    [] id = "st2110-30-b" -> option("st2110-30-b", -1, -1, {48000}, {125}, {"L16", "L24"}, NoText)
    [] id = "dante" -> [option("dante", -1, 46, {48000}, {1000}, {"L24"}, "239.69") EXCEPT
               !.domainIsFixed = TRUE]
    [] id = "dolby" -> dolbyOption("dolby")
    [] id = "dolby-dac3202" -> dolbyModelProfile("dolby-dac3202", 32, "transmitOnly", 46)
    [] id = "dolby-dma16" -> dolbyModelProfile("dolby-dma16", 16, "transmitOnly", -1)
    [] id = "dolby-dma24" -> dolbyModelProfile("dolby-dma24", 24, "transmitOnly", -1)
    [] id = "dolby-dma32" -> dolbyModelProfile("dolby-dma32", 32, "transmitOnly", -1)
    [] id = "dolby-cp850" -> dolbyModelProfile("dolby-cp850", 64, "receiveOnly", 46)
    [] id = "dolby-cp950" -> dolbyModelProfile("dolby-cp950", 16, "receiveOnly", 46)
    [] id = "dolby-cp950a" -> dolbyModelProfile("dolby-cp950a", 64, "receiveOnly", 46)
    [] id = "dolby-lan" -> dolbyLANProfile
profileRow(id) ==
  CASE id = "aes67" -> makeAES67Profile
    [] id = "ravenna" -> makeRavennaProfile
    [] id = "st2110-30" -> makeSt2110Profile("st2110-30", 1000)
    [] id = "st2110-30-b" -> makeSt2110Profile("st2110-30-b", 125)
    [] id = "dante" -> makeDanteProfile
    [] id = "dolby" -> makeDolbyProfile
    [] id = "dolby-dac3202" -> makeDolbyModelProfile("dolby-dac3202", 32, "transmitOnly", 46)
    [] id = "dolby-dma16" -> makeDolbyModelProfile("dolby-dma16", 16, "transmitOnly", -1)
    [] id = "dolby-dma24" -> makeDolbyModelProfile("dolby-dma24", 24, "transmitOnly", -1)
    [] id = "dolby-dma32" -> makeDolbyModelProfile("dolby-dma32", 32, "transmitOnly", -1)
    [] id = "dolby-cp850" -> makeDolbyModelProfile("dolby-cp850", 64, "receiveOnly", 46)
    [] id = "dolby-cp950" -> makeDolbyModelProfile("dolby-cp950", 16, "receiveOnly", 46)
    [] id = "dolby-cp950a" -> makeDolbyModelProfile("dolby-cp950a", 64, "receiveOnly", 46)
    [] id = "dolby-lan" -> dolbyLAN

LEMMA RowsOfIds ==
  ASSUME NEW id \in Ids
  PROVE  /\ DOMAIN optionRow(id) = OptionFields
         /\ Agrees(optionRow(id), profileRow(id))
         /\ optionRow(id).kind = id /\ profileRow(id).kind = id
         /\ optionRow(id).maxUnits \in {1, 3}
<1>1. CASE id = "aes67"
  BY <1>1, GenericSays, GenericProfilesSay, SayingAgrees DEF optionRow, profileRow
<1>2. CASE id = "ravenna"
  BY <1>2, OptionSays, GenericProfilesSay, SayingAgrees DEF optionRow, profileRow
<1>3. CASE id = "st2110-30"
  BY <1>3, OptionSays, St2110Says, SayingAgrees DEF optionRow, profileRow
<1>4. CASE id = "st2110-30-b"
  BY <1>4, OptionSays, St2110Says, SayingAgrees DEF optionRow, profileRow
<1>5. CASE id = "dante"
  BY <1>5, GenericSays, GenericProfilesSay, SayingAgrees DEF optionRow, profileRow
<1>6. CASE id = "dolby"
  BY <1>6, DolbyOptionSays, DolbySays, SayingAgrees DEF optionRow, profileRow
<1>7. CASE id = "dolby-dac3202"
  BY <1>7, DolbyModelOptionSays, DolbyModelSays, SayingAgrees DEF optionRow, profileRow
<1>8. CASE id = "dolby-dma16"
  BY <1>8, DolbyModelOptionSays, DolbyModelSays, SayingAgrees DEF optionRow, profileRow
<1>9. CASE id = "dolby-dma24"
  BY <1>9, DolbyModelOptionSays, DolbyModelSays, SayingAgrees DEF optionRow, profileRow
<1>10. CASE id = "dolby-dma32"
  BY <1>10, DolbyModelOptionSays, DolbyModelSays, SayingAgrees DEF optionRow, profileRow
<1>11. CASE id = "dolby-cp850"
  BY <1>11, DolbyModelOptionSays, DolbyModelSays, SayingAgrees DEF optionRow, profileRow
<1>12. CASE id = "dolby-cp950"
  BY <1>12, DolbyModelOptionSays, DolbyModelSays, SayingAgrees DEF optionRow, profileRow
<1>13. CASE id = "dolby-cp950a"
  BY <1>13, DolbyModelOptionSays, DolbyModelSays, SayingAgrees DEF optionRow, profileRow
<1>14. CASE id = "dolby-lan"
  BY <1>14, DolbyLANOptionSays, DolbyLANSays, SayingAgrees DEF optionRow, profileRow
<1> QED BY <1>1, <1>2, <1>3, <1>4, <1>5, <1>6, <1>7, <1>8, <1>9, <1>10, <1>11, <1>12, <1>13, <1>14 DEF Ids

LEMMA TablesAre ==
  /\ compatibilityProfiles = {optionRow(id) : id \in Ids}
  /\ allProfiles = {profileRow(id) : id \in Ids}
<1>1. compatibilityProfiles = {optionRow(id) : id \in Ids}
  BY DEF compatibilityProfiles, compatibilityProfilesGeneric, dolbyModelProfiles, optionRow, Ids
<1>2. allProfiles = {profileRow(id) : id \in Ids}
  BY DEF allProfiles, profileRow, Ids, dolbyLAN
<1> QED BY <1>1, <1>2

LEMMA TablesAgree ==
  /\ kinds = Ids /\ {p.kind : p \in compatibilityProfiles} = Ids
  /\ \A id \in Ids : /\ optionFor(id) = optionRow(id) /\ forKind(id) = profileRow(id)
                     /\ DOMAIN optionFor(id) = OptionFields
                     /\ Agrees(optionFor(id), forKind(id))
                     /\ forKind(id).kind = id /\ forKind(id).maxUnits \in {1, 3}
<1>1. kinds = Ids /\ {p.kind : p \in compatibilityProfiles} = Ids
  BY RowsOfIds, TablesAre DEF kinds
<1>2. ASSUME NEW id \in Ids PROVE forKind(id) = profileRow(id)
  BY RowsOfIds, TablesAre DEF forKind
<1>3. ASSUME NEW id \in Ids PROVE optionFor(id) = optionRow(id)
  <2>1. \E p \in compatibilityProfiles : p.kind = id
    BY RowsOfIds, TablesAre
  <2>2. \A o \in compatibilityProfiles : o.kind = id => o = optionRow(id)
    BY RowsOfIds, TablesAre
  <2> QED BY <2>1, <2>2 DEF optionFor
<1>4. ASSUME NEW id \in Ids PROVE forKind(id).maxUnits = optionFor(id).maxUnits
  BY <1>2, <1>3, RowsOfIds DEF Agrees, OptionFields, ValueFields
<1> QED BY <1>1, <1>2, <1>3, <1>4, RowsOfIds

-----------------------------------------------------------------------------
(* Readers, totals and clamps *)

LEMMA MinOfTwo ==
  ASSUME NEW a \in Int, NEW b \in Int
  PROVE  Min({a, b}) = IF a =< b THEN a ELSE b
BY DEF Min

LEMMA MaxOfTwo ==
  ASSUME NEW a \in Int, NEW b \in Int
  PROVE  Max({a, b}) = IF a >= b THEN a ELSE b
BY DEF Max

LEMMA AllowedAre ==
  /\ maxChannels = 128 /\ kChannelGroupSize = 8 /\ 128 \in allowedChannelCounts
  /\ \A n \in allowedChannelCounts : n \in 8 .. 128
  /\ \A n \in allowedChannelCounts : n + 8 =< 128 => n + 8 \in allowedChannelCounts
<1>1. allowedChannelCounts = {8 * n : n \in 1 .. 16}
  <2>1. 128 \div 8 = 16
    OBVIOUS
  <2> QED BY <2>1 DEF allowedChannelCounts, maxChannels, kChannelGroupSize
<1>2. ASSUME NEW n \in 1 .. 16, 8 * n + 8 =< 128 PROVE 8 * n + 8 \in {8 * k : k \in 1 .. 16}
  <2>1. n + 1 \in 1 .. 16 /\ 8 * n + 8 = 8 * (n + 1)
    BY <1>2
  <2> QED BY <2>1
<1>3. 128 = 8 * 16
  OBVIOUS
<1> QED BY <1>1, <1>2, <1>3 DEF maxChannels, kChannelGroupSize

LEMMA TotalIsAllowed ==
  ASSUME NEW s, s.count \in allowedChannelCounts, s.aux \in BOOLEAN, s.aux => auxFits(s.count)
  PROVE  totalChannelCount(s) \in allowedChannelCounts
<1>1. s.count \in Int /\ s.count =< 128 /\ maxChannels = 128 /\ kChannelGroupSize = 8
  BY AllowedAre
<1>2. CASE s.aux
  <2>1. s.count + 8 =< 128 /\ s.count + 8 \in Int
    BY <1>1, <1>2 DEF auxFits
  <2>2. totalChannelCount(s) = Min({s.count + 8, 128})
    BY <1>1, <1>2 DEF totalChannelCount
  <2>3. Min({s.count + 8, 128}) = s.count + 8
    BY <2>1, MinOfTwo
  <2> QED BY <2>1, <2>2, <2>3, AllowedAre
<1>3. CASE ~s.aux
  <2>1. s.count + 0 = s.count
    BY <1>1
  <2>2. totalChannelCount(s) = Min({s.count, 128})
    BY <1>1, <1>3, <2>1 DEF totalChannelCount
  <2>3. Min({s.count, 128}) = s.count
    BY <1>1, MinOfTwo
  <2> QED BY <2>2, <2>3
<1> QED BY <1>2, <1>3

\* The numbers of the settings are far below the limits of either program.
LEMMA Words ==
  /\ Word \in Nat /\ Long \in Nat /\ 9600 < Word /\ Word =< Long
  /\ kMaxSamples \in Nat /\ 2 * kMaxSamples < Word
BY SettingsAssumption DEF kMaxSamples

LEMMA SmallIsWhole ==
  ASSUME NEW n \in Nat, 2 * n < Word
  PROVE  n % Word = n /\ n \in SwiftInts
<1>1. 0 =< n /\ n < Word /\ Word > 0
  BY Words
<1>2. n % Word = n
  BY <1>1, Words
<1>3. n \in SwiftInts
  <2>1. n \in Int /\ -Long =< 2 * n /\ 2 * n < Long
    BY Words
  <2> QED BY <2>1 DEF SwiftInts, signed
<1> QED BY <1>2, <1>3

LEMMA FieldTyped ==
  ASSUME NEW o, NEW sizes, readable(o, sizes)
  PROVE  /\ field(o, "rxChannelCount", 128) \in Int /\ field(o, "txChannelCount", 128) \in Int
         /\ field(o, "rxAux", FALSE) \in BOOLEAN /\ field(o, "txAux", FALSE) \in BOOLEAN
         /\ field(o, "unitIndex", 1) \in Int /\ field(o, "playoutDelaySamples", 0) \in Int
         /\ field(o, "chainUnitChannels", <<>>) \in Seq(sizes)
         /\ field(o, "masterCapable", FALSE) \in BOOLEAN
         /\ field(o, "ptpEnabled", FALSE) \in BOOLEAN
         /\ field(o, "requireLock", FALSE) \in BOOLEAN
         /\ field(o, "priority1", 128) \in Int /\ field(o, "syncIntervalMs", 125) \in Int
         /\ field(o, "active", TRUE) \in BOOLEAN /\ field(o, "runEveryRoute", FALSE) \in BOOLEAN
<1>1. /\ field(o, "rxChannelCount", 128) \in Int /\ field(o, "txChannelCount", 128) \in Int
      /\ field(o, "unitIndex", 1) \in Int /\ field(o, "playoutDelaySamples", 0) \in Int
      /\ field(o, "priority1", 128) \in Int /\ field(o, "syncIntervalMs", 125) \in Int
  BY DEF field, readable
<1>2. field(o, "chainUnitChannels", <<>>) \in Seq(sizes)
  BY DEF field, readable
<1>3. ASSUME NEW k \in {"rxAux", "txAux", "masterCapable", "ptpEnabled", "requireLock", "active",
                        "runEveryRoute"}
      PROVE  IF k \in DOMAIN o THEN o[k] \in BOOLEAN ELSE TRUE
  BY <1>3 DEF readable
<1>4. /\ field(o, "masterCapable", FALSE) \in BOOLEAN
      /\ field(o, "ptpEnabled", FALSE) \in BOOLEAN
      /\ field(o, "requireLock", FALSE) \in BOOLEAN
      /\ field(o, "rxAux", FALSE) \in BOOLEAN /\ field(o, "txAux", FALSE) \in BOOLEAN
      /\ field(o, "active", TRUE) \in BOOLEAN /\ field(o, "runEveryRoute", FALSE) \in BOOLEAN
  BY <1>3 DEF field
<1> QED BY <1>1, <1>2, <1>4

LEMMA DriverChannels ==
  ASSUME NEW o, NEW sizes, readable(o, sizes)
  PROVE  /\ totalChannelCount(loadChannels(o).rx) \in allowedChannelCounts
         /\ totalChannelCount(loadChannels(o).tx) \in allowedChannelCounts
<1>1. CASE channelsAreValid(o)
  <2> DEFINE c == parsedChannels(o)
  <2>1. c.rx.aux \in BOOLEAN /\ c.tx.aux \in BOOLEAN
    BY FieldTyped DEF parsedChannels, selection
  <2>2. loadChannels(o) = c /\ selectionIsValid(c.rx) /\ selectionIsValid(c.tx)
    BY <1>1 DEF loadChannels, channelsAreValid
  <2> HIDE DEF c
  <2> QED BY <2>1, <2>2, TotalIsAllowed DEF selectionIsValid
<1>2. CASE ~channelsAreValid(o)
  <2> DEFINE s == selection(128, FALSE)
  <2>1. loadChannels(o) = [rx |-> s, tx |-> s]
    BY <1>2 DEF loadChannels
  <2>2. s.count \in allowedChannelCounts /\ s.aux \in BOOLEAN /\ ~s.aux
    BY AllowedAre DEF selection
  <2> HIDE DEF s
  <2> QED BY <2>1, <2>2, TotalIsAllowed
<1> QED BY <1>1, <1>2

\* A file the driver takes as it is, the app reads alike.
LEMMA CountsReadAlike ==
  ASSUME NEW o, NEW k, k \in DOMAIN o => o[k] \in Int,
         extractUInt32Field(o, k, 128) \in allowedChannelCounts
  PROVE  (IF field(o, k, 128) \in allowedChannelCounts THEN field(o, k, 128) ELSE 128)
           = extractUInt32Field(o, k, 128)
<1>1. \A n \in allowedChannelCounts : n \in 8 .. 128
  BY AllowedAre
<1>2. CASE k \in DOMAIN o /\ o[k] \in allowedChannelCounts
  <2>1. o[k] >= 0 /\ o[k] < Word
    BY <1>1, <1>2, Words
  <2> QED BY <1>2, <2>1 DEF extractUInt32Field, unsignedAt, field
<1>3. CASE k \in DOMAIN o /\ o[k] \notin allowedChannelCounts
  BY <1>3 DEF extractUInt32Field, field
<1>4. CASE k \notin DOMAIN o
  BY <1>4 DEF extractUInt32Field, unsignedAt, field
<1> QED BY <1>2, <1>3, <1>4

LEMMA ChannelsReadAlike ==
  ASSUME NEW o, NEW sizes, readable(o, sizes), channelsAreValid(o)
  PROVE  loadDeviceChannelSettings(o) = loadChannels(o)
<1> DEFINE rx == extractUInt32Field(o, "rxChannelCount", 128)
           tx == extractUInt32Field(o, "txChannelCount", 128)
           rxAux == field(o, "rxAux", FALSE)
           txAux == field(o, "txAux", FALSE)
<1>1. /\ rx \in allowedChannelCounts /\ tx \in allowedChannelCounts
      /\ (rxAux => auxFits(rx)) /\ (txAux => auxFits(tx))
  BY DEF channelsAreValid, parsedChannels, selectionIsValid, selection
<1>2. rxAux \in BOOLEAN /\ txAux \in BOOLEAN
  BY FieldTyped
<1>3. loadChannels(o) = [rx |-> selection(rx, rxAux), tx |-> selection(tx, txAux)]
  BY DEF loadChannels, parsedChannels
<1>4. loadDeviceChannelSettings(o) =
        [rx |-> selection(rx, rxAux /\ auxFits(rx)), tx |-> selection(tx, txAux /\ auxFits(tx))]
  <2>1. /\ "rxChannelCount" \in DOMAIN o => o["rxChannelCount"] \in Int
        /\ "txChannelCount" \in DOMAIN o => o["txChannelCount"] \in Int
    BY DEF readable
  <2>2. /\ (IF field(o, "rxChannelCount", 128) \in allowedChannelCounts
            THEN field(o, "rxChannelCount", 128) ELSE 128) = rx
        /\ (IF field(o, "txChannelCount", 128) \in allowedChannelCounts
            THEN field(o, "txChannelCount", 128) ELSE 128) = tx
    BY <1>1, <2>1, CountsReadAlike
  <2> HIDE DEF rx, tx
  <2> QED BY <2>2 DEF loadDeviceChannelSettings
<1> HIDE DEF rx, tx, rxAux, txAux
<1>5. (rxAux /\ auxFits(rx)) = rxAux /\ (txAux /\ auxFits(tx)) = txAux
  BY <1>1, <1>2
<1> QED BY <1>3, <1>4, <1>5 DEF selection

\* The first unit has nothing before it, and no unit more than two of at most sixteen flows.
LEMMA FirstUnit ==
  ASSUME NEW chain, NEW fallback, NEW unit \in Int, unit =< 1
  PROVE  flowOffsetForUnit(chain, fallback, unit) = 0
<1>1. ~(1 < unit) /\ ~(2 < unit)
  OBVIOUS
<1>2. flowOffsetForUnit(chain, fallback, unit) = (0 + 0) % Word
  BY <1>1 DEF flowOffsetForUnit
<1>3. 0 + 0 = 0 /\ 0 % Word = 0
  BY Words, SmallIsWhole
<1> QED BY <1>2, <1>3

\* Of sizes that units have, 32 bits are enough.
LEMMA OffsetsAgree ==
  ASSUME NEW chain, NEW fallback \in 0 .. 128, NEW unit \in Int,
         \A i \in DOMAIN chain : chain[i] \in 0 .. 128
  PROVE  /\ flowOffsetForUnit(chain, fallback, unit) = txSourcePortOffset(chain, fallback, unit)
         /\ flowOffsetForUnit(chain, fallback, unit) =< 32
<1> DEFINE wide(i) == IF i < unit THEN (channelsOf(chain, fallback, i) + 7) \div 8 ELSE 0
           narrow(i) ==
             IF i < unit THEN ((channelsOf(chain, fallback, i) + 7) % Word) \div 8 ELSE 0
<1>1. ASSUME NEW c \in 0 .. 128
      PROVE  (c + 7) \div 8 \in 0 .. 16 /\ (c + 7) % Word = c + 7
  <2>1. (c + 7) \div 8 \in 0 .. 16
    OBVIOUS
  <2>2. c + 7 \in Nat /\ 2 * (c + 7) < Word
    BY Words
  <2> QED BY <2>1, <2>2, SmallIsWhole
<1>2. ASSUME NEW i \in {1, 2} PROVE wide(i) \in 0 .. 16 /\ narrow(i) = wide(i)
  <2> DEFINE c == channelsOf(chain, fallback, i)
  <2>1. c \in 0 .. 128
    BY DEF channelsOf
  <2> HIDE DEF c
  <2>2. (c + 7) \div 8 \in 0 .. 16 /\ (c + 7) % Word = c + 7
    BY <1>1, <2>1
  <2>3. (IF i < unit THEN (c + 7) \div 8 ELSE 0) \in 0 .. 16
    BY <2>2
  <2>4. (IF i < unit THEN ((c + 7) % Word) \div 8 ELSE 0)
          = (IF i < unit THEN (c + 7) \div 8 ELSE 0)
    BY <2>2
  <2> QED BY <2>3, <2>4 DEF c
<1>3. /\ flowOffsetForUnit(chain, fallback, unit) = (narrow(1) + narrow(2)) % Word
      /\ txSourcePortOffset(chain, fallback, unit) = wide(1) + wide(2)
  BY DEF flowOffsetForUnit, txSourcePortOffset
<1>4. wide(1) \in 0 .. 16 /\ wide(2) \in 0 .. 16 /\ narrow(1) = wide(1) /\ narrow(2) = wide(2)
  BY <1>2
<1> HIDE DEF wide, narrow
<1>5. /\ wide(1) + wide(2) \in Nat /\ wide(1) + wide(2) =< 32
      /\ 2 * (wide(1) + wide(2)) < Word
  BY <1>4, Words
<1>6. (wide(1) + wide(2)) % Word = wide(1) + wide(2)
  BY <1>5, SmallIsWhole
<1> QED BY <1>3, <1>4, <1>5, <1>6

\* The driver's copy of a chain that is in range, and of one whose minus signs it skips.
LEMMA DigitsAre ==
  ASSUME NEW chain, \A i \in DOMAIN chain : chain[i] \in -128 .. 128
  PROVE  /\ DOMAIN digits(chain) = DOMAIN chain
         /\ \A i \in DOMAIN chain : /\ digits(chain)[i] \in 0 .. 128
                                    /\ chain[i] >= 0 => digits(chain)[i] = chain[i]
<1>1. DOMAIN digits(chain) = DOMAIN chain
  BY DEF digits
<1>2. ASSUME NEW i \in DOMAIN chain
      PROVE  digits(chain)[i] \in 0 .. 128 /\ (chain[i] >= 0 => digits(chain)[i] = chain[i])
  <2>1. magnitude(chain[i]) \in 0 .. 128 /\ (chain[i] >= 0 => magnitude(chain[i]) = chain[i])
    BY <1>2 DEF magnitude
  <2>2. magnitude(chain[i]) % Word = magnitude(chain[i])
    BY <2>1, Words, SmallIsWhole
  <2>3. digits(chain)[i] = magnitude(chain[i]) % Word
    BY <1>2 DEF digits
  <2> QED BY <2>1, <2>2, <2>3
<1> QED BY <1>1, <1>2

\* A unit an app wrote is read alike, its ports as long as its sizes are sizes.
LEMMA UnitsReadAlike ==
  ASSUME NEW o, NEW sizes, readable(o, sizes), asWritten(o), NEW tx \in 0 .. 128,
         NEW m \in {1, 3}
  PROVE  LET mine == loadAmplifierUnit(o)
             its == loadUnit(o)
         IN  /\ its.playoutDelaySamples = mine.playoutDelaySamples
             /\ (\A i \in DOMAIN mine.chainUnitChannels :
                   mine.chainUnitChannels[i] \in 0 .. 128) =>
                  flowOffsetForUnit(its.chainUnitChannels, tx, clampedUnit(its.unitIndex, m))
                    = txSourcePortOffset(mine.chainUnitChannels, tx, Min({mine.unitIndex, m}))
<1> DEFINE unit == field(o, "unitIndex", 1)
           delay == field(o, "playoutDelaySamples", 0)
           chain == field(o, "chainUnitChannels", <<>>)
<1>1. unit \in 1 .. 3 /\ delay \in 0 .. kMaxSamples
  BY DEF asWritten
<1>2. stoul(o, "unitIndex", 1) = unit
  <2>1. unit % Word = unit
    BY <1>1, Words, SmallIsWhole
  <2> QED BY <1>1, <2>1 DEF stoul, unsignedAt, field
<1>3. stoul(o, "playoutDelaySamples", 0) = delay
  <2>1. delay \in Nat /\ 2 * delay < Word
    <3> HIDE DEF delay
    <3> QED BY <1>1, Words
  <2>2. delay % Word = delay
    BY <2>1, SmallIsWhole
  <2> QED BY <2>1, <2>2 DEF stoul, unsignedAt, field
<1>4. \A i \in DOMAIN chain : chain[i] \in SwiftInts
  BY DEF asWritten, field
<1>5. loadAmplifierUnit(o) = unitSettings(unit, chain, orZero(delay))
  BY <1>1, <1>4 DEF loadAmplifierUnit
<1> HIDE DEF unit, delay
<1>6. loadUnit(o) = unitSettings(unit, digits(chain), orZero(delay))
  BY <1>1, <1>2, <1>3 DEF loadUnit
<1> HIDE DEF chain
<1>7. ASSUME \A i \in DOMAIN chain : chain[i] \in 0 .. 128, NEW u \in Int
      PROVE  flowOffsetForUnit(digits(chain), tx, u) = txSourcePortOffset(chain, tx, u)
  <2>1. \A i \in DOMAIN chain : chain[i] \in -128 .. 128 /\ chain[i] >= 0
    BY <1>7
  <2>2. DOMAIN digits(chain) = DOMAIN chain /\ \A i \in DOMAIN chain : digits(chain)[i] = chain[i]
    BY <2>1, DigitsAre
  <2>3. channelsOf(digits(chain), tx, 1) = channelsOf(chain, tx, 1)
        /\ channelsOf(digits(chain), tx, 2) = channelsOf(chain, tx, 2)
    BY <2>2 DEF channelsOf
  <2>4. flowOffsetForUnit(digits(chain), tx, u) = flowOffsetForUnit(chain, tx, u)
    BY <2>3 DEF flowOffsetForUnit
  <2> QED BY <1>7, <2>4, OffsetsAgree
<1>8. Min({unit, m}) \in Int
  BY <1>1, MinOfTwo
<1> QED BY <1>5, <1>6, <1>7, <1>8 DEF unitSettings, clampedUnit

LEMMA UnitTyped ==
  ASSUME NEW o, NEW sizes, readable(o, sizes), sizes \subseteq Int
  PROVE  /\ loadUnit(o).unitIndex \in 1 .. 3
         /\ loadUnit(o).playoutDelaySamples \in 0 .. kMaxSamples
         /\ sizes = -128 .. 128 => \A i \in DOMAIN loadUnit(o).chainUnitChannels :
                                     loadUnit(o).chainUnitChannels[i] \in 0 .. 128
         /\ loadAmplifierUnit(o) \in showable("unit", sizes)
<1> DEFINE chain == field(o, "chainUnitChannels", <<>>)
           unit == stoul(o, "unitIndex", 1)
           delay == orZero(stoul(o, "playoutDelaySamples", 0))
<1>1. \A n : orZero(n) \in 0 .. kMaxSamples
  BY DEF orZero, kMaxSamples
<1>2. chain \in Seq(sizes)
  BY FieldTyped
<1>3. \A i \in DOMAIN chain : chain[i] \in sizes
  BY <1>2, ElementOfSeq, LenProperties
<1>4. loadUnit(o) = IF unit \in 1 .. 3 THEN unitSettings(unit, digits(chain), delay)
                    ELSE unitSettings(1, <<>>, delay)
  BY DEF loadUnit
<1>5. delay \in 0 .. kMaxSamples
  BY <1>1
<1> HIDE DEF unit, delay
<1>6. /\ loadUnit(o).unitIndex \in 1 .. 3
      /\ loadUnit(o).playoutDelaySamples \in 0 .. kMaxSamples
      /\ loadUnit(o).chainUnitChannels \in {digits(chain), <<>>}
  BY <1>4, <1>5 DEF unitSettings
<1>7. sizes = -128 .. 128 => \A i \in DOMAIN loadUnit(o).chainUnitChannels :
                               loadUnit(o).chainUnitChannels[i] \in 0 .. 128
  <2> HIDE DEF chain
  <2>1. sizes = -128 .. 128 => \A i \in DOMAIN digits(chain) : digits(chain)[i] \in 0 .. 128
    BY <1>3, DigitsAre
  <2>2. DOMAIN (<<>>) = {}
    OBVIOUS
  <2> QED BY <1>6, <2>1, <2>2
<1>8. (IF \A i \in DOMAIN chain : chain[i] \in SwiftInts THEN chain ELSE <<>>)
        \in Seq(sizes \cap SwiftInts)
  <2>1. <<>> \in Seq(sizes \cap SwiftInts)
    OBVIOUS
  <2>2. ASSUME \A i \in DOMAIN chain : chain[i] \in SwiftInts
        PROVE  chain \in Seq(sizes \cap SwiftInts)
    <3>1. Len(chain) \in Nat /\ chain \in [1 .. Len(chain) -> sizes] /\ DOMAIN chain = 1 .. Len(chain)
      BY <1>2, LenProperties
    <3> HIDE DEF chain
    <3>2. chain \in [1 .. Len(chain) -> sizes \cap SwiftInts]
      BY <2>2, <3>1
    <3> QED BY <3>1, <3>2, SeqDef
  <2> HIDE DEF chain
  <2> QED BY <2>1, <2>2
<1>9. loadAmplifierUnit(o) \in [unitIndex : 1 .. 3, chainUnitChannels : Seq(sizes \cap SwiftInts),
                                playoutDelaySamples : 0 .. kMaxSamples]
  <2> DEFINE u == field(o, "unitIndex", 1)
             c == IF \A i \in DOMAIN chain : chain[i] \in SwiftInts THEN chain ELSE <<>>
             n == orZero(field(o, "playoutDelaySamples", 0))
  <2>1. loadAmplifierUnit(o) = unitSettings(IF u \in 1 .. 3 THEN u ELSE 1, c, n)
    BY DEF loadAmplifierUnit
  <2>2. c \in Seq(sizes \cap SwiftInts) /\ n \in 0 .. kMaxSamples
    BY <1>1, <1>8
  <2> HIDE DEF u, c, n
  <2> QED BY <2>1, <2>2 DEF unitSettings
<1> QED BY <1>6, <1>7, <1>9 DEF showable

\* A former id, a known one and one nobody knows come to the same profile.
LEMMA ProfileReadAlike ==
  ASSUME NEW o
  PROVE  /\ kindFromString(field(o, "profile", "aes67")) = loadCompatibilityProfile(o)
         /\ loadCompatibilityProfile(o) \in Ids
<1> DEFINE raw == field(o, "profile", "aes67")
<1>1. kinds = Ids /\ \A id : (\E p \in compatibilityProfiles : p.kind = id) <=> id \in Ids
  BY TablesAgree
<1>2. \A id \in formerKinds : id \notin Ids
  BY DEF formerKinds, Ids
<1>3. "aes67" \in Ids /\ "dolby-lan" \in Ids
  BY DEF Ids
<1>4. loadCompatibilityProfile(o) =
        IF raw \in formerKinds THEN "dolby-lan" ELSE IF raw \in Ids THEN raw ELSE "aes67"
  BY <1>1, <1>3 DEF loadCompatibilityProfile, formerKinds
<1>5. kindFromString(raw) =
        IF raw \in formerKinds THEN "dolby-lan" ELSE IF raw \in Ids THEN raw ELSE "aes67"
  <2> HIDE DEF raw
  <2> QED BY <1>1, <1>2 DEF kindFromString
<1> HIDE DEF raw
<1>6. loadCompatibilityProfile(o) \in Ids
  BY <1>3, <1>4
<1> QED BY <1>4, <1>5, <1>6 DEF raw

-----------------------------------------------------------------------------
(* The Sync interval *)

LEMMA LeastExists ==
  ASSUME NEW T \in SUBSET Nat, T # {}
  PROVE  \E t \in T : \A u \in T : t =< u
<1> DEFINE Less == OpToRel(<, Nat)
<1>1. IsWellFoundedOn(Less, Nat)
  BY NatLessThanWellFounded
<1>2. PICK t \in T : \A u \in T : ~(<<u, t>> \in Less)
  <2> HIDE DEF Less
  <2> QED BY <1>1, WFMin
<1>3. \A u \in T : ~(u < t)
  BY <1>2 DEF OpToRel
<1> QED BY <1>3

LEMMA GreatestExists ==
  ASSUME NEW S \in SUBSET (-10 .. 21), -10 \in S
  PROVE  Max(S) \in S
<1> DEFINE T == {21 - x : x \in S}
<1>1. T \subseteq Nat /\ T # {}
  OBVIOUS
<1>2. PICK t \in T : \A u \in T : t =< u
  <2> HIDE DEF T
  <2> QED BY <1>1, LeastExists
<1>3. PICK x \in S : t = 21 - x
  OBVIOUS
<1>4. \A y \in S : 21 - x =< 21 - y
  BY <1>2, <1>3
<1>5. \A y \in S : x >= y
  BY <1>4
<1> QED BY <1>5 DEF Max

LEMMA MsInRange ==
  ASSUME NEW ms \in Int
  PROVE  msToLogInterval(ms) \in -10 .. 21
<1> DEFINE reached(n) ==
             IF n > 0 THEN ms >= 707 * 2 ^ n /\ ms * ms >= 1000000 * 2 ^ (2 * n - 1)
                      ELSE ms * ms > (1000000 - 1) \div 2 ^ (1 - 2 * n)
           S == {-10} \cup {n \in -9 .. 21 : reached(n)}
<1>1. msToLogInterval(ms) = IF ms =< 0 THEN 0 ELSE Max(S)
  BY DEF msToLogInterval
<1> HIDE DEF reached
<1>2. S \in SUBSET (-10 .. 21) /\ -10 \in S
  OBVIOUS
<1> HIDE DEF S
<1>3. Max(S) \in -10 .. 21
  BY <1>2, GreatestExists
<1> QED BY <1>1, <1>3

LEMMA IntervalInRange ==
  ASSUME NEW o, NEW sizes, readable(o, sizes)
  PROVE  LET n == migrateLogInterval(o, -3) IN hasPeriod(n) \/ n = -10
<1>1. ASSUME NEW v \in Int PROVE clampLog(v) \in -9 .. 21
  <2>1. Min({v, 21}) \in Int /\ Min({v, 21}) =< 21
    BY MinOfTwo
  <2>2. Max({-9, Min({v, 21})}) = IF -9 >= Min({v, 21}) THEN -9 ELSE Min({v, 21})
    BY <2>1, MaxOfTwo
  <2> QED BY <2>1, <2>2 DEF clampLog
<1>2. /\ "logSyncInterval" \in DOMAIN o => o.logSyncInterval \in Int
      /\ "syncIntervalMs" \in DOMAIN o => o.syncIntervalMs \in Int
  BY DEF readable
<1> DEFINE has(k) == k \in DOMAIN o /\ signed(o[k], Word)
<1>3. CASE has("logSyncInterval")
  <2>1. migrateLogInterval(o, -3) = clampLog(o.logSyncInterval)
    BY <1>3 DEF migrateLogInterval
  <2> QED BY <1>1, <1>2, <1>3, <2>1 DEF hasPeriod
<1>4. CASE ~has("logSyncInterval") /\ has("syncIntervalMs")
  <2>1. migrateLogInterval(o, -3) = msToLogInterval(o.syncIntervalMs)
    BY <1>4 DEF migrateLogInterval
  <2> QED BY <1>2, <1>4, <2>1, MsInRange DEF hasPeriod
<1>5. CASE ~has("logSyncInterval") /\ ~has("syncIntervalMs")
  BY <1>5 DEF migrateLogInterval, hasPeriod
<1> QED BY <1>3, <1>4, <1>5

-----------------------------------------------------------------------------
(* What is saved is read back *)

contents(d) == IF d.whole THEN d.keys ELSE <<>>

LEMMA AppLoadIs ==
  ASSUME NEW d
  PROVE  /\ appLoad("channels", d) = loadDeviceChannelSettings(contents(d))
         /\ appLoad("unit", d) = loadAmplifierUnit(contents(d))
         /\ appLoad("profile", d) = loadCompatibilityProfile(contents(d))
         /\ appLoad("ptp", d) = loadPTPMasterSettings(contents(d))
         /\ appLoad("active", d) = field(contents(d), "active", TRUE)
         /\ appLoad("discovery", d) = field(contents(d), "runEveryRoute", FALSE)
<1>1. /\ appLoad("channels", d) = loadDeviceChannelSettings(contents(d))
      /\ appLoad("unit", d) = loadAmplifierUnit(contents(d))
      /\ appLoad("profile", d) = loadCompatibilityProfile(contents(d))
      /\ appLoad("ptp", d) = loadPTPMasterSettings(contents(d))
  BY DEF appLoad, contents
<1>2. appLoad("active", d) = field(contents(d), "active", TRUE)
  BY DEF appLoad, contents
<1>3. appLoad("discovery", d) = field(contents(d), "runEveryRoute", FALSE)
  BY DEF appLoad, contents
<1> QED BY <1>1, <1>2, <1>3

LEMMA AppSaveIs ==
  ASSUME NEW v
  PROVE  /\ appSave("channels", v) = saveDeviceChannelSettings(v)
         /\ appSave("profile", v) = [profile |-> v] /\ appSave("active", v) = [active |-> v]
         /\ appSave("discovery", v) = [runEveryRoute |-> v]
         /\ appSave("unit", v) = v /\ appSave("ptp", v) = v
BY DEF appSave

LEMMA ShowableIs ==
  ASSUME NEW sizes
  PROVE  /\ showable("channels", sizes) = [rx : validSelections, tx : validSelections]
         /\ showable("unit", sizes) = [unitIndex : 1 .. 3, chainUnitChannels : Seq(sizes \cap SwiftInts),
                                       playoutDelaySamples : 0 .. kMaxSamples]
         /\ showable("profile", sizes) = Ids
         /\ showable("ptp", sizes) =
              [masterCapable : BOOLEAN, ptpEnabled : BOOLEAN, requireLock : BOOLEAN,
               priority1 : SwiftInts, syncIntervalMs : SwiftInts]
         /\ showable("active", sizes) = BOOLEAN /\ showable("discovery", sizes) = BOOLEAN
<1>1. {p.kind : p \in compatibilityProfiles} = Ids
  BY TablesAgree
<1> QED BY <1>1 DEF showable

LEMMA ContentsReadable ==
  ASSUME NEW d, NEW sizes, readable(d.keys, sizes)
  PROVE  readable(contents(d), sizes)
<1>1. readable(<<>>, sizes)
  BY DEF readable
<1> QED BY <1>1 DEF contents

LEMMA SelectionIsValid ==
  ASSUME NEW n \in allowedChannelCounts, NEW aux \in BOOLEAN, aux => auxFits(n)
  PROVE  selection(n, aux) \in validSelections
BY DEF selection, validSelections

LEMMA LoadIsShowable ==
  ASSUME NEW f \in SettingsFiles, NEW d, NEW sizes, readable(d.keys, sizes), sizes \subseteq Int
  PROVE  appLoad(f, d) \in showable(f, sizes)
<1> DEFINE o == contents(d)
<1>1. readable(o, sizes)
  BY ContentsReadable
<1> HIDE DEF o
<1>2. loadDeviceChannelSettings(o) \in showable("channels", sizes)
  <2> DEFINE read(k, aux) ==
               LET n == IF field(o, k, 128) \in allowedChannelCounts THEN field(o, k, 128) ELSE 128
               IN  selection(n, field(o, aux, FALSE) /\ auxFits(n))
  <2>1. ASSUME NEW k, NEW aux PROVE read(k, aux) \in validSelections
    <3> DEFINE n == IF field(o, k, 128) \in allowedChannelCounts THEN field(o, k, 128) ELSE 128
               a == field(o, aux, FALSE) /\ auxFits(n)
    <3>1. n \in allowedChannelCounts
      BY AllowedAre
    <3>2. a \in BOOLEAN /\ (a => auxFits(n))
      OBVIOUS
    <3> HIDE DEF n, a
    <3>3. selection(n, a) \in validSelections
      BY <3>1, <3>2, SelectionIsValid
    <3> QED BY <3>3 DEF n, a
  <2>2. loadDeviceChannelSettings(o) =
          [rx |-> read("rxChannelCount", "rxAux"), tx |-> read("txChannelCount", "txAux")]
    BY DEF loadDeviceChannelSettings
  <2> HIDE DEF read
  <2> QED BY <2>1, <2>2, ShowableIs
<1>3. loadAmplifierUnit(o) \in showable("unit", sizes)
  BY <1>1, UnitTyped
<1>4. loadCompatibilityProfile(o) \in showable("profile", sizes)
  <2>1. loadCompatibilityProfile(o) \in Ids
    BY ProfileReadAlike
  <2> QED BY <2>1, ShowableIs
<1>5. loadPTPMasterSettings(o) \in showable("ptp", sizes)
  <2>1. loadPTPMasterSettings(o) \in
          [masterCapable : BOOLEAN, ptpEnabled : BOOLEAN, requireLock : BOOLEAN,
           priority1 : SwiftInts, syncIntervalMs : SwiftInts]
    <3>1. 128 \in SwiftInts /\ 125 \in SwiftInts
      BY Words, SmallIsWhole
    <3>2. /\ swiftField(o, "priority1", 128) \in SwiftInts
          /\ swiftField(o, "syncIntervalMs", 125) \in SwiftInts
      BY <3>1 DEF swiftField
    <3> QED BY <1>1, <3>2, FieldTyped DEF loadPTPMasterSettings
  <2> QED BY <2>1, ShowableIs
<1>6. field(o, "active", TRUE) \in BOOLEAN /\ field(o, "runEveryRoute", FALSE) \in BOOLEAN
  BY <1>1, FieldTyped
<1>7. CASE f = "channels"
  BY <1>2, <1>7, AppLoadIs DEF o
<1>8. CASE f = "unit"
  BY <1>3, <1>8, AppLoadIs DEF o
<1>9. CASE f = "profile"
  BY <1>4, <1>9, AppLoadIs DEF o
<1>10. CASE f = "ptp"
  BY <1>5, <1>10, AppLoadIs DEF o
<1>11. CASE f = "active"
  BY <1>6, <1>11, AppLoadIs, ShowableIs DEF o
<1>12. CASE f = "discovery"
  BY <1>6, <1>12, AppLoadIs, ShowableIs DEF o
<1> QED BY <1>7, <1>8, <1>9, <1>10, <1>11, <1>12 DEF SettingsFiles

LEMMA WiderSeq ==
  ASSUME NEW S, NEW T, S \subseteq T
  PROVE  Seq(S) \subseteq Seq(T)
<1> SUFFICES ASSUME NEW q \in Seq(S) PROVE q \in Seq(T)
  OBVIOUS
<1> QED BY SeqDef

LEMMA SaveIsReadable ==
  ASSUME NEW f \in SettingsFiles, NEW sizes, NEW v \in showable(f, sizes)
  PROVE  readable(appSave(f, v), sizes)
<1>1. CASE f = "channels"
  <2>0. v \in [rx : validSelections, tx : validSelections]
    BY <1>1, ShowableIs
  <2>1. v.rx \in validSelections /\ v.tx \in validSelections
    BY <2>0
  <2>2. /\ v.rx.count \in Int /\ v.tx.count \in Int
        /\ v.rx.aux \in BOOLEAN /\ v.tx.aux \in BOOLEAN
    BY <2>1, AllowedAre DEF validSelections
  <2>3. readable(saveDeviceChannelSettings(v), sizes)
    BY <2>2 DEF saveDeviceChannelSettings, readable
  <2> QED BY <1>1, <2>3, AppSaveIs
<1>2. CASE f = "unit"
  <2>1. v \in [unitIndex : 1 .. 3, chainUnitChannels : Seq(sizes \cap SwiftInts),
               playoutDelaySamples : 0 .. kMaxSamples]
    BY <1>2, ShowableIs
  <2>2. /\ DOMAIN v = {"unitIndex", "chainUnitChannels", "playoutDelaySamples"}
        /\ v["chainUnitChannels"] \in Seq(sizes \cap SwiftInts)
        /\ v["unitIndex"] \in 1 .. 3 /\ v["playoutDelaySamples"] \in 0 .. kMaxSamples
    BY <2>1
  <2>3. v["unitIndex"] \in Int /\ v["playoutDelaySamples"] \in Int
    <3>1. 1 .. 3 \subseteq Int /\ 0 .. kMaxSamples \subseteq Int
      BY DEF kMaxSamples
    <3> QED BY <2>2, <3>1
  <2>4. v["chainUnitChannels"] \in Seq(sizes)
    BY <2>2, WiderSeq
  <2>5. readable(v, sizes)
    BY <2>2, <2>3, <2>4 DEF readable
  <2> QED BY <1>2, <2>5, AppSaveIs
<1>3. CASE f = "profile"
  <2>1. readable([profile |-> v], sizes)
    BY DEF readable
  <2> QED BY <1>3, <2>1, AppSaveIs
<1>4. CASE f = "ptp"
  <2>1. v \in [masterCapable : BOOLEAN, ptpEnabled : BOOLEAN, requireLock : BOOLEAN,
               priority1 : SwiftInts, syncIntervalMs : SwiftInts]
    BY <1>4, ShowableIs
  <2>2. SwiftInts \subseteq Int
    BY DEF SwiftInts
  <2>3. readable(v, sizes)
    BY <2>1, <2>2 DEF readable
  <2> QED BY <1>4, <2>3, AppSaveIs
<1>5. CASE f = "active"
  <2>1. v \in BOOLEAN
    BY <1>5, ShowableIs
  <2>2. readable([active |-> v], sizes)
    BY <2>1 DEF readable
  <2> QED BY <1>5, <2>2, AppSaveIs
<1>6. CASE f = "discovery"
  <2>1. v \in BOOLEAN
    BY <1>6, ShowableIs
  <2>2. readable([runEveryRoute |-> v], sizes)
    BY <2>1 DEF readable
  <2> QED BY <1>6, <2>2, AppSaveIs
<1> QED BY <1>1, <1>2, <1>3, <1>4, <1>5, <1>6 DEF SettingsFiles

\* What the app saves of the channels, the driver does not refuse.
LEMMA SavedChannelsAreValid ==
  ASSUME NEW sizes, NEW v \in showable("channels", sizes)
  PROVE  channelsAreValid(appSave("channels", v))
<1>0. v \in [rx : validSelections, tx : validSelections]
  BY ShowableIs
<1>1. v.rx \in validSelections /\ v.tx \in validSelections
  BY <1>0
<1> DEFINE o == saveDeviceChannelSettings(v)
<1>2. /\ extractUInt32Field(o, "rxChannelCount", 128) = v.rx.count
      /\ extractUInt32Field(o, "txChannelCount", 128) = v.tx.count
  <2>1. \A n \in allowedChannelCounts : n >= 0 /\ n < Word
    BY AllowedAre, Words
  <2>2. v.rx.count \in allowedChannelCounts /\ v.tx.count \in allowedChannelCounts
    BY <1>1 DEF validSelections
  <2>3. /\ "rxChannelCount" \in DOMAIN o /\ o["rxChannelCount"] = v.rx.count
        /\ "txChannelCount" \in DOMAIN o /\ o["txChannelCount"] = v.tx.count
    BY DEF saveDeviceChannelSettings
  <2> HIDE DEF o
  <2> QED BY <2>1, <2>2, <2>3 DEF extractUInt32Field, unsignedAt
<1>3. /\ field(o, "rxAux", FALSE) = v.rx.aux /\ field(o, "txAux", FALSE) = v.tx.aux
  BY DEF field, saveDeviceChannelSettings
<1> HIDE DEF o
<1>4. /\ parsedChannels(o).rx = selection(v.rx.count, v.rx.aux)
      /\ parsedChannels(o).tx = selection(v.tx.count, v.tx.aux)
  BY <1>2, <1>3 DEF parsedChannels
<1>5. \A s \in validSelections : selectionIsValid(selection(s.count, s.aux))
  BY DEF validSelections, selectionIsValid, selection
<1>6. channelsAreValid(o)
  BY <1>1, <1>4, <1>5 DEF channelsAreValid
<1> QED BY <1>6, AppSaveIs DEF o

LEMMA SavedUnitIsAsWritten ==
  ASSUME NEW sizes, NEW v \in showable("unit", sizes)
  PROVE  asWritten(appSave("unit", v))
<1>1. v \in [unitIndex : 1 .. 3, chainUnitChannels : Seq(sizes \cap SwiftInts),
             playoutDelaySamples : 0 .. kMaxSamples]
  BY ShowableIs
<1>2. /\ DOMAIN v = {"unitIndex", "chainUnitChannels", "playoutDelaySamples"}
      /\ v["unitIndex"] \in 1 .. 3 /\ v["playoutDelaySamples"] \in 0 .. kMaxSamples
      /\ v["chainUnitChannels"] \in Seq(sizes \cap SwiftInts)
  BY <1>1
<1>3. \A i \in DOMAIN v["chainUnitChannels"] : v["chainUnitChannels"][i] \in SwiftInts
  BY <1>2, ElementOfSeq, LenProperties
<1>4. asWritten(v)
  BY <1>2, <1>3 DEF asWritten, field
<1> QED BY <1>4, AppSaveIs

LEMMA SavedIsReadBack ==
  ASSUME NEW f \in SettingsFiles \ flags, NEW sizes, NEW v \in showable(f, sizes)
  PROVE  appLoad(f, file(TRUE, appSave(f, v))) = v
<1>1. ASSUME NEW o PROVE contents(file(TRUE, o)) = o
  BY DEF contents, file
<1>2. CASE f = "channels"
  <2> DEFINE o == saveDeviceChannelSettings(v)
  <2>0. v \in [rx : validSelections, tx : validSelections]
    BY <1>2, ShowableIs
  <2>1. v = [rx |-> v.rx, tx |-> v.tx] /\ v.rx \in validSelections /\ v.tx \in validSelections
    BY <2>0
  <2>2. /\ v.rx = selection(v.rx.count, v.rx.aux) /\ v.tx = selection(v.tx.count, v.tx.aux)
        /\ v.rx.count \in allowedChannelCounts /\ v.tx.count \in allowedChannelCounts
    BY <2>1 DEF validSelections, selection
  <2>3. /\ (v.rx.aux /\ auxFits(v.rx.count)) = v.rx.aux
        /\ (v.tx.aux /\ auxFits(v.tx.count)) = v.tx.aux
    BY <2>1 DEF validSelections
  <2>4. /\ field(o, "rxChannelCount", 128) = v.rx.count
        /\ field(o, "txChannelCount", 128) = v.tx.count
    BY DEF field, saveDeviceChannelSettings
  <2>5. /\ field(o, "rxAux", FALSE) = v.rx.aux /\ field(o, "txAux", FALSE) = v.tx.aux
    BY DEF field, saveDeviceChannelSettings
  <2> HIDE DEF o
  <2>6. loadDeviceChannelSettings(o) =
          [rx |-> selection(v.rx.count, v.rx.aux /\ auxFits(v.rx.count)),
           tx |-> selection(v.tx.count, v.tx.aux /\ auxFits(v.tx.count))]
    BY <2>2, <2>4, <2>5 DEF loadDeviceChannelSettings
  <2>7. loadDeviceChannelSettings(o) = v
    BY <2>1, <2>2, <2>3, <2>6 DEF selection
  <2> QED BY <1>1, <1>2, <2>7, AppLoadIs, AppSaveIs DEF o
<1>3. CASE f = "unit"
  <2>1. v \in [unitIndex : 1 .. 3, chainUnitChannels : Seq(sizes \cap SwiftInts),
               playoutDelaySamples : 0 .. kMaxSamples]
    BY <1>3, ShowableIs
  <2>2. loadAmplifierUnit(v) = v
    <3>1. \A i \in DOMAIN v["chainUnitChannels"] : v["chainUnitChannels"][i] \in SwiftInts
      <4>1. v["chainUnitChannels"] \in Seq(sizes \cap SwiftInts)
        BY <2>1
      <4> QED BY <4>1, ElementOfSeq, LenProperties
    <3> QED BY <2>1, <3>1 DEF loadAmplifierUnit, unitSettings, orZero, field
  <2> QED BY <1>1, <1>3, <2>2, AppLoadIs, AppSaveIs
<1>4. CASE f = "profile"
  <2>0. v \in Ids /\ {p.kind : p \in compatibilityProfiles} = Ids
    BY <1>4, ShowableIs, TablesAgree
  <2>1. v \in Ids /\ \E p \in compatibilityProfiles : p.kind = v
    BY <2>0
  <2>2. v \notin {"cp850", "cp950", "dac3202", "dma"}
    BY <2>1 DEF Ids
  <2>3. loadCompatibilityProfile([profile |-> v]) = v
    BY <2>1, <2>2 DEF loadCompatibilityProfile, field
  <2> QED BY <1>1, <1>4, <2>3, AppLoadIs, AppSaveIs
<1>5. CASE f = "ptp"
  <2>1. v \in [masterCapable : BOOLEAN, ptpEnabled : BOOLEAN, requireLock : BOOLEAN,
               priority1 : SwiftInts, syncIntervalMs : SwiftInts]
    BY <1>5, ShowableIs
  <2>2. loadPTPMasterSettings(v) = v
    BY <2>1 DEF loadPTPMasterSettings, field, swiftField
  <2> QED BY <1>1, <1>5, <2>2, AppLoadIs, AppSaveIs
<1> QED BY <1>2, <1>3, <1>4, <1>5 DEF SettingsFiles, flags

-----------------------------------------------------------------------------
(* The invariant *)

\* The sizes of units that can come up in a file.
Sizes == IF ChainsInRange THEN -maxChannels .. maxChannels ELSE Int

FilesTyped(d) == DOMAIN d = SettingsFiles /\ \A f \in SettingsFiles : readable(d[f].keys, Sizes)
StandingTyped ==
  standing \in [SettingsFiles -> [mine : BOOLEAN, shows : BOOLEAN, read : BOOLEAN]]
IdsTyped == stored \in Nat /\ ids \in Nat

ShownTyped ==
  shown # Off =>
    /\ DOMAIN shown = SettingsFiles \cup {"window"}
    /\ \A f \in SettingsFiles : shown[f] \in showable(f, Sizes)

\* A copy under way is of what the app shows.
JobIsShown ==
  job # NoJob =>
    /\ shown # Off
    /\ job = [file |-> job.file, keys |-> job.keys, copying |-> job.copying]
    /\ job.file \in SettingsFiles /\ readable(job.keys, Sizes)
    /\ job.file \notin flags => job.keys = appSave(job.file, shown[job.file])

\* A file that is the app's can be read by both, and both read the same.
MineIsWhole ==
  \A f \in SettingsFiles : standing[f].mine =>
    /\ disk[f].whole \/ disk[f].keys = <<>>
    /\ f = "channels" => channelsAreValid(disk[f].keys)
    /\ f = "unit" => asWritten(disk[f].keys)

ShowsTheFile ==
  shown # Off =>
    \A f \in SettingsFiles :
      standing[f].mine /\ standing[f].shows => shown[f] = appLoad(f, disk[f])

\* The device was made of files d, of which those not touched since are still there.
MadeOf(d, id) ==
  /\ FilesTyped(d) /\ running = deviceSettings(d, id)
  /\ field(d["active"].keys, "active", TRUE) = TRUE
  /\ \A f \in SettingsFiles : standing[f].read => d[f] = disk[f]
RunsWhatWasRead == running # Off => \E d : \E id \in Nat \ {0} : MadeOf(d, id)

SettingsInv ==
  /\ FilesTyped(disk) /\ StandingTyped /\ IdsTyped /\ ShownTyped
  /\ JobIsShown /\ MineIsWhole /\ ShowsTheFile /\ RunsWhatWasRead

LEMMA SizesAre ==
  /\ 0 .. maxChannels \subseteq Sizes /\ Sizes \subseteq Int
  /\ \A h \in HandFiles : readable(h[2], Sizes)
  /\ ChainsInRange => Sizes = -128 .. 128
<1>1. \A h \in HandFiles : readable(h[2], Int)
  BY SettingsAssumption
<1>2. CASE ChainsInRange
  BY <1>2 DEF Sizes, ChainsInRange, maxChannels
<1>3. CASE ~ChainsInRange
  BY <1>1, <1>3 DEF Sizes, maxChannels
<1> QED BY <1>2, <1>3

LEMMA WiderShowable ==
  ASSUME NEW f \in SettingsFiles, NEW v \in showable(f, 0 .. maxChannels)
  PROVE  v \in showable(f, Sizes)
<1>1. Seq((0 .. maxChannels) \cap SwiftInts) \subseteq Seq(Sizes \cap SwiftInts)
  <2>1. (0 .. maxChannels) \cap SwiftInts \subseteq Sizes \cap SwiftInts
    BY SizesAre
  <2> QED BY <2>1, WiderSeq
<1>2. CASE f = "unit"
  <2>1. v \in [unitIndex : 1 .. 3, chainUnitChannels : Seq((0 .. maxChannels) \cap SwiftInts),
               playoutDelaySamples : 0 .. kMaxSamples]
    BY <1>2, ShowableIs
  <2>2. v \in [unitIndex : 1 .. 3, chainUnitChannels : Seq(Sizes \cap SwiftInts),
               playoutDelaySamples : 0 .. kMaxSamples]
    BY <1>1, <2>1
  <2> QED BY <1>2, <2>2, ShowableIs
<1>3. CASE f # "unit"
  <2>1. showable(f, 0 .. maxChannels) = showable(f, Sizes)
    BY <1>3 DEF showable
  <2> QED BY <2>1
<1> QED BY <1>2, <1>3

LEMMA SettingsInitInv == SettingsInit => SettingsInv
<1> SUFFICES ASSUME SettingsInit PROVE SettingsInv
  OBVIOUS
<1>1. PICK left \in StartFiles :
        disk = [f \in SettingsFiles |->
                  IF f \in DOMAIN left THEN file(TRUE, appSave(f, left[f])) ELSE missing]
  BY DEF SettingsInit
<1>2. ASSUME NEW f \in SettingsFiles, f \in DOMAIN left PROVE left[f] \in showable(f, Sizes)
  BY <1>2, SettingsAssumption, WiderShowable
<1>3. ASSUME NEW f \in SettingsFiles
      PROVE  /\ readable(disk[f].keys, Sizes) /\ (disk[f].whole \/ disk[f].keys = <<>>)
             /\ f = "channels" => channelsAreValid(disk[f].keys)
             /\ f = "unit" => asWritten(disk[f].keys)
  <2>1. CASE f \in DOMAIN left
    <3>1. disk[f] = file(TRUE, appSave(f, left[f]))
      BY <1>1, <2>1
    <3>2. disk[f].whole /\ disk[f].keys = appSave(f, left[f])
      BY <3>1 DEF file
    <3>3. readable(appSave(f, left[f]), Sizes)
      BY <1>2, <2>1, SaveIsReadable
    <3>4. f = "channels" => channelsAreValid(appSave(f, left[f]))
      BY <1>2, <2>1, SavedChannelsAreValid
    <3>5. f = "unit" => asWritten(appSave(f, left[f]))
      BY <1>2, <2>1, SavedUnitIsAsWritten
    <3> QED BY <3>2, <3>3, <3>4, <3>5
  <2>2. CASE f \notin DOMAIN left
    <3>1. disk[f].keys = <<>>
      BY <1>1, <2>2 DEF missing, file
    <3>2. readable(<<>>, Sizes)
      BY DEF readable
    <3> DEFINE s == selection(128, FALSE)
    <3>3. selectionIsValid(s)
      BY AllowedAre DEF selectionIsValid, selection
    <3>4. parsedChannels(<<>>).rx = s /\ parsedChannels(<<>>).tx = s
      BY DEF parsedChannels, field, extractUInt32Field, unsignedAt
    <3> HIDE DEF s
    <3>5. channelsAreValid(<<>>)
      BY <3>3, <3>4 DEF channelsAreValid
    <3>6. asWritten(<<>>)
      BY DEF asWritten, field, kMaxSamples
    <3> QED BY <3>1, <3>2, <3>5, <3>6
  <2> QED BY <2>1, <2>2
<1>4. DOMAIN disk = SettingsFiles
  BY <1>1
<1>5. StandingTyped /\ IdsTyped /\ ShownTyped /\ JobIsShown /\ ShowsTheFile /\ RunsWhatWasRead
  BY DEF SettingsInit, StandingTyped, IdsTyped, ShownTyped, JobIsShown, ShowsTheFile,
         RunsWhatWasRead
<1> QED BY <1>3, <1>4, <1>5 DEF SettingsInv, FilesTyped, MineIsWhole

-----------------------------------------------------------------------------
(* What a step may do to each part *)

LEMMA StillMadeOf ==
  ASSUME RunsWhatWasRead, running' = running \/ running' = Off,
         \A f \in SettingsFiles : standing'[f].read => standing[f].read /\ disk'[f] = disk[f]
  PROVE  RunsWhatWasRead'
<1> SUFFICES ASSUME running' # Off PROVE \E d : \E id \in Nat \ {0} : MadeOf(d, id)'
  BY DEF RunsWhatWasRead
<1>1. running' = running /\ running # Off
  OBVIOUS
<1>2. PICK d : \E id \in Nat \ {0} : MadeOf(d, id)
  BY <1>1 DEF RunsWhatWasRead
<1>3. PICK id \in Nat \ {0} : MadeOf(d, id)
  BY <1>2
<1>4. MadeOf(d, id)'
  BY <1>1, <1>3 DEF MadeOf
<1> QED BY <1>4

LEMMA StillWhole ==
  ASSUME MineIsWhole,
         \A f \in SettingsFiles : standing'[f].mine => standing[f].mine /\ disk'[f] = disk[f]
  PROVE  MineIsWhole'
BY DEF MineIsWhole

LEMMA StillShown ==
  ASSUME ShowsTheFile, shown' # Off => shown # Off,
         \A f \in SettingsFiles :
           standing'[f].mine /\ standing'[f].shows /\ shown' # Off =>
             /\ standing[f].mine /\ standing[f].shows /\ disk'[f] = disk[f]
             /\ shown'[f] = shown[f]
  PROVE  ShowsTheFile'
BY DEF ShowsTheFile

LEMMA ShownIsOn ==
  ASSUME NEW s, DOMAIN s = SettingsFiles \cup {"window"}
  PROVE  s # Off
<1>1. "off" \in DOMAIN Off /\ "off" \notin SettingsFiles \cup {"window"}
  BY DEF Off, SettingsFiles
<1> QED BY <1>1

\* What the app changes, it shows and asks to be copied.
LEMMA EditKeeps ==
  ASSUME SettingsInv, NEW f \in SettingsFiles \ flags, NEW v \in showable(f, Sizes), edit(f, v)
  PROVE  SettingsInv'
<1>1. FilesTyped(disk)' /\ IdsTyped'
  BY DEF SettingsInv, edit, FilesTyped, IdsTyped
<1>2. shown # Off /\ DOMAIN shown = SettingsFiles \cup {"window"}
  BY DEF SettingsInv, edit, idle, ShownTyped
<1>3. /\ DOMAIN shown' = SettingsFiles \cup {"window"} /\ shown'[f] = v
      /\ \A g \in SettingsFiles \ {f} : shown'[g] = shown[g]
  BY <1>2 DEF edit
<1>4. ShownTyped'
  BY <1>2, <1>3 DEF SettingsInv, ShownTyped
<1>5. shown' # Off
  BY <1>3, ShownIsOn
<1>6. /\ StandingTyped' /\ ~standing'[f].shows
      /\ \A g \in SettingsFiles : /\ standing'[g].mine = standing[g].mine
                                /\ standing'[g].read = standing[g].read
      /\ \A g \in SettingsFiles \ {f} : standing'[g] = standing[g]
  BY DEF SettingsInv, StandingTyped, edit
<1>7. JobIsShown'
  <2>1. job' = [file |-> f, keys |-> appSave(f, v), copying |-> FALSE]
    BY DEF edit
  <2>2. job'.file = f /\ job'.keys = appSave(f, v)
    BY <2>1
  <2>3. readable(appSave(f, v), Sizes)
    BY SaveIsReadable
  <2>4. job' = [file |-> job'.file, keys |-> job'.keys, copying |-> job'.copying]
    BY <2>1
  <2> QED BY <1>3, <1>5, <2>2, <2>3, <2>4 DEF JobIsShown
<1>8. MineIsWhole'
  BY <1>6, StillWhole DEF SettingsInv, edit
<1>9. ShowsTheFile'
  BY <1>2, <1>3, <1>6, StillShown DEF SettingsInv, edit
<1>10. RunsWhatWasRead'
  BY <1>6, StillMadeOf DEF SettingsInv, edit
<1> QED BY <1>1, <1>4, <1>6, <1>7, <1>8, <1>9, <1>10 DEF SettingsInv

LEMMA ConsistentIsShowable ==
  ASSUME NEW c, DOMAIN c = {"rx", "tx"},
         \A s \in {"rx", "tx"} : c[s].count \in allowedChannelCounts
  PROVE  consistent(c) \in showable("channels", Sizes)
<1>1. ASSUME NEW s \in {"rx", "tx"} PROVE consistent(c)[s] \in validSelections
  <2> DEFINE a == c[s].aux /\ auxFits(c[s].count)
  <2>1. a \in BOOLEAN /\ (a => auxFits(c[s].count))
    OBVIOUS
  <2>2. consistent(c)[s] = selection(c[s].count, a)
    BY DEF consistent
  <2> HIDE DEF a
  <2> QED BY <2>1, <2>2, SelectionIsValid
<1>2. consistent(c) \in [rx : validSelections, tx : validSelections]
  BY <1>1 DEF consistent
<1> QED BY <1>2, ShowableIs

LEMMA ShownChannels ==
  ASSUME SettingsInv, shown # Off
  PROVE  /\ shown["channels"] \in [rx : validSelections, tx : validSelections]
         /\ \A s \in {"rx", "tx"} : /\ shown["channels"][s].count \in allowedChannelCounts
                                   /\ DOMAIN shown["channels"][s] = {"count", "aux"}
<1>1. shown["channels"] \in showable("channels", Sizes)
  BY DEF SettingsInv, ShownTyped, SettingsFiles
<1>2. shown["channels"] \in [rx : validSelections, tx : validSelections]
  BY <1>1, ShowableIs
<1> QED BY <1>2 DEF validSelections

LEMMA SelectChannelsKeeps == SettingsInv /\ SelectChannels => SettingsInv'
<1> SUFFICES ASSUME SettingsInv, SelectChannels PROVE SettingsInv'
  OBVIOUS
<1>1. shown # Off /\ "channels" \in SettingsFiles \ flags
  BY DEF SelectChannels, idle, SettingsFiles, flags
<1> DEFINE c == shown["channels"]
<1>2. /\ DOMAIN c = {"rx", "tx"}
      /\ \A s \in {"rx", "tx"} : /\ c[s].count \in allowedChannelCounts
                                /\ DOMAIN c[s] = {"count", "aux"}
  BY <1>1, ShownChannels
<1>3. PICK side \in {"rx", "tx"} :
        \/ \E n \in Counts : edit("channels", consistent([c EXCEPT ![side].count = n]))
        \/ edit("channels", consistent([c EXCEPT ![side].aux = ~@]))
  BY DEF SelectChannels
<1> HIDE DEF c
<1>4. CASE \E n \in Counts : edit("channels", consistent([c EXCEPT ![side].count = n]))
  <2>1. PICK n \in Counts : edit("channels", consistent([c EXCEPT ![side].count = n]))
    BY <1>4
  <2> DEFINE e == [c EXCEPT ![side].count = n]
  <2>2. n \in allowedChannelCounts
    BY SettingsAssumption
  <2>3. DOMAIN e = {"rx", "tx"} /\ \A s \in {"rx", "tx"} : e[s].count \in allowedChannelCounts
    BY <1>2, <2>2
  <2> HIDE DEF e
  <2>4. consistent(e) \in showable("channels", Sizes)
    BY <2>3, ConsistentIsShowable
  <2>5. edit("channels", consistent(e))
    BY <2>1 DEF e
  <2> QED BY <1>1, <2>4, <2>5, EditKeeps
<1>5. CASE edit("channels", consistent([c EXCEPT ![side].aux = ~@]))
  <2> DEFINE e == [c EXCEPT ![side].aux = ~@]
  <2>3. DOMAIN e = {"rx", "tx"} /\ \A s \in {"rx", "tx"} : e[s].count \in allowedChannelCounts
    BY <1>2
  <2>5. edit("channels", consistent(e))
    BY <1>5
  <2> HIDE DEF e
  <2>4. consistent(e) \in showable("channels", Sizes)
    BY <2>3, ConsistentIsShowable
  <2> QED BY <1>1, <2>4, <2>5, EditKeeps
<1> QED BY <1>3, <1>4, <1>5

LEMMA CeilIsAllowed ==
  ASSUME NEW n \in Int
  PROVE  ceilToAllowedChannelCount(n) \in allowedChannelCounts
<1> DEFINE S == {c \in allowedChannelCounts : c >= n} \cup {maxChannels}
<1>1. S \subseteq allowedChannelCounts /\ S # {} /\ S \subseteq 8 .. 128
  BY AllowedAre
<1> HIDE DEF S
<1>2. \E m \in S : \A k \in S : m =< k
  BY <1>1, LeastExists
<1>3. Min(S) \in S
  BY <1>2 DEF Min
<1> QED BY <1>1, <1>3 DEF ceilToAllowedChannelCount, S

LEMMA ApplyDetectedLayoutKeeps == SettingsInv /\ ApplyDetectedLayout => SettingsInv'
<1> SUFFICES ASSUME SettingsInv, ApplyDetectedLayout PROVE SettingsInv'
  OBVIOUS
<1>1. shown # Off /\ "channels" \in SettingsFiles \ flags
  BY DEF ApplyDetectedLayout, idle, SettingsFiles, flags
<1> DEFINE c == shown["channels"]
<1>2. /\ DOMAIN c = {"rx", "tx"}
      /\ \A s \in {"rx", "tx"} : /\ c[s].count \in allowedChannelCounts
                                /\ DOMAIN c[s] = {"count", "aux"}
  BY <1>1, ShownChannels
<1>3. PICK side \in {"rx", "tx"}, resolved \in {24, 136} :
        edit("channels", consistent([c EXCEPT ![side].count =
                                       ceilToAllowedChannelCount(resolved)]))
  BY DEF ApplyDetectedLayout
<1> DEFINE e == [c EXCEPT ![side].count = ceilToAllowedChannelCount(resolved)]
<1> HIDE DEF c
<1>4. ceilToAllowedChannelCount(resolved) \in allowedChannelCounts
  BY CeilIsAllowed
<1>5. DOMAIN e = {"rx", "tx"} /\ \A s \in {"rx", "tx"} : e[s].count \in allowedChannelCounts
  BY <1>2, <1>4
<1> HIDE DEF e
<1>6. consistent(e) \in showable("channels", Sizes)
  BY <1>5, ConsistentIsShowable
<1>7. edit("channels", consistent(e))
  BY <1>3 DEF e
<1> QED BY <1>1, <1>6, <1>7, EditKeeps

LEMMA SelectProfileKeeps == SettingsInv /\ SelectProfile => SettingsInv'
<1> SUFFICES ASSUME SettingsInv, SelectProfile PROVE SettingsInv'
  OBVIOUS
<1>1. PICK id \in ProfileIds : edit("profile", id)
  BY DEF SelectProfile
<1>2. id \in Ids
  BY SettingsAssumption, TablesAgree
<1>3. id \in showable("profile", Sizes)
  BY <1>2, ShowableIs
<1>4. "profile" \in SettingsFiles \ flags
  BY DEF SettingsFiles, flags
<1> QED BY <1>1, <1>3, <1>4, EditKeeps

LEMMA SelectUnitKeeps == SettingsInv /\ SelectUnit => SettingsInv'
<1> SUFFICES ASSUME SettingsInv, SelectUnit PROVE SettingsInv'
  OBVIOUS
<1> DEFINE now == shown["unit"]
           units == optionFor(shown["profile"]).maxUnits
<1>1. /\ shown["unit"] \in showable("unit", Sizes)
      /\ shown["profile"] \in showable("profile", Sizes)
      /\ "unit" \in SettingsFiles \ flags
  BY DEF SelectUnit, idle, SettingsInv, ShownTyped, SettingsFiles, flags
<1>2. now \in [unitIndex : 1 .. 3, chainUnitChannels : Seq(Sizes \cap SwiftInts),
              playoutDelaySamples : 0 .. kMaxSamples]
  BY <1>1, ShowableIs
<1>3. units \in {1, 3}
  <2>1. shown["profile"] \in Ids
    BY <1>1, ShowableIs
  <2> QED BY <2>1, TablesAgree, RowsOfIds
<1>4. \/ \E unit \in 1 .. units : edit("unit", [now EXCEPT !.unitIndex = unit])
      \/ \E chain \in Chains : edit("unit", [now EXCEPT !.chainUnitChannels = chain])
      \/ edit("unit", [now EXCEPT !.playoutDelaySamples = kMaxSamples])
  BY DEF SelectUnit
<1> HIDE DEF now, units
<1>5. ASSUME NEW v \in [unitIndex : 1 .. 3, chainUnitChannels : Seq(Sizes \cap SwiftInts),
                       playoutDelaySamples : 0 .. kMaxSamples], edit("unit", v)
      PROVE  SettingsInv'
  <2>1. v \in showable("unit", Sizes)
    BY <1>5, ShowableIs
  <2> QED BY <1>1, <1>5, <2>1, EditKeeps
<1>6. CASE \E unit \in 1 .. units : edit("unit", [now EXCEPT !.unitIndex = unit])
  <2>1. PICK unit \in 1 .. units : edit("unit", [now EXCEPT !.unitIndex = unit])
    BY <1>6
  <2>2. unit \in 1 .. 3
    BY <1>3
  <2>3. [now EXCEPT !.unitIndex = unit] \in
          [unitIndex : 1 .. 3, chainUnitChannels : Seq(Sizes \cap SwiftInts), playoutDelaySamples : 0 .. kMaxSamples]
    BY <1>2, <2>2
  <2> QED BY <1>5, <2>1, <2>3
<1>7. CASE \E chain \in Chains : edit("unit", [now EXCEPT !.chainUnitChannels = chain])
  <2>1. PICK chain \in Chains : edit("unit", [now EXCEPT !.chainUnitChannels = chain])
    BY <1>7
  <2>2. chain \in Seq(Sizes \cap SwiftInts)
    <3>1. 0 .. maxChannels \subseteq Sizes \cap SwiftInts
      BY SizesAre, Words, SmallIsWhole DEF maxChannels
    <3> QED BY <3>1, SettingsAssumption, WiderSeq
  <2>3. [now EXCEPT !.chainUnitChannels = chain] \in
          [unitIndex : 1 .. 3, chainUnitChannels : Seq(Sizes \cap SwiftInts), playoutDelaySamples : 0 .. kMaxSamples]
    BY <1>2, <2>2
  <2> QED BY <1>5, <2>1, <2>3
<1>8. CASE edit("unit", [now EXCEPT !.playoutDelaySamples = kMaxSamples])
  <2>1. kMaxSamples \in 0 .. kMaxSamples
    BY DEF kMaxSamples
  <2>2. [now EXCEPT !.playoutDelaySamples = kMaxSamples] \in
          [unitIndex : 1 .. 3, chainUnitChannels : Seq(Sizes \cap SwiftInts), playoutDelaySamples : 0 .. kMaxSamples]
    BY <1>2, <2>1
  <2> QED BY <1>5, <1>8, <2>2
<1> QED BY <1>4, <1>6, <1>7, <1>8

LEMMA SelectPTPKeeps == SettingsInv /\ SelectPTP => SettingsInv'
<1> SUFFICES ASSUME SettingsInv, SelectPTP PROVE SettingsInv'
  OBVIOUS
<1> DEFINE ptp == shown["ptp"]
           forced == optionFor(shown["profile"]).ptpRole = "forcedMaster"
           Values == [masterCapable : BOOLEAN, ptpEnabled : BOOLEAN, requireLock : BOOLEAN,
                      priority1 : SwiftInts, syncIntervalMs : SwiftInts]
<1>1. ptp \in showable("ptp", Sizes) /\ "ptp" \in SettingsFiles \ flags
  BY DEF SelectPTP, idle, SettingsInv, ShownTyped, SettingsFiles, flags
<1>2. ptp \in Values
  BY <1>1, ShowableIs
<1>3. \/ edit("ptp", [ptp EXCEPT !.ptpEnabled = ~@])
      \/ edit("ptp", [ptp EXCEPT !.requireLock = ~@])
      \/ edit("ptp", [ptp EXCEPT !.masterCapable = ~@])
      \/ edit("ptp", [ptp EXCEPT !.masterCapable = forced])
  BY DEF SelectPTP
<1> HIDE DEF ptp
<1>4. /\ [ptp EXCEPT !.ptpEnabled = ~@] \in Values
      /\ [ptp EXCEPT !.requireLock = ~@] \in Values
      /\ [ptp EXCEPT !.masterCapable = ~@] \in Values
  BY <1>2
<1>5. [ptp EXCEPT !.masterCapable = forced] \in Values
  <2>1. forced \in BOOLEAN
    OBVIOUS
  <2> HIDE DEF forced
  <2> QED BY <1>2, <2>1
<1>6. ASSUME NEW v \in Values, edit("ptp", v) PROVE SettingsInv'
  <2>1. v \in showable("ptp", Sizes)
    BY <1>6, ShowableIs
  <2> QED BY <1>1, <1>6, <2>1, EditKeeps
<1> HIDE DEF Values
<1> QED BY <1>3, <1>4, <1>5, <1>6

-----------------------------------------------------------------------------
(* The other steps *)

LEMMA SetFlagKeeps ==
  ASSUME SettingsInv, NEW f \in flags, SetFlag(f)
  PROVE  SettingsInv'
<1>1. shown # Off /\ f \in SettingsFiles /\ shown[f] \in showable(f, Sizes)
  BY DEF SetFlag, idle, SettingsInv, ShownTyped, flags, SettingsFiles
<1>2. showable(f, Sizes) = BOOLEAN
  BY DEF showable, flags
<1> DEFINE v == ~shown[f]
<1>3. v \in showable(f, Sizes)
  BY <1>2
<1>4. job' = [file |-> f, keys |-> appSave(f, v), copying |-> FALSE]
  BY DEF SetFlag
<1> HIDE DEF v
<1>5. readable(appSave(f, v), Sizes)
  BY <1>1, <1>3, SaveIsReadable
<1>6. JobIsShown'
  <2>1. job'.file = f /\ job'.keys = appSave(f, v)
    BY <1>4
  <2>2. job' = [file |-> job'.file, keys |-> job'.keys, copying |-> job'.copying]
    BY <1>4
  <2>3. shown' = shown
    BY DEF SetFlag
  <2> QED BY <1>1, <1>5, <2>1, <2>2, <2>3 DEF JobIsShown
<1>7. UNCHANGED <<disk, shown, running, stored, ids, standing>>
  BY DEF SetFlag
<1> QED BY <1>6, <1>7 DEF SettingsInv, FilesTyped, StandingTyped, IdsTyped, ShownTyped,
           MineIsWhole, ShowsTheFile, RunsWhatWasRead, MadeOf

LEMMA AppLaunchKeeps == SettingsInv /\ AppLaunch => SettingsInv'
<1> SUFFICES ASSUME SettingsInv, AppLaunch PROVE SettingsInv'
  OBVIOUS
<1>1. /\ DOMAIN shown' = SettingsFiles \cup {"window"}
      /\ \A f \in SettingsFiles \ {"discovery"} : shown'[f] = appLoad(f, disk[f])
      /\ shown'["discovery"] \in BOOLEAN
  BY DEF AppLaunch, launch, SettingsFiles
<1>2. ASSUME NEW f \in SettingsFiles PROVE shown'[f] \in showable(f, Sizes)
  <2>1. CASE f = "discovery"
    BY <1>1, <2>1, ShowableIs
  <2>2. CASE f # "discovery"
    BY <1>1, <2>2, LoadIsShowable, SizesAre DEF SettingsInv, FilesTyped
  <2> QED BY <2>1, <2>2
<1>3. ShownTyped'
  BY <1>1, <1>2 DEF ShownTyped
<1>4. job = NoJob /\ UNCHANGED <<disk, job, running, stored, ids>>
  BY DEF AppLaunch, SettingsInv, JobIsShown
<1>5. /\ StandingTyped'
      /\ \A f \in SettingsFiles : /\ standing'[f].mine = standing[f].mine
                                /\ standing'[f].read = standing[f].read
                                /\ standing'[f].shows = (f # "discovery")
  BY DEF SettingsInv, StandingTyped, AppLaunch
<1>6. ShowsTheFile'
  BY <1>1, <1>4, <1>5 DEF ShowsTheFile
<1>7. MineIsWhole' /\ RunsWhatWasRead'
  BY <1>4, <1>5, StillWhole, StillMadeOf DEF SettingsInv
<1> QED BY <1>3, <1>4, <1>5, <1>6, <1>7 DEF SettingsInv, FilesTyped, IdsTyped, JobIsShown

LEMMA OpenSettingsKeeps == SettingsInv /\ OpenSettings => SettingsInv'
<1> SUFFICES ASSUME SettingsInv, OpenSettings PROVE SettingsInv'
  OBVIOUS
<1>1. shown # Off /\ job = NoJob /\ DOMAIN shown = SettingsFiles \cup {"window"}
  BY DEF SettingsInv, ShownTyped, OpenSettings, idle
<1>2. /\ DOMAIN shown' = SettingsFiles \cup {"window"}
      /\ shown'["discovery"] = appLoad("discovery", disk["discovery"])
      /\ \A f \in SettingsFiles \ {"discovery"} : shown'[f] = shown[f]
  BY <1>1 DEF OpenSettings, SettingsFiles
<1>3. appLoad("discovery", disk["discovery"]) \in showable("discovery", Sizes)
  BY LoadIsShowable, SizesAre DEF SettingsInv, FilesTyped, SettingsFiles
<1>4. ShownTyped'
  BY <1>1, <1>2, <1>3 DEF SettingsInv, ShownTyped
<1>5. UNCHANGED <<disk, job, running, stored, ids>>
  BY DEF OpenSettings
<1>6. /\ StandingTyped'
      /\ \A f \in SettingsFiles : /\ standing'[f].mine = standing[f].mine
                                /\ standing'[f].read = standing[f].read
      /\ \A f \in SettingsFiles \ {"discovery"} : standing'[f] = standing[f]
  BY DEF SettingsInv, StandingTyped, OpenSettings
<1>7. ShowsTheFile'
  BY <1>1, <1>2, <1>5, <1>6 DEF SettingsInv, ShowsTheFile
<1>8. MineIsWhole' /\ RunsWhatWasRead'
  BY <1>5, <1>6, StillWhole, StillMadeOf DEF SettingsInv
<1> QED BY <1>1, <1>4, <1>5, <1>6, <1>7, <1>8 DEF SettingsInv, FilesTyped, IdsTyped, JobIsShown

\* A flag may be read back while another setting is being copied.
LEMMA ReadBackKeeps ==
  ASSUME SettingsInv, NEW f \in flags, ReadBack(f)
  PROVE  SettingsInv'
<1>1. /\ shown # Off /\ f \in SettingsFiles
      /\ DOMAIN shown = SettingsFiles \cup {"window"}
  BY DEF SettingsInv, ShownTyped, ReadBack, flags, SettingsFiles
<1>2. /\ DOMAIN shown' = SettingsFiles \cup {"window"} /\ shown'[f] = appLoad(f, disk[f])
      /\ \A g \in SettingsFiles \ {f} : shown'[g] = shown[g]
  BY <1>1 DEF ReadBack
<1>3. appLoad(f, disk[f]) \in showable(f, Sizes)
  BY <1>1, LoadIsShowable, SizesAre DEF SettingsInv, FilesTyped
<1>4. ShownTyped'
  BY <1>1, <1>2, <1>3 DEF SettingsInv, ShownTyped
<1>5. UNCHANGED <<disk, job, running, stored, ids>> /\ shown' # Off
  BY <1>2, ShownIsOn DEF ReadBack
<1>6. /\ StandingTyped'
      /\ \A g \in SettingsFiles : /\ standing'[g].mine = standing[g].mine
                                /\ standing'[g].read = standing[g].read
      /\ \A g \in SettingsFiles \ {f} : standing'[g] = standing[g]
  BY DEF SettingsInv, StandingTyped, ReadBack
<1>7. JobIsShown'
  BY <1>2, <1>5 DEF SettingsInv, JobIsShown
<1>8. ShowsTheFile'
  BY <1>1, <1>2, <1>5, <1>6 DEF SettingsInv, ShowsTheFile
<1>9. MineIsWhole' /\ RunsWhatWasRead'
  BY <1>5, <1>6, StillWhole, StillMadeOf DEF SettingsInv
<1> QED BY <1>4, <1>5, <1>6, <1>7, <1>8, <1>9 DEF SettingsInv, FilesTyped, IdsTyped

\* A step that leaves the files alone, and shows, copies and runs what was or nothing.
LEMMA LessKeeps ==
  ASSUME SettingsInv, UNCHANGED <<disk, standing, stored, ids>>,
         shown' = shown \/ (shown' = Off /\ job' = NoJob), job' = job \/ job' = NoJob,
         running' = running \/ running' = Off
  PROVE  SettingsInv'
<1>1. FilesTyped(disk)' /\ StandingTyped' /\ IdsTyped' /\ ShownTyped'
  BY DEF SettingsInv, FilesTyped, StandingTyped, IdsTyped, ShownTyped
<1>2. JobIsShown'
  BY DEF SettingsInv, JobIsShown
<1>3. MineIsWhole' /\ ShowsTheFile'
  BY DEF SettingsInv, MineIsWhole, ShowsTheFile
<1>4. RunsWhatWasRead'
  BY StillMadeOf DEF SettingsInv
<1> QED BY <1>1, <1>2, <1>3, <1>4 DEF SettingsInv

LEMMA OthersKeep ==
  ASSUME SettingsInv,
         \/ AppQuit \/ Refused \/ Install \/ Uninstall \/ CoreAudioEnds \/ PowerLoss
         \/ UNCHANGED settingsVars
  PROVE  SettingsInv'
<1>1. /\ UNCHANGED <<disk, standing, stored, ids>>
      /\ shown' = shown \/ (shown' = Off /\ job' = NoJob)
      /\ job' = job \/ job' = NoJob
      /\ running' = running \/ running' = Off
  BY DEF AppQuit, Refused, Install, Uninstall, CoreAudioEnds, PowerLoss, settingsVars
<1> QED BY <1>1, LessKeeps

\* The file that is being replaced is nobody's until the copy ends.
LEMMA CopyBeginsKeeps == SettingsInv /\ CopyBegins => SettingsInv'
<1> SUFFICES ASSUME SettingsInv, CopyBegins PROVE SettingsInv'
  OBVIOUS
<1>1. PICK written \in SUBSET DOMAIN job.keys :
        disk' = [disk EXCEPT ![job.file] = file(FALSE, [k \in written |-> job.keys[k]])]
  BY DEF CopyBegins
<1> DEFINE f == job.file
           part == [k \in written |-> job.keys[k]]
<1>2. /\ shown # Off /\ f \in SettingsFiles /\ readable(job.keys, Sizes)
      /\ job = [file |-> job.file, keys |-> job.keys, copying |-> job.copying]
      /\ DOMAIN disk = SettingsFiles
  BY DEF SettingsInv, CopyBegins, JobIsShown, FilesTyped
<1>3. readable(part, Sizes)
  BY <1>2 DEF readable
<1> HIDE DEF part
<1>4. /\ DOMAIN disk' = SettingsFiles /\ disk'[f] = file(FALSE, part)
      /\ \A g \in SettingsFiles \ {f} : disk'[g] = disk[g]
  BY <1>1, <1>2 DEF part
<1>5. disk'[f].keys = part
  BY <1>4 DEF file
<1>6. FilesTyped(disk)'
  BY <1>3, <1>4, <1>5 DEF SettingsInv, FilesTyped
<1>7. /\ StandingTyped' /\ ~standing'[f].mine /\ ~standing'[f].read
      /\ \A g \in SettingsFiles \ {f} : standing'[g] = standing[g]
  BY <1>2 DEF SettingsInv, StandingTyped, CopyBegins
<1>8. UNCHANGED <<shown, running, stored, ids>>
  BY DEF CopyBegins
<1>9. JobIsShown'
  <2>1. job' = [job EXCEPT !.copying = TRUE]
    BY DEF CopyBegins
  <2>2. /\ job'.file = job.file /\ job'.keys = job.keys
        /\ job' = [file |-> job'.file, keys |-> job'.keys, copying |-> job'.copying]
    BY <1>2, <2>1
  <2>3. job # NoJob
    BY DEF CopyBegins
  <2> QED BY <1>2, <1>8, <2>2, <2>3 DEF SettingsInv, JobIsShown
<1>10. MineIsWhole'
  BY <1>4, <1>7, StillWhole DEF SettingsInv
<1>11. ShowsTheFile'
  BY <1>4, <1>7, <1>8, StillShown DEF SettingsInv
<1>12. RunsWhatWasRead'
  BY <1>4, <1>7, <1>8, StillMadeOf DEF SettingsInv
<1> QED BY <1>6, <1>7, <1>8, <1>9, <1>10, <1>11, <1>12 DEF SettingsInv, ShownTyped, IdsTyped

LEMMA CopyEndsKeeps == SettingsInv /\ CopyEnds => SettingsInv'
<1> SUFFICES ASSUME SettingsInv, CopyEnds PROVE SettingsInv'
  OBVIOUS
<1> DEFINE f == job.file
<1>1. /\ shown # Off /\ f \in SettingsFiles /\ readable(job.keys, Sizes)
      /\ f \notin flags => job.keys = appSave(f, shown[f])
      /\ shown[f] \in showable(f, Sizes) /\ DOMAIN disk = SettingsFiles
  BY DEF SettingsInv, CopyEnds, JobIsShown, ShownTyped, FilesTyped
<1>2. /\ DOMAIN disk' = SettingsFiles /\ disk'[f] = file(TRUE, job.keys)
      /\ \A g \in SettingsFiles \ {f} : disk'[g] = disk[g]
  BY <1>1 DEF CopyEnds
<1>3. disk'[f].keys = job.keys /\ disk'[f].whole
  BY <1>2 DEF file
<1>4. FilesTyped(disk)'
  BY <1>1, <1>2, <1>3 DEF SettingsInv, FilesTyped
<1>5. /\ UNCHANGED <<shown, stored, ids>> /\ job' = NoJob
      /\ running' = running \/ running' = Off
  BY DEF CopyEnds
<1>6. standing' = [standing EXCEPT ![f] = [mine |-> TRUE, shows |-> f \notin flags, read |-> FALSE]]
  BY DEF CopyEnds
<1>7. /\ StandingTyped' /\ ~standing'[f].read /\ (standing'[f].shows => f \notin flags)
      /\ \A g \in SettingsFiles \ {f} : standing'[g] = standing[g]
  <2>1. [mine |-> TRUE, shows |-> f \notin flags, read |-> FALSE] \in
          [mine : BOOLEAN, shows : BOOLEAN, read : BOOLEAN]
    OBVIOUS
  <2> QED BY <1>1, <1>6, <2>1 DEF SettingsInv, StandingTyped
<1> HIDE DEF f
<1>8. f = "channels" => channelsAreValid(job.keys)
  <2>1. f = "channels" => f \notin flags
    BY DEF flags
  <2> QED BY <1>1, <2>1, SavedChannelsAreValid
<1>13. f = "unit" => asWritten(job.keys)
  <2>1. f = "unit" => f \notin flags
    BY DEF flags
  <2> QED BY <1>1, <2>1, SavedUnitIsAsWritten
<1>9. MineIsWhole'
  BY <1>2, <1>3, <1>7, <1>8, <1>13 DEF SettingsInv, MineIsWhole
<1>10. f \notin flags => shown[f] = appLoad(f, disk'[f])
  BY <1>1, <1>2, SavedIsReadBack
<1>11. ShowsTheFile'
  BY <1>1, <1>2, <1>5, <1>7, <1>10 DEF SettingsInv, ShowsTheFile
<1>12. RunsWhatWasRead'
  BY <1>2, <1>5, <1>7, StillMadeOf DEF SettingsInv
<1> QED BY <1>4, <1>5, <1>7, <1>9, <1>11, <1>12
        DEF SettingsInv, ShownTyped, IdsTyped, JobIsShown

LEMMA HandEditKeeps == SettingsInv /\ HandEdit => SettingsInv'
<1> SUFFICES ASSUME SettingsInv, HandEdit PROVE SettingsInv'
  OBVIOUS
<1>1. PICK h \in HandFiles :
        /\ disk' = [disk EXCEPT ![h[1]] = file(TRUE, h[2])]
        /\ standing' = [standing EXCEPT ![h[1]] = [mine |-> h[3], shows |-> FALSE, read |-> FALSE]]
  BY DEF HandEdit
<1>2. /\ h[1] \in SettingsFiles /\ h[3] \in BOOLEAN
      /\ h[1] = "channels" /\ h[3] => channelsAreValid(h[2])
      /\ h[1] = "unit" /\ h[3] => asWritten(h[2])
  BY SettingsAssumption
<1>3. readable(h[2], Sizes)
  BY SizesAre
<1>4. /\ DOMAIN disk' = SettingsFiles /\ disk'[h[1]] = file(TRUE, h[2])
      /\ \A g \in SettingsFiles \ {h[1]} : disk'[g] = disk[g]
  BY <1>1, <1>2 DEF SettingsInv, FilesTyped
<1>5. disk'[h[1]].keys = h[2] /\ disk'[h[1]].whole
  BY <1>4 DEF file
<1>6. FilesTyped(disk)'
  BY <1>3, <1>4, <1>5 DEF SettingsInv, FilesTyped
<1>7. /\ StandingTyped' /\ ~standing'[h[1]].read /\ ~standing'[h[1]].shows
      /\ standing'[h[1]].mine = h[3]
      /\ \A g \in SettingsFiles \ {h[1]} : standing'[g] = standing[g]
  BY <1>1, <1>2 DEF SettingsInv, StandingTyped
<1>8. UNCHANGED <<shown, job, running, stored, ids>>
  BY DEF HandEdit
<1>9. MineIsWhole'
  BY <1>2, <1>4, <1>5, <1>7 DEF SettingsInv, MineIsWhole
<1>10. ShowsTheFile'
  BY <1>4, <1>7, <1>8, StillShown DEF SettingsInv
<1>11. RunsWhatWasRead'
  BY <1>4, <1>7, <1>8, StillMadeOf DEF SettingsInv
<1> QED BY <1>6, <1>7, <1>8, <1>9, <1>10, <1>11
        DEF SettingsInv, ShownTyped, IdsTyped, JobIsShown

LEMMA DriverStartsKeeps == SettingsInv /\ DriverStarts => SettingsInv'
<1> SUFFICES ASSUME SettingsInv, DriverStarts PROVE SettingsInv'
  OBVIOUS
<1> DEFINE active == field(disk["active"].keys, "active", TRUE)
           id == IF keptId(stored) # 0 THEN keptId(stored) ELSE ids + 1
<1>1. stored \in Nat /\ ids \in Nat /\ keptId(stored) = stored
  BY DEF SettingsInv, IdsTyped, keptId
<1>2. id \in Nat \ {0}
  BY <1>1
<1>3. /\ running' = IF active /\ ~stoulThrows(disk["unit"].keys)
                    THEN deviceSettings(disk, id) ELSE Off
      /\ ids' \in {ids, ids + 1} /\ stored' \in {id, stored}
  BY DEF DriverStarts
<1>4. active \in BOOLEAN
  BY FieldTyped DEF SettingsInv, FilesTyped, SettingsFiles
<1> HIDE DEF id
<1>5. IdsTyped'
  BY <1>1, <1>2, <1>3 DEF IdsTyped
<1>6. UNCHANGED <<disk, shown, job>>
  BY DEF DriverStarts
<1>7. /\ StandingTyped'
      /\ \A f \in SettingsFiles : /\ standing'[f].mine = standing[f].mine
                                /\ standing'[f].shows = standing[f].shows
  BY DEF SettingsInv, StandingTyped, DriverStarts
<1>8. MineIsWhole'
  BY <1>6, <1>7, StillWhole DEF SettingsInv
<1>9. ShowsTheFile'
  BY <1>6, <1>7, StillShown DEF SettingsInv
<1>10. RunsWhatWasRead'
  <2>1. PICK d : d = disk
    OBVIOUS
  <2>2. PICK i \in Nat \ {0} : i = id
    BY <1>2
  <2>3. CASE running' # Off
    <3>1. active /\ running' = deviceSettings(d, i)
      BY <1>3, <1>4, <2>1, <2>2, <2>3
    <3>2. field(d["active"].keys, "active", TRUE) = TRUE
      BY <1>4, <2>1, <3>1
    <3>3. MadeOf(d, i)'
      BY <1>6, <2>1, <3>1, <3>2 DEF MadeOf, SettingsInv, FilesTyped
    <3> QED BY <3>3 DEF RunsWhatWasRead
  <2> QED BY <2>3 DEF RunsWhatWasRead
<1> QED BY <1>5, <1>6, <1>7, <1>8, <1>9, <1>10
        DEF SettingsInv, FilesTyped, ShownTyped, JobIsShown

LEMMA SettingsStepInv == SettingsInv /\ [SettingsNext]_settingsVars => SettingsInv'
<1> SUFFICES ASSUME SettingsInv, [SettingsNext]_settingsVars PROVE SettingsInv'
  OBVIOUS
<1>1. CASE \E f \in flags : SetFlag(f) \/ ReadBack(f)
  BY <1>1, SetFlagKeeps, ReadBackKeeps
<1> QED BY <1>1, AppLaunchKeeps, SelectChannelsKeeps, ApplyDetectedLayoutKeeps,
           SelectProfileKeeps, SelectUnitKeeps, SelectPTPKeeps, OpenSettingsKeeps,
           CopyBeginsKeeps, CopyEndsKeeps, DriverStartsKeeps, HandEditKeeps, OthersKeep
        DEF SettingsNext

-----------------------------------------------------------------------------
(* What follows from the invariant *)

LEMMA DeviceIs ==
  ASSUME NEW d, NEW id
  PROVE  LET r == deviceSettings(d, id)
             kind == loadCompatibilityProfile(d["profile"].keys)
             channels == loadChannels(d["channels"].keys)
             unit == loadUnit(d["unit"].keys)
         IN  /\ r.rx = totalChannelCount(channels.rx) /\ r.tx = totalChannelCount(channels.tx)
             /\ kind \in Ids /\ r.profile = kind
             /\ r.txFlowPortOffset = flowOffsetForUnit(unit.chainUnitChannels, r.tx,
                                        clampedUnit(unit.unitIndex, forKind(kind).maxUnits))
             /\ r.playoutDelaySamples = unit.playoutDelaySamples
             /\ r.ptp = loadPTP(d["ptp"].keys)
             /\ field(d["discovery"].keys, "runEveryRoute", FALSE) =>
                  r.runSap /\ r.nodeId = id
<1> DEFINE r == deviceSettings(d, id)
           kind == loadCompatibilityProfile(d["profile"].keys)
           channels == loadChannels(d["channels"].keys)
           unit == loadUnit(d["unit"].keys)
<1>1. /\ kindFromString(field(d["profile"].keys, "profile", "aes67")) = kind /\ kind \in Ids
      /\ forKind(kind).kind = kind
  BY ProfileReadAlike, TablesAgree
<1>2. /\ r.rx = totalChannelCount(channels.rx) /\ r.tx = totalChannelCount(channels.tx)
      /\ r.playoutDelaySamples = unit.playoutDelaySamples
      /\ r.ptp = loadPTP(d["ptp"].keys)
  BY DEF deviceSettings
<1>3. r.profile = kind
  BY <1>1 DEF deviceSettings
<1>4. r.txFlowPortOffset = flowOffsetForUnit(unit.chainUnitChannels, r.tx,
                             clampedUnit(unit.unitIndex, forKind(kind).maxUnits))
  BY <1>1 DEF deviceSettings
<1>5. field(d["discovery"].keys, "runEveryRoute", FALSE) => r.runSap /\ r.nodeId = id
  BY DEF deviceSettings
<1> QED BY <1>1, <1>2, <1>3, <1>4, <1>5

LEMMA AppliedIs ==
  ASSUME SettingsInv, shown # Off, NEW d, NEW id, MadeOf(d, id), NEW f \in SettingsFiles,
         applied(f)
  PROVE  /\ readable(d[f].keys, Sizes) /\ contents(d[f]) = d[f].keys
         /\ shown[f] = appLoad(f, d[f])
         /\ f = "channels" => channelsAreValid(d[f].keys)
         /\ f = "unit" => asWritten(d[f].keys)
<1>1. standing[f].mine /\ standing[f].shows /\ standing[f].read
  BY DEF applied
<1>2. d[f] = disk[f]
  BY <1>1 DEF MadeOf
<1> QED BY <1>1, <1>2 DEF SettingsInv, FilesTyped, MineIsWhole, ShowsTheFile, contents

LEMMA InvAppliedIsShown == SettingsInv => AppliedIsShown
<1> SUFFICES ASSUME SettingsInv, shown # Off, running # Off PROVE AppliedIsShown
  BY DEF AppliedIsShown
<1>1. PICK d : \E id \in Nat \ {0} : MadeOf(d, id)
  BY DEF SettingsInv, RunsWhatWasRead
<1>2. PICK id \in Nat \ {0} : MadeOf(d, id)
  BY <1>1
<1> DEFINE mine == optionFor(shown["profile"])
           tx == totalChannelCount(shown["channels"].tx)
           unit == Min({shown["unit"].unitIndex, mine.maxUnits})
           chain == shown["unit"].chainUnitChannels
           kind == loadCompatibilityProfile(d["profile"].keys)
           its == loadUnit(d["unit"].keys)
<1>3. running = deviceSettings(d, id) /\ field(d["active"].keys, "active", TRUE) = TRUE
  BY <1>2 DEF MadeOf
<1>4. applied("active") => shown["active"]
  <2>1. applied("active") => shown["active"] = field(d["active"].keys, "active", TRUE)
    BY <1>2, AppliedIs, AppLoadIs DEF SettingsFiles
  <2> QED BY <1>3, <2>1
<1>5. applied("channels") =>
        running.rx = totalChannelCount(shown["channels"].rx) /\ running.tx = tx
  <2>1. applied("channels") => shown["channels"] = loadChannels(d["channels"].keys)
    BY <1>2, AppliedIs, AppLoadIs, ChannelsReadAlike DEF SettingsFiles
  <2>2. /\ running.rx = totalChannelCount(loadChannels(d["channels"].keys).rx)
        /\ running.tx = totalChannelCount(loadChannels(d["channels"].keys).tx)
    BY <1>3, DeviceIs
  <2> QED BY <2>1, <2>2
<1>6. applied("profile") => shown["profile"] = kind
  BY <1>2, AppliedIs, AppLoadIs DEF SettingsFiles
<1>7. applied("profile") => \A k \in DOMAIN mine : mine[k] = forKind(running.profile)[k]
  <2>1. running.profile = kind /\ kind \in Ids
    BY <1>3, DeviceIs
  <2> HIDE DEF kind
  <2> QED BY <1>6, <2>1, TablesAgree DEF Agrees
<1>8. applied("unit") => shown["unit"] = loadAmplifierUnit(d["unit"].keys)
  BY <1>2, AppliedIs, AppLoadIs DEF SettingsFiles
<1>9. /\ readable(d["unit"].keys, Sizes)
      /\ applied("unit") => asWritten(d["unit"].keys)
  BY <1>2, AppliedIs DEF MadeOf, FilesTyped, SettingsFiles
<1>10. applied("unit") => running.playoutDelaySamples = shown["unit"].playoutDelaySamples
  <2>1. running.playoutDelaySamples = its.playoutDelaySamples
    BY <1>3, DeviceIs
  <2>2. 0 \in 0 .. 128 /\ 1 \in {1, 3}
    OBVIOUS
  <2> QED BY <1>8, <1>9, <2>1, <2>2, UnitsReadAlike
<1>11. /\ applied("unit") /\ applied("profile") /\ applied("channels")
       /\ \A i \in DOMAIN chain : chain[i] \in 0 .. maxChannels
       => running.txFlowPortOffset = shownOffset
  <2> SUFFICES ASSUME applied("unit"), applied("profile"), applied("channels"),
                      \A i \in DOMAIN chain : chain[i] \in 0 .. maxChannels
               PROVE  running.txFlowPortOffset = txSourcePortOffset(chain, tx, unit)
    BY DEF shownOffset
  <2>1. kind \in Ids /\ running.txFlowPortOffset =
          flowOffsetForUnit(its.chainUnitChannels, running.tx,
                            clampedUnit(its.unitIndex, forKind(kind).maxUnits))
    BY <1>3, DeviceIs
  <2> HIDE DEF kind
  <2>2. mine.maxUnits = forKind(kind).maxUnits /\ forKind(kind).maxUnits \in {1, 3}
    BY <1>6, <2>1, TablesAgree DEF Agrees, OptionFields, ValueFields
  <2>3. PICK m \in {1, 3} : m = forKind(kind).maxUnits
    BY <2>2
  <2>4. running.txFlowPortOffset =
          flowOffsetForUnit(its.chainUnitChannels, tx, clampedUnit(its.unitIndex, m))
    BY <1>5, <2>1, <2>3
  <2>5. unit = Min({loadAmplifierUnit(d["unit"].keys).unitIndex, m})
    BY <1>8, <2>2, <2>3
  <2>6. tx \in 0 .. 128
    <3>1. tx = totalChannelCount(loadChannels(d["channels"].keys).tx)
      BY <1>3, <1>5, DeviceIs
    <3>2. tx \in allowedChannelCounts
      BY <1>2, <3>1, DriverChannels DEF MadeOf, FilesTyped, SettingsFiles
    <3> HIDE DEF tx
    <3> QED BY <3>2, AllowedAre
  <2>7. chain = loadAmplifierUnit(d["unit"].keys).chainUnitChannels
        /\ \A i \in DOMAIN chain : chain[i] \in 0 .. 128
    BY <1>8 DEF maxChannels
  <2> HIDE DEF unit, tx, chain
  <2>8. flowOffsetForUnit(its.chainUnitChannels, tx, clampedUnit(its.unitIndex, m))
          = txSourcePortOffset(chain, tx, Min({loadAmplifierUnit(d["unit"].keys).unitIndex, m}))
    BY <1>9, <2>6, <2>7, UnitsReadAlike
  <2> HIDE DEF its
  <2> QED BY <2>4, <2>5, <2>8
<1>12. applied("ptp") => shown["ptp"] = loadPTPMasterSettings(d["ptp"].keys)
  BY <1>2, AppliedIs, AppLoadIs DEF SettingsFiles
<1>13. applied("ptp") =>
         /\ \A k \in {"masterCapable", "ptpEnabled", "requireLock"} :
              running.ptp[k] = shown["ptp"][k]
         /\ running.ptp.priority1 =
              (IF signed(shown["ptp"].priority1, Word) THEN shown["ptp"].priority1 ELSE 128) % 256
  <2>1. running.ptp = loadPTP(d["ptp"].keys)
    BY <1>3, DeviceIs
  <2> DEFINE o == d["ptp"].keys
  <2> HIDE DEF o
  <2>2. /\ loadPTP(o).masterCapable = loadPTPMasterSettings(o).masterCapable
        /\ loadPTP(o).ptpEnabled = loadPTPMasterSettings(o).ptpEnabled
        /\ loadPTP(o).requireLock = loadPTPMasterSettings(o).requireLock
    BY Zenon DEF loadPTP, loadPTPMasterSettings
  <2> DEFINE p == swiftField(o, "priority1", 128)
  <2>3. loadPTP(o).priority1 = (IF signed(p, Word) THEN p ELSE 128) % 256
    <3>1. readable(o, Sizes)
      BY <1>2 DEF MadeOf, FilesTyped, SettingsFiles, o
    <3>2. (IF signed(p, Word) THEN p ELSE 128) = extractIntField(o, "priority1", 128)
      BY <3>1, Words DEF readable, swiftField, extractIntField, SwiftInts, signed
    <3> QED BY <3>2 DEF loadPTP
  <2>4. loadPTPMasterSettings(o).priority1 = p
    BY DEF loadPTPMasterSettings
  <2> HIDE DEF p
  <2> QED BY <1>12, <2>1, <2>2, <2>3, <2>4 DEF o
<1>14. applied("discovery") /\ shown["discovery"] => running.runSap /\ running.nodeId # 0
  <2>1. applied("discovery") =>
          shown["discovery"] = field(d["discovery"].keys, "runEveryRoute", FALSE)
    BY <1>2, AppliedIs, AppLoadIs DEF SettingsFiles
  <2> QED BY <1>3, <2>1, DeviceIs
<1> HIDE DEF kind, its, unit
<1> QED BY <1>4, <1>5, <1>7, <1>10, <1>11, <1>13, <1>14 DEF AppliedIsShown

LEMMA InvSettingsUsable ==
  ASSUME ChainsInRange, SettingsInv
  PROVE  SettingsUsable
<1> SUFFICES ASSUME running # Off PROVE SettingsUsable
  BY DEF SettingsUsable
<1>1. PICK d : \E id \in Nat \ {0} : MadeOf(d, id)
  BY DEF SettingsInv, RunsWhatWasRead
<1>2. PICK id \in Nat \ {0} : MadeOf(d, id)
  BY <1>1
<1> DEFINE kind == loadCompatibilityProfile(d["profile"].keys)
           its == loadUnit(d["unit"].keys)
           units == forKind(kind).maxUnits
<1>3. /\ running = deviceSettings(d, id)
      /\ \A f \in SettingsFiles : readable(d[f].keys, Sizes)
  BY <1>2 DEF MadeOf, FilesTyped
<1>4. /\ running.rx \in allowedChannelCounts /\ running.tx \in allowedChannelCounts
  BY <1>3, DeviceIs, DriverChannels DEF SettingsFiles
<1>5. /\ its.unitIndex \in 1 .. 3 /\ its.playoutDelaySamples \in 0 .. kMaxSamples
      /\ \A i \in DOMAIN its.chainUnitChannels : its.chainUnitChannels[i] \in 0 .. 128
  <2>1. Sizes = -128 .. 128 /\ Sizes \subseteq Int
    BY SizesAre
  <2> QED BY <1>3, <2>1, UnitTyped DEF SettingsFiles
<1>6. running.playoutDelaySamples =< kMaxSamples
  <2>1. running.playoutDelaySamples = its.playoutDelaySamples
    BY <1>3, DeviceIs
  <2> DEFINE n == its.playoutDelaySamples
  <2>2. n \in 0 .. kMaxSamples
    BY <1>5, Zenon
  <2>3. kMaxSamples \in Int
    BY DEF kMaxSamples
  <2> HIDE DEF n
  <2>4. n =< kMaxSamples
    BY <2>2, <2>3
  <2> QED BY <2>1, <2>4, Zenon DEF n
<1>7. /\ kind \in Ids /\ running.profile = kind
      /\ running.txFlowPortOffset = flowOffsetForUnit(its.chainUnitChannels, running.tx,
                                                     clampedUnit(its.unitIndex, units))
  BY <1>3, DeviceIs
<1>8. units \in {1, 3}
  <2> HIDE DEF kind
  <2> QED BY <1>7, TablesAgree
<1> HIDE DEF its, units
<1>9. /\ clampedUnit(its.unitIndex, units) \in Int
      /\ units = 1 => clampedUnit(its.unitIndex, units) =< 1
  <2>1. its.unitIndex \in 1 .. 3
    BY <1>5
  <2> QED BY <1>8, <2>1, MinOfTwo DEF clampedUnit
<1>10. running.txFlowPortOffset =< 32
  <2>1. running.tx \in 0 .. 128
    BY <1>4, AllowedAre
  <2> QED BY <1>5, <1>7, <1>9, <2>1, OffsetsAgree
<1>11. units = 1 => running.txFlowPortOffset = 0
  BY <1>7, <1>9, FirstUnit
<1>12. running.ptp = loadPTP(d["ptp"].keys) /\ readable(d["ptp"].keys, Sizes)
  BY <1>3, DeviceIs DEF SettingsFiles
<1> DEFINE o == d["ptp"].keys
<1> HIDE DEF o
<1>13. /\ loadPTP(o).priority1 = extractIntField(o, "priority1", 128) % 256
       /\ loadPTP(o).logSyncInterval = migrateLogInterval(o, -3)
  BY DEF loadPTP
<1>14. running.ptp.priority1 \in 0 .. 255
  <2>1. extractIntField(o, "priority1", 128) \in Int
    BY <1>12 DEF o, readable, extractIntField
  <2> QED BY <1>12, <1>13, <2>1 DEF o
<1>15. hasPeriod(running.ptp.logSyncInterval) \/ running.ptp.logSyncInterval = -10
  BY <1>12, <1>13, IntervalInRange DEF o
<1>16. forKind(running.profile).maxUnits = units
  BY <1>7 DEF units
<1> QED BY <1>4, <1>6, <1>10, <1>11, <1>14, <1>15, <1>16 DEF SettingsUsable

\* A setting the app wrote to the end and shows is the one a device constructed since runs
\* with, whatever edits, refused prompts, copies cut short, files left by hand and restarts of
\* either program came between.  Nothing is said of a file somebody edited that has not been
\* saved again; an older version's is taken to hold what its app wrote (SettingsAssumption).
\* Of the numbers in it, the source ports are only those shown where every size in the chain
\* is from 0 to 128, and a priority that does not fit an int is the driver's default.
THEOREM AppliedAlwaysShown == SettingsSpec => []AppliedIsShown
<1>1. SettingsInv => AppliedIsShown
  BY InvAppliedIsShown
<1> QED BY <1>1, SettingsInitInv, SettingsStepInv, PTL DEF SettingsSpec

\* And what a device runs with can work, whatever else the files hold: the channels fit the
\* buffers, the delay the receivers, the source ports two units' flows (if the sizes of a
\* chain are within 128 either way: ChainsInRange), the priority its eight bits, and the
\* Sync period is not zero (but for the file AskedIsClamped tells of).  A file that stoul()
\* throws at leaves no device, and nothing to say.
THEOREM SettingsAlwaysHold ==
  ASSUME ChainsInRange
  PROVE  SettingsSpec => []SettingsHold
<1>1. SettingsInv => SettingsHold
  BY InvAppliedIsShown, InvSettingsUsable DEF SettingsHold
<1> QED BY <1>1, SettingsInitInv, SettingsStepInv, PTL DEF SettingsSpec
=============================================================================
