------------------------------ MODULE PeerDelay ------------------------------
(***************************************************************************)
(* The peer delay exchange of PTPSlave (IEEE 1588-2008 sec 11.4): a port   *)
(* asks its neighbour, the neighbour answers with the time it received the *)
(* request (t2) and, in a second message, the time it answered (t3), and   *)
(* half of (t4 - t1) - (t3 - t2) is the delay of the cable.                *)
(*                                                                         *)
(* Two threads of the port share the exchange under pdelayMutex_: the      *)
(* request thread, which takes the mutex once before sendto() and once     *)
(* after, and the receive thread, which takes it once per message and once *)
(* more to finish.  The neighbour runs the same code's answering half, or  *)
(* is a one-step responder.  Time is in ticks; a datagram takes LinkDelay  *)
(* and up to MaxQueueing more, beyond which it counts as lost.             *)
(***************************************************************************)
EXTENDS Integers, Sequences, FiniteSetsExt, SequencesExt

CONSTANTS
    LinkDelay,        \* of the cable, each way
    MaxQueueing,      \* bound: what queues and a late recvfrom() may add
    MaxTurnaround,    \* bound: from the neighbour's receipt to its answer
    MaxAfterSend,     \* bound: from its sendto() to its reading of t3
    MaxHeldUp,        \* bound: how late the request thread may be
    RequestInterval,  \* delayReqIntervalMs, in ticks
    PeerOffset,       \* the neighbour's clock against ours
    FilterSize,       \* kDelayFilterSize
    MaxPdelayRequests       \* bound: requests of one behaviour

ASSUME PeerDelayAssumption ==
    /\ {LinkDelay, MaxQueueing, MaxTurnaround, MaxAfterSend, MaxHeldUp} \subseteq Nat
    /\ {RequestInterval, MaxPdelayRequests} \subseteq Nat
    /\ PeerOffset \in Int /\ FilterSize \in Nat \ {0}

VARIABLES
    pdNow,            \* the port's clock
    requester,        \* request thread: [pc, t1, deadline]
    exchange,         \* what pdelayMutex_ guards
    finishing,        \* receive thread inside completePdelay(): {} or {t3 - t2}
    inFlight,         \* datagrams
    answering,        \* the neighbour's receive thread in sendPdelayResp(), a set
    delayHistory,     \* delayHistory_, oldest first
    pathDelay         \* pathDelayNs_, -1 before the first measurement

peerDelayVars ==
    <<pdNow, requester, exchange, finishing, inFlight, answering, delayHistory, pathDelay>>

PeerDelayInit ==
    /\ pdNow = 1
    /\ requester = [pc |-> "idle", t1 |-> 0, deadline |-> 1]
    /\ exchange = [seq |-> 0, t1 |-> 0, t2 |-> 0, t4 |-> 0, correction |-> 0,
                   resp |-> FALSE, followUp |-> FALSE]
    /\ finishing = {}
    /\ inFlight = {}
    /\ answering = {}
    /\ delayHistory = <<>>
    /\ pathDelay = -1

Message(type, seq, time, correction, twoStep) ==
    [type |-> type, seq |-> seq, sent |-> pdNow, time |-> time,
     correction |-> correction, twoStep |-> twoStep]

\* Received now: not before the cable allows, and from inFlight.
Arrives(m) == m \in inFlight /\ m.sent + LinkDelay <= pdNow

(***************************************************************************)
(* The request thread                                                      *)
(***************************************************************************)

\* delayReqThread() when the interval is over: the sequence number, under
\* the mutex.  In peer-to-peer mode it needs no master.
sendPdelayReq ==
    /\ requester.pc = "idle"
    /\ pdNow >= requester.deadline
    /\ exchange.seq < MaxPdelayRequests
    /\ exchange' = [exchange EXCEPT !.seq = @ + 1]
    /\ requester' = [requester EXCEPT !.pc = "numbered"]
    /\ UNCHANGED <<pdNow, finishing, inFlight, answering, delayHistory, pathDelay>>

\* t1, then sendto(), which may fail.
requestSent ==
    /\ requester.pc = "numbered"
    /\ \/ /\ inFlight' = inFlight \cup {Message("Req", exchange.seq, 0, 0, FALSE)}
          /\ requester' = [requester EXCEPT !.pc = "sent", !.t1 = pdNow]
       \/ /\ requester' = [requester EXCEPT !.pc = "idle", !.deadline = pdNow + RequestInterval]
          /\ UNCHANGED inFlight
    /\ UNCHANGED <<pdNow, exchange, finishing, answering, delayHistory, pathDelay>>

\* Mutant: t1 is read when the exchange is noted, not before sendto().
t1Of_late == pdNow
t1Of == requester.t1

\* The second critical section: the exchange is this request's from now on.
requestNoted ==
    /\ requester.pc = "sent"
    /\ exchange' = [exchange EXCEPT !.t1 = t1Of, !.t4 = 0, !.t2 = 0, !.correction = 0,
                                    !.resp = TRUE, !.followUp = FALSE]
    /\ requester' = [requester EXCEPT !.pc = "idle", !.deadline = pdNow + RequestInterval]
    /\ UNCHANGED <<pdNow, finishing, inFlight, answering, delayHistory, pathDelay>>

(***************************************************************************)
(* The neighbour                                                           *)
(***************************************************************************)

\* handlePdelayReq(): t2 is the time of receipt.
handlePdelayReq(m) ==
    /\ Arrives(m) /\ m.type = "Req"
    /\ answering = {}
    /\ inFlight' = inFlight \ {m}
    /\ answering' = {[seq |-> m.seq, t2 |-> pdNow, answered |-> FALSE, since |-> pdNow]}
    /\ UNCHANGED <<pdNow, requester, exchange, finishing, delayHistory, pathDelay>>

\* sendPdelayResp(), first half: Pdelay_Resp with t2.
respSent ==
    /\ \E a \in answering :
          /\ ~a.answered
          /\ inFlight' = inFlight \cup {Message("Resp", a.seq, a.t2 + PeerOffset, 0, TRUE)}
          /\ answering' = {[a EXCEPT !.answered = TRUE, !.since = pdNow]}
    /\ UNCHANGED <<pdNow, requester, exchange, finishing, delayHistory, pathDelay>>

\* Second half: t3 is read once sendto() has returned, and sent.
followUpSent ==
    /\ \E a \in answering :
          /\ a.answered
          /\ inFlight' = inFlight \cup {Message("FollowUp", a.seq, pdNow + PeerOffset, 0, FALSE)}
    /\ answering' = {}
    /\ UNCHANGED <<pdNow, requester, exchange, finishing, delayHistory, pathDelay>>

\* A one-step neighbour: it answers later and says how much later.
oneStepAnswer(m) ==
    /\ Arrives(m) /\ m.type = "Req"
    /\ \E took \in 0..MaxTurnaround :
          /\ m.sent + LinkDelay + took <= pdNow
          /\ inFlight' = (inFlight \ {m}) \cup
                         {Message("Resp", m.seq, pdNow - took + PeerOffset, took, FALSE)}
    /\ UNCHANGED <<pdNow, requester, exchange, finishing, answering, delayHistory, pathDelay>>

(***************************************************************************)
(* The receive thread                                                      *)
(***************************************************************************)

\* handlePdelayResp() up to the unlock.  A one-step answer is complete.
handlePdelayResp(m) ==
    /\ finishing = {}
    /\ Arrives(m) /\ m.type = "Resp"
    /\ IF exchange.resp /\ m.seq = exchange.seq
       THEN /\ exchange' = [exchange EXCEPT !.t2 = m.time, !.t4 = pdNow,
                                            !.correction = @ + m.correction,
                                            !.resp = FALSE, !.followUp = m.twoStep]
            /\ finishing' = IF m.twoStep THEN {} ELSE {0}
       ELSE UNCHANGED <<exchange, finishing>>
    /\ inFlight' \in {inFlight, inFlight \ {m}}       \* it may come twice
    /\ UNCHANGED <<pdNow, requester, answering, delayHistory, pathDelay>>

\* handlePdelayRespFollowUp() up to the unlock.
handlePdelayRespFollowUp(m) ==
    /\ finishing = {}
    /\ Arrives(m) /\ m.type = "FollowUp"
    /\ IF exchange.followUp /\ m.seq = exchange.seq
       THEN /\ exchange' = [exchange EXCEPT !.correction = @ + m.correction, !.followUp = FALSE]
            /\ finishing' = {m.time - exchange.t2}
       ELSE UNCHANGED <<exchange, finishing>>
    /\ inFlight' \in {inFlight, inFlight \ {m}}
    /\ UNCHANGED <<pdNow, requester, answering, delayHistory, pathDelay>>

\* C++ division of integers rounds towards zero.
halved(x) == IF x >= 0 THEN x \div 2 ELSE -((-x) \div 2)

\* storeFilteredPathDelay(): the smallest of the recent measurements.
storeFilteredPathDelay(delay) ==
    IF delay < 0 THEN UNCHANGED <<delayHistory, pathDelay>>
    ELSE LET full == Append(delayHistory, delay)
         IN  /\ delayHistory' = IF Len(full) > FilterSize THEN Tail(full) ELSE full
             /\ pathDelay' = Min(ToSet(delayHistory'))

\* completePdelay(): the mutex is taken again, so a request noted in between
\* has cleared t4 and the measurement is dropped.
completePdelay ==
    /\ \E t3MinusT2 \in finishing :
          IF exchange.t1 = 0 \/ exchange.t4 = 0
          THEN UNCHANGED <<delayHistory, pathDelay>>
          ELSE storeFilteredPathDelay(
                   halved((exchange.t4 - exchange.t1) - t3MinusT2 - exchange.correction))
    /\ finishing' = {}
    /\ UNCHANGED <<pdNow, requester, exchange, inFlight, answering>>

(***************************************************************************)
(* The network and time                                                    *)
(***************************************************************************)

Lost(m) ==
    /\ inFlight' = inFlight \ {m}
    /\ UNCHANGED <<pdNow, requester, exchange, finishing, answering, delayHistory, pathDelay>>

requestsDone == exchange.seq = MaxPdelayRequests /\ requester.pc = "idle"

\* Threads are held up for no longer than their bounds; what has been under way
\* too long is lost.
PeerDelayTick ==
    /\ \A a \in answering :
          pdNow < a.since + (IF a.answered THEN MaxAfterSend ELSE MaxTurnaround)
    /\ requestsDone \/ pdNow < requester.deadline + MaxHeldUp
    /\ pdNow' = pdNow + 1
    /\ inFlight' = {m \in inFlight : pdNow' <= m.sent + LinkDelay + MaxQueueing}
    /\ ~(requestsDone /\ inFlight = {} /\ answering = {})
    /\ UNCHANGED <<requester, exchange, finishing, answering, delayHistory, pathDelay>>

PeerDelayNext ==
    \/ sendPdelayReq \/ requestSent \/ requestNoted
    \/ respSent \/ followUpSent \/ completePdelay
    \/ \E m \in inFlight :
          \/ handlePdelayReq(m) \/ oneStepAnswer(m)
          \/ handlePdelayResp(m) \/ handlePdelayRespFollowUp(m)
          \/ Lost(m)
    \/ PeerDelayTick

PeerDelaySpec == PeerDelayInit /\ [][PeerDelayNext]_peerDelayVars

(***************************************************************************)
(* The published path delay is shorter than the cable by no more than half *)
(* of what passes at the neighbour between sendto() and the reading of t3. *)
(* Losses, duplicates, late receipts, an answer that overtakes             *)
(* requestNoted and one mixed from two requests lengthen a measurement or  *)
(* make it negative, which is refused; a measurement below that would win  *)
(* the minimum and stay.                                                   *)
(***************************************************************************)
ShortOnlyByLateT3 == pathDelay # -1 => 2 * pathDelay + 1 >= 2 * LinkDelay - MaxAfterSend

\* What it rests on: an answer to the last request cannot be mixed with one to the
\* next into a measurement that is not clearly negative (one of -1 would be halved
\* to 0 and kept).
RequestsFarApart == RequestInterval >= 2 * LinkDelay + 3 * MaxQueueing + MaxTurnaround + 2

\* Refuted: "queueing only ever adds to a measurement" (storeFilteredPathDelay): a
\* t3 read late subtracts from it.
NeverShorterThanTheCable == pathDelay # -1 => pathDelay >= LinkDelay
=============================================================================
