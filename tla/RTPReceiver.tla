---------------------------- MODULE RTPReceiver ----------------------------
(***************************************************************************)
(* RTPReceiver (aes67-macos-driver/NetworkEngine/RTP/RTPReceiver.cpp): one *)
(* received stream.  A receive thread takes RTP packets from the socket    *)
(* and adds them to the jitter buffer; a consume thread waits for a        *)
(* cushion of packets and then asks the buffer for one packet per packet   *)
(* interval, in sequence order; a control thread starts and stops both.    *)
(*                                                                         *)
(* The jitter buffer is module JitterBuffer, step by step: the receive     *)
(* thread is its writer and the consume thread its reader.  The sender     *)
(* numbers its packets from FirstNumber on; the wire carries the number    *)
(* modulo SeqMod, and the number is the packet's tag.  The network loses,  *)
(* duplicates, delays and reorders packets.  Pacing is abstracted to "one  *)
(* tick of the consume loop at some later time", which covers the adaptive *)
(* rate matching; decoding and the writes into the device rings are the    *)
(* update of lastPlayed.                                                   *)
(***************************************************************************)
EXTENDS JitterBuffer

CONSTANTS
  PlayoutPackets, \* playout delay in packets, as configured
  FirstNumber,    \* number of the sender's first packet
  MaxPackets,     \* bound: packets the sender sends
  MaxDuplicates,  \* bound: copies the network makes
  MaxDelay,       \* bound: how many packets may overtake one in the network
  MaxStall,       \* bound: ticks of the consume loop during one addPacket()
  MaxStops        \* bound: calls of stop()

ASSUME ReceiverAssumption ==
  /\ PlayoutPackets \in Nat /\ FirstNumber \in Nat /\ MaxPackets \in Nat
  /\ MaxDuplicates \in Nat /\ MaxDelay \in Nat /\ MaxStall \in Nat
  /\ MaxStops \in Nat
  /\ Tags = FirstNumber..(FirstNumber + MaxPackets - 1)
  /\ OversizeTags = {}

VARIABLES
  running_,
  connected_,              \* a packet arrived since start()
  expectedSequenceNumber_, \* the sequence number the consumer wants next
  prefillComplete_,
  rxpc,        \* receive thread: "off", "loop", "add" (about to call
               \* addPacket) or "adding" (inside it)
  rxPacket,    \* receive thread: the packet being processed
  cpc,         \* consume thread: "off", "prefill", "tick", "get" (inside
               \* getNextPacket) or "missed"
  ctl,         \* control thread: "idle", or "join" (inside stop())
  nextToSend,  \* sender: number of the next packet
  net,         \* packets in the network
  duplicates,  \* copies the network has made
  stops,       \* calls of stop() so far
  stall,       \* ticks of the consume loop since addPacket() was entered
  position,    \* history: the number the consumer's position stands for
  newest,      \* history: highest number received since start(), -1 if none
  lastPlayed,  \* history: last number played since start(), -1 if none
  lossAhead    \* history: the consumer counted as lost a packet that nothing
               \* received so far had overtaken

rxVars == <<running_, connected_, expectedSequenceNumber_, prefillComplete_,
            rxpc, rxPacket, cpc, ctl, nextToSend, net, duplicates, stops, stall,
            position, newest, lastPlayed, lossAhead>>
netVars == <<nextToSend, net, duplicates>>
vars == <<jbVars, rxVars>>

packet(n) == [seq |-> n % SeqMod, tag |-> n]

nextSeq(seq) == (seq + 1) % SeqMod

min(a, b) == IF a =< b THEN a ELSE b
max(a, b) == IF a >= b THEN a ELSE b

\* The constructor: at least one packet of cushion, and never more than the
\* buffer has slots.
prefillPacketCount_ == min(max(PlayoutPackets, 1), BufferSize)

Init ==
  /\ JBInit
  /\ running_ = FALSE /\ connected_ = FALSE
  /\ expectedSequenceNumber_ = 0 /\ prefillComplete_ = FALSE
  /\ rxpc = "off" /\ rxPacket = NoPacket /\ cpc = "off" /\ ctl = "idle"
  /\ nextToSend = FirstNumber /\ net = {} /\ duplicates = 0 /\ stops = 0 /\ stall = 0
  /\ position = 0 /\ newest = -1 /\ lastPlayed = -1 /\ lossAhead = FALSE

-----------------------------------------------------------------------------
(* Sender and network *)

Send ==
  /\ nextToSend < FirstNumber + MaxPackets
  /\ nextToSend' = nextToSend + 1
  /\ net' = {n \in net : n + MaxDelay >= nextToSend} \cup {nextToSend}
  /\ UNCHANGED <<jbVars, running_, connected_, expectedSequenceNumber_, prefillComplete_,
                 rxpc, rxPacket, cpc, ctl, duplicates, stops, stall,
                 position, newest, lastPlayed, lossAhead>>

Lose(n) ==
  /\ n \in net
  /\ net' = net \ {n}
  /\ UNCHANGED <<jbVars, running_, connected_, expectedSequenceNumber_, prefillComplete_,
                 rxpc, rxPacket, cpc, ctl, nextToSend, duplicates, stops, stall,
                 position, newest, lastPlayed, lossAhead>>

-----------------------------------------------------------------------------
(* Control thread *)

\* start() with the socket opened.  When it cannot be opened, or the receiver
\* already runs, start() returns false and changes nothing.
Start ==
  /\ ctl = "idle" /\ ~running_
  /\ Reset
  /\ expectedSequenceNumber_' = 0
  /\ prefillComplete_' = FALSE
  /\ running_' = TRUE
  /\ rxpc' = "loop" /\ cpc' = "prefill"
  /\ newest' = -1 /\ lastPlayed' = -1 /\ position' = 0
  /\ UNCHANGED <<connected_, rxPacket, ctl, netVars, stops, stall, lossAhead>>

Stop ==
  /\ ctl = "idle" /\ running_
  /\ stops < MaxStops
  /\ stops' = stops + 1
  /\ running_' = FALSE
  /\ ctl' = "join"
  /\ UNCHANGED <<jbVars, connected_, expectedSequenceNumber_, prefillComplete_, rxpc,
                 rxPacket, cpc, netVars, stall, position, newest, lastPlayed, lossAhead>>

\* Mutant: connected_ survives stop(), so the next start() never learns where
\* the stream is.
Joined_stillConnected ==
  /\ ctl = "join"
  /\ rxpc = "off" /\ cpc = "off"
  /\ ctl' = "idle"
  /\ UNCHANGED <<jbVars, running_, connected_, expectedSequenceNumber_, prefillComplete_, rxpc,
                 rxPacket, cpc, netVars, stops, stall, position, newest, lastPlayed, lossAhead>>

\* Both joins returned: the socket is closed.
Joined ==
  /\ ctl = "join"
  /\ rxpc = "off" /\ cpc = "off"
  /\ connected_' = FALSE
  /\ ctl' = "idle"
  /\ UNCHANGED <<jbVars, running_, expectedSequenceNumber_, prefillComplete_, rxpc,
                 rxPacket, cpc, netVars, stops, stall, position, newest, lastPlayed, lossAhead>>

-----------------------------------------------------------------------------
(* Receive thread *)

\* processPacket() up to addPacket().  A packet validatePacket() refuses is
\* counted and changes nothing else.
ReceivePacket(n) ==
  /\ rxpc = "loop" /\ running_
  /\ n \in net
  /\ \/ net' = net \ {n} /\ UNCHANGED duplicates
     \/ duplicates < MaxDuplicates /\ duplicates' = duplicates + 1 /\ UNCHANGED net
  /\ connected_' = TRUE
  /\ IF connected_
     THEN UNCHANGED <<expectedSequenceNumber_, position>>
     ELSE expectedSequenceNumber_' = n % SeqMod /\ position' = n
  /\ newest' = max(newest, n)
  /\ rxPacket' = packet(n)
  /\ rxpc' = "add"
  /\ UNCHANGED <<jbVars, running_, prefillComplete_, cpc, ctl, nextToSend, stops, stall,
                 lastPlayed, lossAhead>>

\* addPacket() begins, or finds the slot occupied and drops the packet.
AddPacket ==
  /\ rxpc = "add"
  /\ \/ ClaimSlot(rxPacket) /\ rxpc' = "adding" /\ stall' = 0
     \/ /\ state[getIndex(rxPacket.seq)] # "EMPTY"
        /\ rxpc' = "loop"
        /\ UNCHANGED <<jbVars, stall>>
  /\ UNCHANGED <<running_, connected_, expectedSequenceNumber_, prefillComplete_, rxPacket,
                 cpc, ctl, netVars, stops, position, newest, lastPlayed, lossAhead>>

AddStep ==
  /\ rxpc = "adding"
  /\ AddSteps
  /\ rxpc' = IF wpc' = "idle" THEN "loop" ELSE "adding"
  /\ UNCHANGED <<running_, connected_, expectedSequenceNumber_, prefillComplete_, rxPacket,
                 cpc, ctl, netVars, stops, stall, position, newest, lastPlayed, lossAhead>>

\* The loop sees running_ false, or select() fails on the socket.
ReceiveExits ==
  /\ rxpc = "loop"
  /\ rxpc' = "off"
  /\ UNCHANGED <<jbVars, running_, connected_, expectedSequenceNumber_, prefillComplete_,
                 rxPacket, cpc, ctl, netVars, stops, stall, position, newest, lastPlayed, lossAhead>>

-----------------------------------------------------------------------------
(* Consume thread *)

\* Phase 1 sleeps for a packet interval while the cushion is too small.
OpenGate ==
  /\ cpc = "prefill" /\ running_
  /\ validPackets_ >= prefillPacketCount_
  /\ prefillComplete_' = TRUE
  /\ cpc' = "tick"
  /\ UNCHANGED <<jbVars, running_, connected_, expectedSequenceNumber_, rxpc, rxPacket, ctl,
                 netVars, stops, stall, position, newest, lastPlayed, lossAhead>>

Tick ==
  /\ cpc = "tick" /\ running_
  /\ TakeSlot(expectedSequenceNumber_)
  /\ IF rxpc = "adding"
     THEN stall < MaxStall /\ stall' = stall + 1
     ELSE stall' = 0
  /\ cpc' = "get"
  /\ UNCHANGED <<running_, connected_, expectedSequenceNumber_, prefillComplete_, rxpc,
                 rxPacket, ctl, netVars, stops, position, newest, lastPlayed, lossAhead>>

GetStep ==
  /\ cpc = "get"
  /\ GetSteps
  /\ UNCHANGED rxVars

\* getNextPacket() returned the packet: move on and play it.
Play ==
  /\ cpc = "get" /\ rpc = "idle" /\ result # NoPacket
  /\ expectedSequenceNumber_' = nextSeq(rseq)
  /\ position' = position + 1
  /\ lastPlayed' = result.tag
  /\ cpc' = "tick"
  /\ UNCHANGED <<jbVars, running_, connected_, prefillComplete_, rxpc, rxPacket, ctl,
                 netVars, stops, stall, newest, lossAhead>>

Miss ==
  /\ cpc = "get" /\ rpc = "idle" /\ result = NoPacket
  /\ cpc' = "missed"
  /\ UNCHANGED <<jbVars, running_, connected_, expectedSequenceNumber_, prefillComplete_,
                 rxpc, rxPacket, ctl, netVars, stops, stall, position, newest, lastPlayed, lossAhead>>

\* Mutant: a lost packet is waited for.
SkipLost_waits ==
  /\ cpc = "missed"
  /\ validPackets_ > 0
  /\ cpc' = "tick"
  /\ UNCHANGED <<jbVars, running_, connected_, expectedSequenceNumber_, prefillComplete_,
                 rxpc, rxPacket, ctl, netVars, stops, stall, position, newest, lastPlayed,
                 lossAhead>>

\* Other packets are buffered: the expected one is taken to be lost.
SkipLost ==
  /\ cpc = "missed"
  /\ validPackets_ > 0
  /\ expectedSequenceNumber_' = nextSeq(rseq)
  /\ position' = position + 1
  /\ lossAhead' = (lossAhead \/ newest =< position)
  /\ cpc' = "tick"
  /\ UNCHANGED <<jbVars, running_, connected_, prefillComplete_, rxpc, rxPacket, ctl,
                 netVars, stops, stall, newest, lastPlayed>>

\* The buffer is empty: stay at the same sequence number.
Underrun ==
  /\ cpc = "missed"
  /\ validPackets_ = 0
  /\ cpc' = "tick"
  /\ UNCHANGED <<jbVars, running_, connected_, expectedSequenceNumber_, prefillComplete_,
                 rxpc, rxPacket, ctl, netVars, stops, stall, position, newest, lastPlayed, lossAhead>>

\* Mutant: the pre-fill loop does not look at running_.
ConsumeExits_tickOnly ==
  /\ cpc = "tick" /\ ~running_
  /\ cpc' = "off"
  /\ UNCHANGED <<jbVars, running_, connected_, expectedSequenceNumber_, prefillComplete_,
                 rxpc, rxPacket, ctl, netVars, stops, stall, position, newest, lastPlayed, lossAhead>>

ConsumeExits ==
  /\ cpc \in {"prefill", "tick"} /\ ~running_
  /\ cpc' = "off"
  /\ UNCHANGED <<jbVars, running_, connected_, expectedSequenceNumber_, prefillComplete_,
                 rxpc, rxPacket, ctl, netVars, stops, stall, position, newest, lastPlayed, lossAhead>>

-----------------------------------------------------------------------------

Consume == OpenGate \/ Tick \/ GetStep \/ Play \/ Miss \/ SkipLost \/ Underrun \/ ConsumeExits

Next ==
  \/ Send
  \/ \E n \in Tags : Lose(n) \/ ReceivePacket(n)
  \/ Start \/ Stop \/ Joined
  \/ AddPacket \/ AddStep \/ ReceiveExits
  \/ Consume

\* Both threads are loops that sleep for bounded times; the control thread's
\* join returns once they are gone.  Nothing is assumed of the network, of
\* select(), or of who calls start() and stop().
Fairness ==
  /\ WF_vars(AddPacket \/ AddStep)
  /\ WF_vars(ReceiveExits /\ ~running_)
  /\ WF_vars(Consume)
  /\ WF_vars(Joined)

Spec == Init /\ [][Next]_vars /\ Fairness

-----------------------------------------------------------------------------
(* Properties *)

\* Every variable of the receiver has its type.
RxTypeOK ==
  /\ JBTypeOK
  /\ running_ \in BOOLEAN /\ connected_ \in BOOLEAN /\ prefillComplete_ \in BOOLEAN
  /\ expectedSequenceNumber_ \in Seqs
  /\ rxpc \in {"off", "loop", "add", "adding"}
  /\ cpc \in {"off", "prefill", "tick", "get", "missed"}
  /\ ctl \in {"idle", "join"}
  /\ net \subseteq Tags

\* The consume thread asks for packets only once the first packet has told it
\* where the stream starts, and its 16-bit position always stands for the
\* packet it believes it is at.
KnowsItsPosition ==
  cpc \in {"tick", "get", "missed"} =>
    connected_ /\ position >= FirstNumber /\ expectedSequenceNumber_ = position % SeqMod

\* ... and every variable has its type.
PositionKept == RxTypeOK /\ KnowsItsPosition

\* Audio never goes back: within one run of the receiver every packet played is
\* later in the stream than the one before, whatever the network does, and
\* although sequence numbers wrap and stale packets sit in the slots.
PlaysForward ==
  [][lastPlayed' # lastPlayed /\ lastPlayed' # -1 => lastPlayed' > lastPlayed]_vars

\* Once the sender has fallen silent the consumer works through whatever is
\* buffered, late, duplicated and stale packets included: a missing packet is
\* skipped and never stalls it.
Drains ==
  (running_ /\ prefillComplete_ /\ nextToSend = FirstNumber + MaxPackets /\ net = {})
    ~> (validPackets_ = 0 \/ ~running_)

\* stop() returns.
StopReturns == (ctl = "join") ~> (ctl = "idle")

\* Refuted: a packet counted as lost has been overtaken by one already received.
LossIsReal == ~lossAhead
=============================================================================
