---------------------------- MODULE AudioDevice ----------------------------
(***************************************************************************)
(* The audio path between Core Audio and one stream: AES67Device and its   *)
(* AES67IOHandler on one side, the thread of an RTPTransmitter (direction  *)
(* "out") or of an RTPReceiver's consumer ("in") on the other, and one     *)
(* ring per device channel between them.                                   *)
(*                                                                         *)
(* Neither side moves a frame of every channel at once: each goes through  *)
(* the channels one by one, and the other may run in between. A ring is a  *)
(* bounded queue here (RingBuffer shows that it is one); a frame is the    *)
(* number its writer gave it, and 0 is silence. libASPL's lock ioMutex_    *)
(* makes an IO cycle and StartIO/StopIO exclude each other; streamsMutex_  *)
(* does the same for whatever starts or stops the stream's thread.         *)
(***************************************************************************)
EXTENDS Integers, Sequences, FiniteSets

CONSTANTS
  Directions,    \* a subset of {"in", "out"}
  Devices,       \* device channels, and
  Width,         \* channels of the stream
  RingSize,      \* capacity of a ring, in frames
  Block,         \* frames of an IO cycle
  Rates,         \* kSupportedSampleRates, in frames per Second
  FirstRate,     \* currentSampleRate_ as constructed
  Second,        \* clock units in a second
  PacketTime,    \* ptime of a stream that states no framecount, in clock units
  PacketRoom,    \* frames that fit a packet of this width
  SeqModulus, TsModulus,    \* 2^16 and 2^32; the first divides the second
  MaxFrames,     \* bound: frames a writer makes
  MaxFaults,     \* bound: system calls that fail
  MaxChanges     \* bound: starts, stops and configuration changes

ASSUME AudioAssumption ==
  /\ {Devices, Width, RingSize, Block, PacketTime} \subseteq Nat
  /\ Rates \subseteq Nat \ {0}
  /\ {Second, PacketRoom, SeqModulus, TsModulus} \subseteq Nat \ {0}
  /\ \E k \in 1..TsModulus : TsModulus = SeqModulus * k

DevCh == 0..(Devices - 1)
StreamCh == 0..(Width - 1)
NoStream == [rate |-> 0, framecount |-> 0, encoding |-> ""]
Offers == [rate : Rates, framecount : 0..1, encoding : {"L24", "AM824"}]

\* The mappings a controller asks for: the block from a start, or routes in order.
Mappings ==
  {[start |-> s, routes |-> <<>>] : s \in 0..1} \cup
  {[start |-> 0, routes |-> r] :
     r \in {<< <<0, 1>> >>, << <<0, 1>>, <<0, 0>> >>, << <<1, 0>>, <<0, 1>> >>}}

VARIABLES
  dir,
  clients,      \* libASPL's startCount_
  ioRunning,    \* ioRunning_, and StreamManager's ioActive_
  halRate,      \* libASPL's nominalSampleRate_: what Core Audio runs at
  rate,         \* currentSampleRate_
  managerRate,  \* StreamManager::currentDeviceSampleRate_
  stream,       \* the stream's description, or NoStream
  mapping,
  ring,         \* per device channel
  cycle,        \* the IO cycle under way: its next channel, Devices for none
  thread,       \* the stream's thread: running_, where it is, its next channel, and
                \* readDeviceChannels()'s hadUnderrun
  socket,       \* the stream's socket is open
  pace,         \* transmitLoop's remainderCarry, and how far the schedule is
                \* from the exact one, in clock units / rate
  rtp,          \* sequenceNumber_, timestamp_, and packet times since start()
  made, heard,  \* per device channel: the writer's count, the last frame used
  joining,      \* who waits for the thread: "none", "io", "remap", "remove"
  faults, changes

halVars == <<clients, ioRunning, halRate, rate, managerRate>>
streamVars == <<stream, mapping, socket>>
threadVars == <<thread, pace, rtp>>
audioVars == <<dir, halVars, streamVars, ring, cycle, threadVars, made, heard,
          joining, faults, changes>>

Idle == [running |-> FALSE, at |-> "off", ch |-> 0, under |-> FALSE]
Started == [Idle EXCEPT !.running = TRUE, !.at = "top"]
FirstPacket == [seq |-> 0, ts |-> 0, slot |-> 0]
OnTime == [carry |-> 0, ahead |-> 0]

AudioInit ==
  /\ dir \in Directions
  /\ clients = 0 /\ ioRunning = FALSE
  /\ halRate = FirstRate /\ rate = FirstRate /\ managerRate = FirstRate
  /\ stream = NoStream /\ mapping = [start |-> 0, routes |-> <<>>] /\ socket = FALSE
  /\ ring = [d \in DevCh |-> <<>>] /\ cycle = Devices
  /\ thread = Idle /\ pace = OnTime
  /\ rtp = FirstPacket
  /\ made = [d \in DevCh |-> 0] /\ heard = [d \in DevCh |-> 0]
  /\ joining = "none" /\ faults = 0 /\ changes = 0

-----------------------------------------------------------------------------
\* The rings' two operations, and what a stream's description comes to.

smaller(a, b) == IF a < b THEN a ELSE b
put(r, frames) == r \o SubSeq(frames, 1, smaller(Len(frames), RingSize - Len(r)))
rest(r, n) == SubSeq(r, smaller(n, Len(r)) + 1, Len(r))
numbered(from, n) == [i \in 1..n |-> from + i]

\* read() and the silence that stands for what it did not return.
filled(r, n) == [i \in 1..n |-> IF i <= Len(r) THEN r[i] ELSE 0]

framesPerPacket(o) ==
  IF o.framecount > 0 THEN o.framecount ELSE (o.rate * PacketTime) \div Second

\* The constructor of RTPTransmitter: never an empty never one over the
\* buffers.
samplesPerPacket(o) ==
  LET n == framesPerPacket(o)
  IN IF n = 0 THEN 1 ELSE smaller(n, PacketRoom)

packetInterval(o) ==
  LET n == samplesPerPacket(o) * Second
  IN [whole |-> n \div o.rate, remainder |-> n % o.rate]

mappingFitsDevice(m) ==
  IF m.routes = <<>> THEN m.start + Width <= Devices
  ELSE \A i \in DOMAIN m.routes : m.routes[i][1] \in StreamCh /\ m.routes[i][2] \in DevCh

\* The device channels a stream channel is written to (RTPReceiver) ...
routesOf(m, s) == {i \in DOMAIN m.routes : m.routes[i][1] = s}
mapChannelsToDevice(m, s) ==
  IF m.routes = <<>> THEN {m.start + s} ELSE {m.routes[i][2] : i \in routesOf(m, s)}

\* ... and the one it is read from (RTPTransmitter): the first route wins, and
\* Devices stands for none.
readFrom(m, s) ==
  CASE m.routes = <<>> -> m.start + s
    [] routesOf(m, s) # {} ->
         LET first == CHOOSE i \in routesOf(m, s) : \A j \in routesOf(m, s) : i <= j
         IN m.routes[first][2]
    [] OTHER -> Devices

-----------------------------------------------------------------------------
\* start() and stop() of the stream's thread.

\* The system calls that open a socket. One that its stream does not call for (the
\* source port, the interface, the group of a unicast address) does not fail.
SocketCalls == {"socket", "reuse", "bind", "ttl", "interface", "join", "timeout", "buffer", "dscp"}

\* Whether the socket is open afterwards, with the call that fails, if one does. A
\* fatal one closes what those before it opened. To share the port, to widen the
\* buffer and to mark the traffic is best effort.
openTransmitter(failing) == failing \notin {"socket", "bind", "ttl", "interface"}

\* A receiver must share its port and join its group; its buffer and its timeout
\* are best effort.
openReceiver(failing) == failing \notin {"socket", "reuse", "bind", "interface", "join"}

openSocket(failing) == IF dir = "out" THEN openTransmitter(failing) ELSE openReceiver(failing)

\* start() refuses a stream whose socket is open.
start ==
  \E failing \in SocketCalls \cup {"none"} :
    LET ok == openSocket(failing) IN
    /\ ok \/ faults < MaxFaults
    /\ IF socket
       THEN UNCHANGED <<socket, thread, pace, rtp, faults>>
       ELSE /\ socket' = ok
            /\ faults' = IF ok THEN faults ELSE faults + 1
            /\ thread' = IF ok THEN Started ELSE Idle
            /\ pace' = OnTime /\ rtp' = FirstPacket

noStart == UNCHANGED <<socket, thread, pace, rtp, faults>>

\* stop() up to the join: whoever called it waits, holding the locks it holds.
stop(who) ==
  /\ thread' = [thread EXCEPT !.running = FALSE]
  /\ joining' = who
  /\ UNCHANGED <<socket, pace, rtp, faults>>

free == joining = "none"
changing == free /\ changes < MaxChanges /\ changes' = changes + 1

\* ioMutex_: no IO cycle is under way, and StopIO is not.
ioFree == cycle = Devices /\ joining # "io"

StartIO ==
  /\ changing /\ ioFree /\ clients < 2
  /\ clients' = clients + 1
  /\ IF clients = 0 /\ stream # NoStream THEN start ELSE noStart
  /\ ioRunning' = TRUE
  /\ UNCHANGED <<dir, halRate, rate, managerRate, stream, mapping, ring, cycle, made,
                 heard, joining>>

StopIO ==
  /\ changing /\ ioFree /\ clients > 0
  /\ IF clients = 1 /\ thread.running
     THEN stop("io") /\ UNCHANGED <<clients, ioRunning>>
     ELSE /\ clients' = clients - 1 /\ ioRunning' = (clients > 1)
          /\ noStart /\ UNCHANGED joining
  /\ UNCHANGED <<dir, halRate, rate, managerRate, stream, mapping, ring, cycle, made, heard>>

\* The thread has ended: stop() closes the socket and its caller goes on.
Joined ==
  /\ ~free /\ thread.at = "off"
  /\ joining' = "none"
  /\ IF joining = "io" THEN clients' = 0 /\ ioRunning' = FALSE ELSE UNCHANGED <<clients, ioRunning>>
  /\ IF joining = "remove" THEN stream' = NoStream ELSE UNCHANGED stream
  /\ IF joining = "remap"
     THEN \E failing \in SocketCalls \cup {"none"} :
            LET ok == openSocket(failing) IN
            /\ ok \/ faults < MaxFaults
            /\ faults' = IF ok THEN faults ELSE faults + 1
            /\ socket' = ok
            /\ \E m \in Mappings : mappingFitsDevice(m) /\ mapping' = m
            /\ thread' = IF ok THEN Started ELSE Idle
            /\ pace' = OnTime /\ rtp' = FirstPacket
     ELSE socket' = FALSE /\ UNCHANGED <<mapping, thread, pace, rtp, faults>>
  /\ UNCHANGED <<dir, halRate, rate, managerRate, ring, cycle, made, heard, changes>>

-----------------------------------------------------------------------------
\* Streams and rates: StreamManager's side, under streamsMutex_.

\* Mutant: the profile leaves the encoding to the stream.
encodingAllowed_any(o) == TRUE

\* allowedEncodings of every profile is within what the codec carries.
encodingAllowed(o) == o.encoding \in {"L16", "L24"}

AddStream(o) ==
  /\ changing /\ stream = NoStream
  /\ encodingAllowed(o)                                 \* profile.validate()
  /\ o.rate = managerRate                               \* validateSampleRate()
  /\ framesPerPacket(o) <= PacketRoom                   \* validatePacketBudget()
  /\ IF ioRunning THEN start ELSE noStart
  /\ stream' = IF ioRunning /\ ~thread'.running THEN NoStream ELSE o
  /\ UNCHANGED <<dir, halVars, mapping, ring, cycle, made, heard, joining>>

RemoveStream ==
  /\ changing /\ stream # NoStream
  /\ IF thread.running
     THEN stop("remove") /\ UNCHANGED stream
     ELSE stream' = NoStream /\ noStart /\ UNCHANGED joining
  /\ UNCHANGED <<dir, halVars, mapping, ring, cycle, made, heard>>

updateMapping ==
  /\ changing /\ stream # NoStream
  /\ IF thread.running
     THEN stop("remap") /\ UNCHANGED mapping
     ELSE /\ \E m \in Mappings : mappingFitsDevice(m) /\ mapping' = m
          /\ noStart /\ UNCHANGED joining
  /\ UNCHANGED <<dir, halVars, stream, ring, cycle, made, heard>>

\* The rate StreamManager goes by afterwards: it refuses one a stream is not at.
setDeviceSampleRate(r) ==
  IF stream = NoStream \/ stream.rate = r THEN r ELSE managerRate

SetSampleRate(r) ==
  /\ changing /\ ~ioRunning
  /\ rate' = r
  /\ managerRate' = setDeviceSampleRate(r)
  /\ UNCHANGED <<dir, clients, ioRunning, halRate, streamVars, ring, cycle, threadVars,
                 made, heard, joining, faults>>

\* Core Audio selects one of the rates the device lists. libASPL keeps it
\* (SetNominalSampleRateImpl), and AES67Device does not override that.
SetNominalSampleRate(r) ==
  /\ changing /\ clients = 0 /\ r # halRate
  /\ halRate' = r
  /\ UNCHANGED <<dir, clients, ioRunning, rate, managerRate, streamVars, ring, cycle,
                 threadVars, made, heard, joining, faults>>

-----------------------------------------------------------------------------
\* The IO cycle. One that comes when IO is not running reads and writes nothing.

BeginCycle ==
  /\ ioFree /\ ioRunning
  /\ dir = "out" => \A d \in DevCh : made[d] + Block <= MaxFrames
  /\ cycle' = 0
  /\ UNCHANGED <<dir, halVars, streamVars, ring, threadVars, made, heard, joining, faults,
                 changes>>

\* Mutant: a short write is offered again, whole, in the next cycle.
written_again(d) == IF Len(ring[d]) + Block > RingSize THEN made[d] ELSE made[d] + Block

\* What the client has moved past: a short write drops what did not fit.
written(d) == made[d] + Block

processOutput ==
  /\ dir = "out" /\ cycle \in DevCh
  /\ ring' = [ring EXCEPT ![cycle] = put(@, numbered(made[cycle], Block))]
  /\ made' = [made EXCEPT ![cycle] = written(cycle)]
  /\ cycle' = cycle + 1
  /\ UNCHANGED <<dir, halVars, streamVars, threadVars, heard, joining, faults, changes>>

\* The last frame that is not silence.
lastOf(frames, otherwise) ==
  LET kept == {i \in DOMAIN frames : frames[i] # 0}
  IN IF kept = {} THEN otherwise ELSE frames[CHOOSE i \in kept : \A j \in kept : j <= i]

processInput ==
  /\ dir = "in" /\ cycle \in DevCh
  /\ heard' = [heard EXCEPT ![cycle] = lastOf(filled(ring[cycle], Block), @)]
  /\ ring' = [ring EXCEPT ![cycle] = rest(@, Block)]
  /\ cycle' = cycle + 1
  /\ UNCHANGED <<dir, halVars, streamVars, threadVars, made, joining, faults, changes>>

-----------------------------------------------------------------------------
\* The stream's thread.

goes(at, ch) == thread' = [thread EXCEPT !.at = at, !.ch = ch]

Top ==
  /\ thread.at = "top"
  /\ IF thread.running THEN goes(IF dir = "out" THEN "sleep" ELSE "channels", 0) ELSE goes("off", 0)
  /\ UNCHANGED <<dir, halVars, streamVars, ring, cycle, pace, rtp, made, heard,
                 joining, faults, changes>>

\* Mutant: the interval is rounded to whole clock units, and what is left is lost.
step_rounded(o) == [units |-> packetInterval(o).whole, carry |-> 0]

\* The time to the next with the remainder carried.
step(o) ==
  LET exact == packetInterval(o)
      sum == pace.carry + exact.remainder
  IN [units |-> exact.whole + sum \div o.rate, carry |-> sum % o.rate]

Wake ==
  /\ thread.at = "sleep"
  /\ LET next == step(stream)
     IN pace' = [carry |-> next.carry,
                 ahead |-> pace.ahead + samplesPerPacket(stream) * Second - next.units * stream.rate]
  /\ goes("channels", 0)
  /\ UNCHANGED <<dir, halVars, streamVars, ring, cycle, rtp, made, heard, joining,
                 faults, changes>>

\* With the channels read the packet goes whether or not there was enough, unless
\* the loop has no codec for the stream's encoding: then the turn ends here, and
\* number and timestamp stay.
afterChannels == IF stream.encoding \in {"L16", "L24"} THEN "send" ELSE "top"

\* readDeviceChannels(), a channel at a time.
readDeviceChannel ==
  /\ dir = "out" /\ thread.at = "channels" /\ thread.ch \in StreamCh
  /\ LET n == samplesPerPacket(stream)
         d == readFrom(mapping, thread.ch)
     IN /\ IF d \in DevCh
           THEN /\ heard' = [heard EXCEPT ![d] = lastOf(filled(ring[d], n), @)]
                /\ ring' = [ring EXCEPT ![d] = rest(@, n)]
           ELSE UNCHANGED <<heard, ring>>
        /\ thread' = [thread EXCEPT !.ch = @ + 1,
                        !.under = (thread.ch > 0 /\ @) \/ (d \in DevCh /\ Len(ring[d]) < n)]
  /\ UNCHANGED <<dir, halVars, streamVars, cycle, pace, rtp, made, joining, faults, changes>>

ChannelsDone ==
  /\ dir = "out" /\ thread.at = "channels" /\ thread.ch = Width
  /\ goes(afterChannels, 0)
  /\ UNCHANGED <<dir, halVars, streamVars, ring, cycle, pace, rtp, made, heard,
                 joining, faults, changes>>

nextSeq(ok) == (rtp.seq + 1) % SeqModulus

\* sendPacket(), and the timestamp moved on whatever became of it.
sendPacket ==
  /\ thread.at = "send"
  /\ \E ok \in BOOLEAN :
       /\ ok \/ faults < MaxFaults
       /\ faults' = IF ok THEN faults ELSE faults + 1
       /\ rtp' = [seq |-> nextSeq(ok), ts |-> (rtp.ts + samplesPerPacket(stream)) % TsModulus,
                  slot |-> (rtp.slot + 1) % TsModulus]
  /\ goes("top", 0)
  /\ UNCHANGED <<dir, halVars, streamVars, ring, cycle, pace, made, heard, joining, changes>>

\* The consumer thread has a packet (RTPReceiver): it writes a stream channel to
\* its device channels, and its frames are lost where a ring is full.
deliver ==
  /\ dir = "in" /\ thread.at = "channels" /\ thread.ch \in StreamCh
  /\ LET n == samplesPerPacket(stream)
         to == mapChannelsToDevice(mapping, thread.ch)
     IN /\ \A d \in to : made[d] + n <= MaxFrames
        /\ ring' = [d \in DevCh |-> IF d \in to THEN put(ring[d], numbered(made[d], n)) ELSE ring[d]]
        /\ made' = [d \in DevCh |-> IF d \in to THEN made[d] + n ELSE made[d]]
  /\ goes("channels", thread.ch + 1)
  /\ UNCHANGED <<dir, halVars, streamVars, cycle, pace, rtp, heard, joining, faults,
                 changes>>

Delivered ==
  /\ dir = "in" /\ thread.at = "channels"
  /\ thread.ch = Width \/ \E d \in DevCh : made[d] + Block > MaxFrames
  /\ goes("top", 0)
  /\ UNCHANGED <<dir, halVars, streamVars, ring, cycle, pace, rtp, made, heard,
                 joining, faults, changes>>

-----------------------------------------------------------------------------
Cycle == BeginCycle \/ processOutput \/ processInput
Thread == Top \/ Wake \/ readDeviceChannel \/ ChannelsDone \/ sendPacket \/ deliver \/ Delivered
Control ==
  \/ StartIO \/ StopIO \/ RemoveStream \/ updateMapping
  \/ \E o \in Offers : AddStream(o)
  \/ \E r \in Rates : SetSampleRate(r) \/ SetNominalSampleRate(r)

AudioNext == Cycle \/ Thread \/ Control \/ Joined

\* The scheduler runs the stream's thread, finishes a cycle it has begun, and
\* wakes whoever joins a thread that has ended. Nothing makes a client start.
AudioFairness ==
  WF_audioVars(Thread) /\ WF_audioVars(processOutput \/ processInput) /\ WF_audioVars(Joined)

AudioSpec == AudioInit /\ [][AudioNext]_audioVars /\ AudioFairness

-----------------------------------------------------------------------------
\* However many packets have gone, the schedule is behind the exact one by less
\* than a clock unit: the rate the transmitter sends at is the rate it carries.
\* A remainder that is dropped adds up (RTPTransmitter.cpp:198).
NoDrift == thread.at # "off" => 0 <= pace.ahead /\ pace.ahead < stream.rate

\* The packet about to leave bears the number of its packet time since start(), in
\* both counters: a receiver that sees a gap of n numbers is missing exactly n
\* packets of audio, those that failed to leave among them.
OnTheGrid ==
  thread.at # "off" =>
    /\ rtp.seq = rtp.slot % SeqModulus
    /\ rtp.ts = (rtp.slot * samplesPerPacket(stream)) % TsModulus

\* A packet leaves on time and says which one it is.
OnSchedule == NoDrift /\ OnTheGrid

\* Frames of a device channel reach the other side in the order they were made
\* and none twice, through short writes, short reads, a stream that is stopped
\* or mapped elsewhere, and a packet that fails to leave.
PlayedInOrder ==
  \A d \in DevCh :
    LET all == <<heard[d]>> \o ring[d]
    IN \A i, j \in DOMAIN all : i < j => all[i] < all[j]

\* A stream that did not start, or was stopped, holds no socket: start() refuses
\* one whose socket is open, so a leak here is a stream that never plays again.
DormantIsClosed == thread.at = "off" /\ free => ~socket

\* The sound that leaves is the sound that came, once, in its order and on time, and
\* a stream that is stopped can be started again.
PlaysTruly == OnSchedule /\ PlayedInOrder /\ DormantIsClosed

\* A stream that is there while I/O runs sends packets, in whichever order the two
\* came, after a remap, a rate change or one client's leaving, and whether or not
\* anybody feeds the rings: what addStream() admits is what transmitLoop() can send,
\* and whoever stops the thread starts it again unless I/O or the stream ends.
flowing == dir = "out" /\ ioRunning /\ stream # NoStream /\ faults = 0
FlowsOn == flowing ~> (thread.at = "send" \/ ~flowing)

\* Refuted: a rate the device offers and Core Audio selects is the rate the
\* driver runs its streams at.
RateIsTaken == halRate = managerRate
=============================================================================
