# AES67: models, checks and proofs

This directory holds TLA+ models of the AES67 audio-over-IP system in `src/`:
the macOS Core Audio driver, its PTP daemon and manager application, the RAVENNA
node library and the Linux grandmaster. Beside them are the TLC configurations that
check them on small instances, and TLAPS proofs, for every size of the instance, of
most of what the runs check. `PROJECT.json` lists components, runs, mutants, the lines every
definition models, findings, hazards and theorems.

```
tlc -workers 2 -config Audio.cfg MCAudio                # a run
tlapm AudioProofs.tla                                   # proofs
```

## 1. The system

The driver (`packages/aes67-macos-driver`, over the portable `packages/aes67-core`)
shows network audio streams as channels of one device. A received stream is one
`RTPReceiver`, with two threads and a jitter buffer between them, that writes
decoded samples into one ring per device channel; Core Audio's thread reads the
rings. A transmitted stream is the reverse. `StreamManager` owns the streams,
`StreamChannelMapper` says which device channels each has. PTP gives the common
clock: a slave or master in the driver, or a daemon that serves several clients,
and a Linux machine with a GPS receiver may be the network's grandmaster. SAP, mDNS
and RTSP announce and find sessions. NMOS tells a registry what the device carries
and lets controllers connect and patch it. The manager application writes the
settings files and draws a routing matrix.

### Components, their state and operations

| Component | State | Operations | Talks to | What is hard |
|---|---|---|---|---|
| `SPSCRingBuffer` | storage, two indices | `write`, `read`, `reset` | network thread, Core Audio thread | two threads copying at once; full versus empty |
| `LockFreeCircularJitterBuffer` | slots with an atomic state, count | `addPacket`, `getNextPacket`, `reset` | receive and consume thread | slots one lap apart; count beside state |
| `RTPReceiver` | position, cushion gate, two threads | start, stop, the two loops, remap | socket, jitter buffer, rings | loss, reordering, duplicates, wrap, restart |
| `LockFreePacketPool` | a tagged stack of packets, flags, a count | acquire, release | receivers | lock-free stack; a head seen twice with other packets under it |
| `RTPTransmitter`, `AES67IOHandler`, `AES67Device` | schedule, numbers, rings, I/O flag, rate | send loop, I/O cycle, start/stop I/O, rate change, remap | rings, socket, Core Audio | channel-by-channel transfers interleaved; rounding |
| `StreamChannelMapper` | mapping per stream, owner per channel | add, update, remove, clear, find a block | `StreamManager` | two tables that must agree |
| `StreamManager` | streams, totals, grandmaster, I/O flag | add, remove, remap, follow, groups, load | mapper, RTP objects, file, SAP, NMOS | calls of several locked steps; partial failure |
| `StreamConfigManager`, `SDPParser`, profiles | the stream file; texts | save, load, parse, generate, validate | `StreamManager` | a file cut short; text that must read back |
| settings managers, `DriverManager` | settings files, what the app shows | edit, copy behind a prompt, load, clamp | app, driver, daemon | two programs with separate readers and arithmetic |
| `PTPSlave` | master, timestamps, lock filter, peer delay | receive and request threads, start, stop | network, clock | two threads, two-step messages, timeouts |
| `PTPMaster`, `PTPArbitrator`, Linux grandmaster | role, competitor, reference lock | announce, elect, monitor, holdover | network, slave, PPS | two hosts both master, or neither |
| PTP service, `PTPDInterface`, `PTPClockManager` | status with number and age, client, engine | publish, connect, read, fall back | daemon, audio side | crash and restart; stale lock |
| PTP peer and RTCP receiver tables, observers | rows with time last seen, sockets | message, query, reconcile, start, stop | network, HAL | limit, ageing only on query, lost membership |
| SAP, mDNS browser, RTSP discovery, session directory | lists with times, queue, group membership | announce, hear, withdraw, ask, file, sweep, tear down | network, manager | late, lost, duplicated and overtaking packets |
| mDNS responder and the announce tool | records published, announcements left, socket | publish, answer, withdraw, goodbye | network, browsers | lost packets, restart, order of withdrawal |
| NMOS registration (two clients) | registry in use, registered flag, published list | register, heartbeat, fail over, sync, leave | HTTP | lost registry, answers lost after the act |
| NMOS connection and channel mapping APIs | staged, active, pending, routes | PATCH, bulk, activate now or later, grid | controllers, host | promises overtaken by other requests |
| `ConnectionAPIServer` over the driver | copy of the driver's streams | synchronise, patch, activate, promise | driver, controllers | the driver changes underneath |
| RTSP and HTTP servers, clients | connection, deadline, running flag | accept, receive, answer, stop | anyone | slow peers, shutdown |
| `NmosController` and its matrix | nodes shown, passes, tasks | browse, refresh, route | devices | awaits between read and use |

### How they interact

- Control threads, the SAP listener and the connection API call `StreamManager`;
  it holds `streamsMutex_` for each step, and the mapper's own mutex inside it.
- `StreamManager` starts and stops RTP objects while holding `streamsMutex_`;
  `RTPReceiver::stop()` joins its threads, so it must always return.
- Receive and consume thread share only the jitter buffer, `running_`,
  `connected_` and the expected sequence number. Network and audio thread share
  only the rings, each written by one stream: `SingleProducer` is the link
  between the manager's bookkeeping and the ring's contract.
- The stream file is written after `streamsMutex_` has been released and taken again.
- The arbitrator polls the master's role and starts or stops the slave after it;
  `PTPDInterface` takes its lock from the daemon or from its own engine.
- Discovery has two paths (SAP listener; mDNS browser, queue and worker) into one
  directory; the sync thread of NMOS registration copies the streams, then posts
  them one by one.
- The application and the driver meet only in files: the application shows what it
  wrote, the driver reads when it is constructed.

### What makes each part correct

- Ring: it is a bounded queue, and the copies of the two threads never meet.
- Jitter buffer: it is an array of slots that packets enter and leave whole, and
  its count is the number of packets in it.
- Packet pool: a packet has one user, and none is lost.
- Audio path: frames of a channel arrive in order and once; packets leave on
  schedule and bear the number of their packet time.
- Receiver: it plays forward, knows its place, is never stuck, and stops.
- Mapper and manager: owners, mappings, records, totals, clock and file agree
  through failures, rollbacks, crashes and restarts.
- PTP: measurements do not mix exchanges; the path delay is not below the cable's; the
  lock is earned with the best master heard; the segment settles on one master; the
  audio side is told of a lock only while it is fresh, and is told again. (How far the
  code does the first two is in sections 3 and 5.)
- Discovery and observers: what is shown is what is there; a record that a browser
  holds leads to something that answers.
- NMOS: registry, API, host and application say the same.
- Servers: nobody is held for long, and `stop()` returns.
- Documents: what was written is what is read.

## 2. The modules

| Module | Models | Notes |
|---|---|---|
| `BoundedFifo` | what the ring promises | abstract: one step per `write` and `read` |
| `RingBuffer` | `Shared/RingBuffer.hpp` | one step per index access and per element copied |
| `SlotBuffer` | what the jitter buffer promises | abstract: a packet enters and leaves in one step |
| `JitterBuffer` | `LockFreeCircularJitterBuffer.cpp` | one step per shared access |
| `AudioDevice` | `AES67Device`, `AES67IOHandler`, `RTPTransmitter`'s thread, `SimpleRTP`, the receiver's ring side | one step per channel moved |
| `PacketPool` | `LockFreePacketPool` | one step per atomic access |
| `RTPReceiver` | `RTPReceiver.cpp`, composed with `JitterBuffer` | receive, consume and control thread, sender, network |
| `ChannelMapper` | `StreamChannelMapper.cpp` | one step per operation (each holds the mutex) |
| `StreamManager` | `StreamManager.cpp`, composed with `ChannelMapper` | one step per hold of `streamsMutex_` |
| `SessionDescription`, `StreamFile`, `Profiles` | `SDPParser.cpp`, `StreamConfig.cpp` with `JsonFields.cpp`, `CompatibilityProfile.cpp` | operators |
| `Documents` | a session heard, checked, played, saved, restored, announced | state machine over those three |
| `Settings` | the settings managers, `DriverManager.swift`, the views that edit | application, prompt, files, driver |
| `PTPSlave` | `PTPSlave.cpp`, end to end | receive, request and control thread, two grandmasters |
| `PeerDelay` | `PTPSlave.cpp`, peer to peer, both sides | request and receive thread, timed network |
| `ExternalReference` | the Linux daemon's PPS lock | operators and steps used by `Election` |
| `Election` | `PTPMaster`, `PTPArbitrator`, Linux `Grandmaster` | several hosts, lost Announces |
| `ClockService` | `PTPService`, `PTPDInterface`, `PTPClockManager`, the daemon | crash, eviction, fallback |
| `ObservationTable` | what the two tables share | operators |
| `PeerObserver`, `ReceiverMonitor` | `PTPPeerObserver`, `RTCPMonitor` with their tables | thread, sockets, queries |
| `Discovery` | SAP announcer and listener, `MDNSBrowser`, `RTSPSessionDiscovery`, `SessionDirectory`, bridge, `MulticastRejoiner` | one remote session end to end |
| `Advertiser` | the mDNS responder as the announce tool uses it | announcements, answers, goodbyes, one browser |
| `Registration` | both NMOS registration clients | two registries (external) |
| `ConnectionApi` | `ConnectionApi.cpp` | operators on one resource |
| `Patchbay` | the RAVENNA node: `ConnectionApi`, `ReceiverRouting`, `ChannelMappingApi` over the mapper | composed with `ChannelMapper` |
| `DriverConnection` | `ConnectionAPIServer` over the driver's patchers | uses `ConnectionApi` |
| `Exchange` | four servers and three clients | one connection served at a time |
| `RoutingController` | `NmosController.swift`, `RoutingMatrixView.swift` | one step between two awaits |
| `MCStreamManager` | | a small instance (that of `PTPSlave` is at its end) |
| `MCAudio`, `MCReceiver`, `MCClock`, `MCRegistration`, `MCControl`, `MCNetwork`, `MCDocuments` | | several instances in one run, see below |
| `AudioProofs` | | proofs about `RingBuffer`, `AudioDevice` |
| `ReceiverProofs` | | proofs about `JitterBuffer`, `RTPReceiver`, `PacketPool` |
| `StreamManagerProofs` | | proofs about `ChannelMapper`, `StreamManager` |
| `DeviceProofs`, `ClockProofs` | | proofs about `PTPSlave`, `Settings`; about `ClockService`, `PeerDelay`, `Election` |
| `ControlProofs` | | proofs about `PeerObserver`, `ReceiverMonitor`, `RoutingController`, `DriverConnection`, `Patchbay` |
| `NetworkProofs`, `DiscoveryProofs` | | proofs about `Advertiser`, `Registration`, `Exchange`; about `Discovery` |

Variables and operators have the source's names where TLA+ allows it
(`writeIndex_`, `validPackets_`, `evaluateBMCA`, `maybeRejoin`, `canAddStream`). A
definition whose name ends in `_something` after another (`EndWrite_early`) is a
mutant: a plausible bug that some property has to catch. History variables are
marked where they are declared. A definition marked *Refuted* in its comment states
what a document or comment of the repository says and the code does not do; no
passing run checks it.

**Runs of several parts.** Parts that share no variable are put together in one
`MC` module: the variable `part` chooses at the start which of them moves, the
others rest. The states of such a run are the sum and not the product of its
parts, and each part is explored as it would be alone. The fairness of a part
applies where it is the one that moves.

### Buffers and audio path

`write()` is `BeginWrite` (both indices loaded, the transfer clamped), `CopyIn` per
element, `EndWrite` (release store); `read()` likewise. The acquire and release
pairs on the indices make the interleaving of these steps the right model of memory.
`chunkCell` keeps the two-part `memcpy`, `wrap` the single conditional subtraction.
In the jitter buffer each compare-and-swap or store of a slot's state, the copy,
the number and the count are separate steps; `validPackets_` is a `size_t` and kept
modulo `SizeMax + 1`, so that a decrement at zero shows.

`AudioDevice` has one ring per device channel, as a bounded queue (which
`RefinesFifo` allows). Core Audio's cycle and the stream's thread move one channel
per step. A frame is the number its writer gave it. The schedule is kept with its
remainder, in units of the packet time times the rate, so a step that is rounded
shows. `Devices` and `Width` are channels of the device and of the stream.

### RTPReceiver

The receive thread is the jitter buffer's writer, the consume thread its reader,
both step by step. The network loses, duplicates, delays (up to `MaxDelay` packets
may overtake one) and reorders. Pacing, including the adaptive rate, becomes "the
next tick comes at some time"; decoding is the update of `lastPlayed`.

### ChannelMapper and StreamManager

`job[c]` holds what is left of caller c's call, a sequence of locked steps, so the
choice of channels before the lock, the save after it, the remove-then-add of
sink-follow and the creation and rollback of transmit groups interleave with other
callers, with `setIOActive()` and with crashes. Abstractions to know of:

- a failed start inside `addStream` claims and releases channels within one hold of
  `streamsMutex_`; a caller choosing defaults without that lock can in the code also
  see the claim in between, which only makes it choose a later block or give up;
- `freshIDs` draws from the finite `StreamIDs`; the generator never runs out;
- of a profile `StreamManager` keeps the direction and the channel total per direction,
  and each start of the driver may read another one; sample rate and packet time are in
  `Documents`, and the address check and packet budget are passed by every member of
  `SDPs`; the PTP-lock requirement is off, its default;
- any start of an RTP object may fail, the restart inside `updateMapping()` included, and
  the object then keeps the refused mapping;
- callers may call between `Start` (the listener and the connection API are up) and `Boot`
  (the file is read); the two test streams the device makes when there is no file are
  calls like any other;
- a limit of 0 usable channels means none.

### Documents and Settings

A session description is a sequence of lines with their values; a line of a known
kind with too few parts, or text where a number belongs, is `Malformed`. A packet time
is a decimal with its digits, since the conversion is what can go wrong. The stream
file is a sequence of tokens, cut short by a crash at any of them, and read by
counting brackets as the code does. A settings file is the function of its keys and
whether it is whole: the application reads all or none, the driver searches for keys.
Both readers are modelled, each with its own widths: Swift's `Int`, `stoul` with the cast to
32 bits (a number too long for it throws through `Create()`, and there is no driver),
`stoi` that answers nothing beyond an `int`, `\d+` that reads -16 as 16, and the two sums of
the preceding units' flows. `Word` and `Long` stand for 2^32 and 2^64.
`Documents` restores a stream file as `loadSavedStreams()` does: admitted as a receiver
whatever its role, not twice, and only onto channels that are free.

### PTP

`PTPSlave`: one step per message handled, one for `calculateOffsetAndDelay()`, one
for the announce timeout; a request takes a number and is sent in one step and its
send time recorded in another. A timestamp is the exchange it belongs to: sender and
number of a Sync, number of a request. The handlers compare the numbers only. Every
message may be delivered at any time and again. `PeerDelay` has numeric
time instead: cable, queueing, turnaround, thread held up between two locks, t3 read up to
`MaxAfterSend` after the answer left; the
neighbour answers in one or two steps. `Election` counts announce periods; a dataset
is its place in `isBetterMaster()`'s order, and a Mac's moves among `Ranks` as its source
locks or is lost (`SlaveOnly` stays what it is, class 255 being a setting; the two reads of
`clockClass()` in one turn of the thread are one step); Announces are lost per receiver. In
`ClockService` a tick is a heartbeat; the daemon may crash, restart with any number
and evict a client whose queue is full.

### Discovery, observers, registration

A tick of `Discovery` is 120 s, within which what takes seconds has happened. The
remote is a driver like this one. Every packet comes on two groups. The interface may
drop the membership. Teardown takes the threads down in the code's order. In the
tables a row carries its age; ages stop one past the longest timeout, and the choice
between two rows past it is left open. A registry is external: it refuses what hangs
from something it does not hold, and answers 200 without taking the content when it
has the identifier. `Advertiser` has the responder in the two programs that use it, the
announce tool and the driver, with one browser that keeps what it hears until a goodbye.

### Connections and servers

One HTTP thread serves the RAVENNA node's two APIs, so a request is one step; a
scheduled activation is carried out when its API is next asked anything. The sender of the
RAVENNA node has no host behind it: its program installs the receivers' callback only. In
the driver a request is one copy of the streams and then, without another, every promise
that is due and every patch of the request, one step each; an activation is its look at
the streams and the calls to the stream manager that follow, one step each, between which
others change the streams (the patcher's own several reads are one look). Of the transport
parameters the models keep the group and of a
transport file its group and width. In `Exchange` a request arrives in pieces, and the
answer is sent when the peer takes it or is gone; connection 1 is a client of ours,
connection 2 is anybody, who may never take what it is sent.

## 3. The runs

| Run | Bounds | Distinct states | Shows |
|---|---|---|---|
| `audio` | ring of 3, 9 elements; 2 slots, 4 numbers; 2 channels, rings of 3, rates 3 and 4, 4 frames, 1 fault, 4 changes | 594 182 | the buffers implement their abstractions; the audio path |
| `receiver` | 2 slots, 4 packets, 1 duplicate, numbers wrap; pool of 2 packets, 2 threads | 250 025 | plays forward, position, liveness; the pool |
| `streams` | 3 streams, 3 channels, 3 profiles, 2 callers, 3 calls, 1 crash | 439 772 | records, mapper, totals, clock, file, restart |
| `ptp` | 2 grandmasters, 3 datasets, 3 Syncs of 2 numbers, 2 requests, 1 stop | 1 881 996 | measurements, lock, choice and loss of the master |
| `clock` | 2 Macs of 3 ranks and a Linux grandmaster, 2 faults; 2 peer-delay requests; 5 service faults | 970 267 | election, cable delay, freshness of the lock |
| `registration` | 2 registries, 2 streams, 2 faults, 1 change, both clients; 3 announcements, 2 losses, 2 runs | 530 629 | the registry agrees; the node returns; found is there |
| `control` | 2 receivers, 3 channels, 4 requests; 3 driver requests, 2 changes; 2 nodes, 2 clicks; 3 clocks for 2 rows | 1 861 376 | APIs, host, application and peer table |
| `network` | 2 bodies, list of 1, 3 changes, 1 fault; 3 reporters for 2 rows | 1 023 946 | the directory and the receiver table |
| `exchange` | 4 kinds of server, requests of 3 pieces, deadline 1, 1 edit | 1 703 566 | serving and stopping |
| `documents` | 2 streams, 2 losses; 2 edits, 1 fault, 1 torn file | 1 926 295 | descriptions, stream file, settings |
| `discovery_announced` | as `network`'s first part | violation | finding 1 |
| `exchange_socket_lost` | as `exchange`, the socket may fail | violation | finding 2 |

### Properties

- `audio`: `RingSafe` (indices in range, fill exact, elements in order, copies
  disjoint), `RefinesFifo`, `JBSafe` (one owner per slot, whole packets, the packet
  asked for, the count exact), `RefinesSlotBuffer`, `PlaysTruly` (the schedule never
  drifts by a clock unit; number and timestamp are those of the packet time, across
  sends that fail; no frame twice or out of order, whatever stops, remaps or runs
  short; a stream that did not start, or was stopped, holds no socket), `FlowsOn` (an empty ring
  never stops the packets, and no stream that was admitted has an encoding for which the
  loop skips the send).
- `receiver`: `PositionKept` (the 16-bit position stands for the packet the consumer
  believes it is at, after a restart too), `PlaysForward`, `Drains`, `StopReturns`;
  `PoolSafe` (no packet has two users, the count and the flags tell the truth).
- `streams`: `RecordsConsistent` (types; owner table and mappings; mapper and records;
  totals; one grandmaster), `SingleProducer` (of streams that run as they are recorded),
  `SavedIsCurrent`, `RestartRestoresReceivers` (those the profile now in force takes, unless a
  caller was quicker than the load),
  `UsesMapper` (the manager uses the mapper only as `MapperSpec` allows, so the
  theorems about `MapperSpec` apply to it).
- `ptp`: `MeasuresTruly` (what matching numbers achieves: t1 and t2 numbered alike, t3 and
  t4 of one request but for an answer that overtakes the record of its request or was left
  by the run before; a running slave has its sockets), `FollowsTruly` (best master heard;
  lock earned on measurements made since it is followed, whoever's Syncs they were of),
  `MasterLossNoticed` (liveness, on the condition that messages of any kind keep coming: the
  property itself says so, no fairness does).
- `clock`: `SegmentSettles` (two masters heal, none is bounded, a lock lost is no
  longer announced, each counted from the last fault or change of rank), `SlaveFollows`
  (liveness), `ShortOnlyByLateT3` (a path delay below the cable's is so by at most half of
  what the neighbour reads t3 late; nothing else shortens it),
  `ServiceSafe` (a lock shown is recent: at most `Stale + 2` heartbeats old, and as many
  again for every time a restarted daemon repeated the number last seen; daemon and
  engine never both at work), `LockArrives` (liveness).
- `registration`: `RegistryAgrees` (a client at rest has told exactly what it carries;
  one that left is gone), `NodeReturns` (liveness); `FoundIsThere` (a record a browser
  holds and whose goodbye was not lost is offered, and what it leads to answers; the
  node is on the link exactly while no registry has it).
- `control`: `PatchbayAgrees` (no channel fed twice; a receiver carries a stream exactly when
  `/active` has it enabled, and that stream, but for one let go of for an activation that
  was then refused), `DriverAgrees` (active in the API exactly when on in the driver, but
  for a stream moved since the copy by other than its own activation; source port kept),
  `ShownIsActive`, `PeersShownTruly`.
- `network`: `DirectoryTells` (the listener's own list forgets what was withdrawn and not
  lost; the directory, which is not told of withdrawals, shows nothing gone for longer than
  the timeout, and has what a device listed by the browser says, two rounds of questions
  after its last change and one for every fault; nobody files into a deleted directory), `ReportersShownTruly`, `ListensOn` (liveness:
  an announced session is heard in the end, a monitor that lost its group listens again).
- `exchange`: `ServedTruly` (a request is read for a bounded time, the socket is not closed
  under the loop, what was fetched is of a version published while asking, if only its
  beginning), `StopReturns` (liveness: `stop()` returns unless it joins a thread whose send
  waits for a peer that neither takes its answer nor goes).
- `documents`: `DescribedTruly` (the format selected is the one played; what is
  described is read back as itself), `LoadedIsSaved` (receivers the profile admits return, and
  transmitters under a profile for both directions; nothing else is played), `SettingsHold`
  (what is shown is what runs, but for chain sizes that no unit has and a priority beyond an
  `int`; what runs can work, whatever the file holds).

Every property of a passing run has a mutant by which TLC finds it violated.

### Bounds

- *Ring*: capacity 3 is four cells; nine elements go round more than twice, with every
  split of a transfer at the end of the storage. *Jitter buffer*: two slots and four
  numbers are the whole-lap case; `SizeMax = 7` leaves room between the largest honest
  count and a decrement at zero. *Device*: two rates of which one does not divide the
  packet time, blocks shorter than a ring and packets that do not fill it evenly,
  counters modulo 3 that wrap within four frames.
- *Receiver*: numbers start at 30 with `SeqMod` 32, so they wrap in the run; 32 is more
  than the consumer can run ahead, as 65 536 is in reality. `MaxStall` bounds the ticks
  made while the receive thread is inside one `addPacket()`. Two packets and two threads
  are enough for the pool's stack to be emptied, and refilled in another order, while a
  thread holds an old head.
- *Streams*: three channels and streams of one and two make placement fail, fragment
  and collide; two callers race; one crash is one restart, under any of three profiles (no
  limits, only sending, only receiving with a channel total); the device's limits of two
  and three channels bind. The remaps offered are those of `RemapsCover` (section 4). `SYMMETRY` on identifiers is sound: none
  is special and no property is a liveness property.
- *PTP*: a Sync number both grandmasters use and one only the first does, and two requests,
  can be mixed; a threshold of two lets a lock be half
  earned with one master and completed with another; one stop gives a second run.
- *Clock*: two Macs ranked between the Linux machine with and without its reference, the
  better of which may fall below all and rise again;
  a timeout of two periods, and the four calm periods (`SettleTime`, the timeout and two)
  that the segment is given to settle. A
  thread may be held up for five ticks (`MaxHeldUp`) around an exchange of four, t3 is read
  up to one tick late, and a second request comes ten after the first. `Stale = 2` heartbeats, three sequence
  numbers so that a restarted daemon can repeat one, a queue of one.
- *Registration*: two registries for failover, two faults so that a retry can fail too,
  one change of the streams in the middle of a synchronisation. The advertiser's two
  losses are an announcement and a goodbye, its two runs a restart of the driver's.
- *Control*: two receivers contend for three channels with streams of one and two; four
  requests allow stage, promise, overtake and come due. Three requests of the driver make
  a promise, carry it out with a bulk of two patches, and look at what came of it. Two nodes are needed for reads
  at different times. Three clocks overflow two rows.
- *Network*: two bodies of one session (an edit), a list of one (eviction), timeouts of
  2 and 4 ticks as 300 s and 600 s are to 120 s. RTP port 65535 has no RTCP port.
- *Exchange*: three pieces per request, a deadline of one silence, an edit while asked, a
  peer that takes its answer and one that does not.
- *Documents*: packet times of whole and fractional milliseconds, formats in either
  order, a name with a bracket, two losses (a cut and its repetition), files of older
  versions, a profile for both directions and one that only sends, changed between two
  starts. Settings: two edits, one torn file and one refused prompt in any order, files by
  hand with numbers below zero, beyond `Word` (16 384) and beyond `Long` (268 435 456), which
  stand for 2^32 and 2^64: what counts is that every number the programs check is below
  the first.

Deadlock is checked in `streams`. It is not in the others: a stopped thread on a silent
network and a part whose bounded requests and faults are used up do stop.

### Fairness

Threads of the code take their next step when they can: their sleeps, `select()` and
`recv()` have timeouts, and joins return once the threads are gone. That is weak
fairness on the thread's actions: the consume thread and the receive thread inside a
call; the audio thread and the stream's thread; each Mac's announce, timing and monitor
thread; the daemon's heartbeat and publication and the client's connect, read and service
loop; announcer, listener, browser and worker; the registration threads; a server's
receive and timeout, and its answer once the peer takes it or is gone: `send()` has no
timeout in any of the four servers. Time passes (`Tick`, a gone master becomes stale). One thing
is assumed of the outside: a registry that stopped returns in the end, without which
nothing could bring a node back. Nothing is assumed of senders, networks,
controllers, peers of a server, users or anybody who starts and stops things. The loop of
`PTPSlave` turns only on a message, and no message is assumed.

## 4. The proofs

A theorem holds for every value of the constants that satisfies the named assumptions
of the modules: they say that sizes and bounds are natural numbers, that sets of
identities are finite, and little else. Those that say more:

- `SizeAssumption`: the jitter buffer's count has room for one more than its slots;
  `PoolAssumption`: the pool's counters have room for its packets and threads;
- `AudioAssumption`: the RTP timestamp's range is a multiple of the sequence number's, as
  2^32 is of 2^16;
- `ClockServiceAssumption`: more than two status numbers, so that two statuses in a row
  differ; `PeerAssumption`, `MonitorAssumption`: ages are counted past the timeout;
- `PatchbayAssumption`, `RegistrationAssumption`: channels, receivers and registries are
  numbered without gaps, as the vectors of the code are; no stream has the name of the
  node or of the device;
- `ElectionAssumption`: no two clocks can have the same rank, as no two have the same
  identity, and calm periods are counted as far as `SettleTime`;
- `SettingsAssumption`: the selectors offer what the app's tables have, what a reader
  finds under a key is of the type it looks for (it passes over anything else), what is in
  a file of an older version is what its app took to be valid and wrote, and the numbers
  the programs check are far below `Word`.

Three theorems have hypotheses, which the runs' constants satisfy (`MCStreamManager`,
`MCClock` and `MCDocuments` assume theirs by name):

- `RingsHaveOneProducer`: `RemapsCover`, which came out of the proof: a call of
  `updateMapping()` without routes and with a block narrower than the stream passes the
  mapper's check, which looks at the block (`StreamChannelMapper.cpp:67`), and the RTP
  object's, which looks at the stream, and then the stream writes beyond its block. Nothing
  in the repository makes such a call. The property itself leaves out a stream whose failed
  restart left it another mapping than is recorded (`RecordsAgree`, section 5).
- `ShortByLateT3Alone`: `RequestsFarApart`, so that the answers to two requests cannot be
  mixed into a measurement that is not clearly negative. With the constants of the run it
  asks for an interval of 10.
- `SettingsAlwaysHold`: `ChainsInRange`, that no file left by hand says of a unit before this
  one that it has more channels than any device, above zero or below. The sizes of the chain
  are the one number of a file that neither program checks (`AmplifierUnitSettings.cpp:58`),
  and the source ports add up from them. `AppliedAlwaysShown` does without, and claims the
  source ports only for sizes from 0 to 128.

`RestartAlwaysRestores` and `SegmentAlwaysSettles` have none: any channel limits, any
profiles, any ranks that move.

### What is proved, and on what it rests

| Module | Theorems | Inductive invariant |
|---|---|---|
| `AudioProofs` | `RingAlwaysSafe` and its four parts, `RingIsFifo` (refinement) | `RingInv` |
| | `AudioAlwaysTrue` (`PlaysTruly`) | `ThreadInv`, `Rings` |
| `ReceiverProofs` | `JBAlwaysSafe` and its five parts, `BufferIsAtomic` (refinement) | `SlotInv`, `CountExact` |
| | `ReceiverKeepsPosition`; `UsesBuffer`, `ReceiverKeepsBuffer`, `ReceiverBufferIsAtomic` | `RxInv` |
| | `PoolAlwaysSafe` | `PoolInv` |
| `StreamManagerProofs` | `MapperTypeCorrect`, `OwnersAlwaysMatch`, `ChannelsNeverShared` | `MapperInv` |
| | `RecordsAlwaysConsistent`, `ManagerUsesMapper` (refinement) | `ManagerInv` |
| | `SavedAlwaysCurrent`; `RingsHaveOneProducer`; `RestartAlwaysRestores` (action) | with `SavedInv`; `CoverInv`; `RestoreInv` |
| `DeviceProofs` | `AlwaysMeasuresTruly`, `AlwaysFollowsTruly` | `SlaveInv` |
| | `AppliedAlwaysShown`, `SettingsAlwaysHold` | `SettingsInv` |
| `ClockProofs` | `ServiceAlwaysSafe`; `ShortByLateT3Alone` | `ServiceInv`; `PeerDelayInv` |
| | `SegmentAlwaysSettles` | `ElectionInv` |
| `ControlProofs` | `PeersAlwaysShownTruly`; `ReportersAlwaysShownTruly` | `PeerInv`; `MonitorInv`, both over `Tells` |
| | `ShownAlwaysActive`; `PatchbayAlwaysAgrees` | `ControllerInv`; `PatchbayInv` |
| | `DriverAlwaysAgrees` | `DriverInv` |
| `NetworkProofs` | `FoundIsAlwaysThere`; `AlwaysServedTruly` | `AdvertiserInv`; `ExchangeInv` |
| | `RegistryAlwaysAgrees` | `RegistrationInv` |
| `DiscoveryProofs` | `DirectoryAlwaysTells` | `DiscoveryInv` |

**Ring.** `RingInv` adds `Room` (the transfer in progress still fits: free space only grows
while the producer copies), `Supply` (the elements being read are still there), `Queued`
(the cells from the read index on hold the next elements) and `CopiedCells` (what the
producer has copied lies after the queue). `InOrder` alone is not inductive: it needs to
know what lies ahead, and that needs to know what an `EndWrite` adds. `ChunkIsWrap` shows the
two-part copy to be the circular one. The refinement writes the queue as
`Batch(delivered, fill)`, the interval it must hold.

**Device.** `ThreadInv` is everything but the rings: `Joinable` ties the thread
to its socket and to who waits for it, `Employed` to a stream, `Paced` has the schedule with its
remainder, `Numbered` ties number, timestamp and the packets sent or skipped. The rings
are then in order because each is written by one side with growing numbers.

**Jitter buffer, receiver, pool.** `SlotInv` adds `InSlot` (what the writer has put so far
in its slot) and `Checked` (past the check, the reader's slot has the number asked for);
`CountExact` is proved on top of it, because it needs that the slot whose state changes is
the thread's own. In the receiver, that the consumer has a position needs that nothing is
counted before the first packet (`Quiet`), which needs the threads gone between two runs
(`ThreadsGone`); that it moves from the number it asked for is `Asked`. `UsesBuffer` shows that
the receiver calls the buffer as `JBSpec` allows, so all theorems about the buffer hold in
it. In the pool, `Tagged` says that a head read earlier and still equal has the same
packet under it, and `Conserved` that packets in the stack, in threads' hands on the way
in and out, and with users add up to all there are.

**Mapper and manager.** `OwnersMatch` with the type invariant is inductive; that channels
are not shared follows, since a channel has one owner. `BooksInv` is what every locked step
keeps: one lemma for each thing a step can do to the books (store, erase, change a
mapping, start and stop, drop all) shows it, and the steps are sorted into these. What a
call has still to do and what is on disk are part of `ManagerInv`, for a later step stores
what they hold. `SavedIsCurrent` needs the saves still to come (`SavedInv`); one producer per
ring needs that entries and the file's configurations cover their sessions (`CoverInv`); the
restart needs that what has been loaded so far is in the file still, and that the receive
total never passed the limit, so that a file of receivers fits again (`RestoreInv`).

**PTP.** `SlaveInv` has `SyncPaired` (a Sync remembered and its receive time have one
number), `DelayOrdered`, `CountEarned` (the half-earned lock was earned since this master is followed),
`HeardSinceNone` and, for the sockets, `ThreadsRun`. `ServiceInv` follows the daemon's lock on
its way: in the socket (`LockedOnWire`), in the status received (`StatusRecent`), in the lock
itself (`LockBound`). `PeerDelayInv` keeps requests apart in time (`RequestsApart`, `InTime`), so
that an answer can be mixed only with one whose measurement is clearly negative; every
measurement kept is then long enough but for the late t3 (`MeasuredWell`, `HistoryLong`).

**Election.** `ElectionInv` says how far the segment has come since the last fault
(`Settling`). Either nobody has announced since (`Unheard`): then every Mac has waited as
long as the segment has been calm, and by the announce timeout one speaks. Or somebody
has, and from then on somebody does in every period, for a leader whom no better one is
known to (`Firm`) stops only on hearing a better, who is then firm himself; so nobody's
record of the best runs out. In the next period all leaders have heard each other
(`AllSpeak`), in the one after the beaten have stepped down (`Decided`, `OneSpeaks`), and
their last Sync is past. A rank that moves is a fault, from which the count begins anew;
who stands aside does so for a better clock than his own, but for his first turn after
it moved (`Outranked`). None of this may use that the hosts are few: the best of the
leaders is a minimum over a finite set of distinct ranks.

**Settings.** The app and the driver never compare what they have, so `SettingsInv` follows
the file between them: one that is the app's is one both readers take whole
(`MineIsWhole`), the app shows what it reads of it (`ShowsTheFile`, which needs that a copy
under way is of what is shown, `JobIsShown`), and the device was made of files of which
those not touched since are still there (`RunsWhatWasRead`). The rest is about the two
programs' own code: each pair of readers agrees on such a file (`ChannelsReadAlike`,
`UnitsReadAlike`, `ProfileReadAlike`), what is saved is read back as it was
(`SavedIsReadBack`), and the two tables of profiles agree row by row (`TablesAgree`).

**Control.** Both tables are proved once, as a bounded, ageing table of any identities:
`Tells` says that a row is as old as its last message and that who has no row in time was
crowded out by as many others as there are rows. A packet of many report blocks files
them one by one (`PacketFiled`, an induction over the blocks). The matrix needs that a pass
has read nothing that changed after a click (`PassIsFresh`), the driver's API that what it
copied and nobody else has moved is still so (`CopyIsCurrent`, `OnWhenLevelled`) and that an
activation between two calls asks only what its patcher may (`DoingIsUnderway`), the patchbay an induction over the
receivers whose activations are due (`SetInduction`).

**Network.** A browser's record leads somewhere because the responder is up, and what its
records lead to is served, wherever a thread may announce (`Reachable`), and a goodbye
comes before either ends. A server reads nobody for long because the
silence and the pieces left are bounded together (`Paid`), and what it answers was
published while it was asked, when the answer was made (`AnswerMade`) and when it arrived
(`AnswerKnown`). A registry agrees with the driver because
whatever it holds is on the list the driver will delete from (`NothingElse`), and, unless a
request was lost, holds all that this synchronisation has gone through (`PostedIsThere`);
that the walk over a set of streams meets each of them is `InOrderOf`. A lost answer or a
takeover may leave things the driver does not know of (`leftovers`); nothing is claimed
then, until the node has been registered from nothing.

**Discovery.** `DiscoveryInv` is about all the ways into the directory at once. For what is
withdrawn: a body that is listed and no longer announced has its deletion on the wire
behind its announcement (`Withdrawn`), on each of the two groups. For what is gone: after
the tick of the change nothing new is on its way, and what is listed, queued, being asked
for or filed has an age of at least the time since (`GoneWay`, `AgedSince`). For what stays:
every round since the change was answered or cost one of the faults (`SteadyWay`,
`AskedInTime`). That the listener's list is sorted by age (`Sorted`) is what lets the
eviction of the oldest be reasoned about.

### What the proofs found

Attempts that failed were about the model, and changed it: the bound of `LockIsRecent` did
not hold for six and more faults and now counts the repeated numbers; `RemapsCover` above;
`NoDrift` spoke of a remainder that outlives its rate when a stream is removed and added
again at another rate without being started, beyond the bounds of the run; overlapping
`CASE` arms became `IF`. `StillThereIsListed` asked for three rounds, which is enough for one
fault only: it now counts the faults, and excludes as many as outlast the timeout. The
time to settle was a bound of the run; the proof gives the announce timeout and two
periods, and with one period less TLC finds three Macs of which two still send. The chain
sizes above came out of the proof about the settings, as did a cut in the model: an interval
in milliseconds was followed to 32 s only, and is now as far as an `int` goes.

### Only model-checked

- Liveness, which this prover does not do: `FlowsOn`, `Drains`, `StopReturns`, `MasterLossNoticed`,
  `SlaveFollows`, `LockArrives`, `NodeReturns`, `ListensOn`.
- `PlaysForward`: it holds only while the consumer is within `SeqMod` of every packet under
  way, which in the code is a matter of time (65 536 packet intervals) and in the run of
  the bounds.
- `DescribedTruly`, `LoadedIsSaved`: about what recursive definitions over texts and files
  compute.

## 5. Findings and known disagreements

1. **An announced session ages out of the directory** (`discovery_announced`).
   `SAPListener.cpp:268` tells its callbacks only of sessions new to its own list, and the
   directory drops an entry not filed again within 300 s. A repeat does not reach it,
   while `AES67Device.cpp:285` says that every announcement does.
2. **A server that lost its socket ends the process** (`exchange_socket_lost`). The loop
   clears `running_` as it ends; `stop()` then returns at `RTSPServer.cpp:159` without a
   join, and destroying a joinable thread terminates the host. `RTSPServer.h:63` says, of a
   port that cannot be bound and "like every other discovery surface here", that it costs
   the feature and never the audio.

Disagreements met while modelling that no run is devoted to. Those with a name are
stated in the module as *Refuted* and TLC violates them when they are checked:

- *Receiver and streams.* `LossIsReal`: a packet counted and not yet published may be the
  expected one, and is skipped as lost (`RTPReceiver.cpp:400`). `RecordsAgree`: a remap whose
  restart fails leaves the receiver the refused mapping, under which it runs when I/O next
  starts, on channels another stream may have by then (`RTPReceiver.cpp:266`).
  `FollowKeepsChannels`: sink-follow forgets routes (`StreamManager.cpp:772` against
  `StreamManager.h:292`). `RestartRestoresTransmitters`, and `TransmittersReturn` in
  `Documents`: transmit streams of the file are admitted as receivers
  (`StreamManager.cpp:1276`), so they are lost under a profile that only sends and where
  receive limits have no room, although 1305-1310 means to bring them back and
  `TxSession.h:55-60` calls their loss a bug. `ReadBeforeWritten`: the connection API serves
  before the file is read (`AES67Device.cpp:546`, 736), and a stream it adds is saved alone.
- *PTP.* `select()` timing out skips the announce timeout (`PTPSlave.cpp:476`), so on a silent
  segment a lost master is never given up: `MasterLossNoticed` fails without its condition.
  `FollowUpMatches`: a Follow_Up is matched by its number alone (`PTPSlave.cpp:1059`), so
  the Sync of one grandmaster is completed by the Follow_Up of another, and Syncs of a
  master no longer followed go into measurements that count for the lock. An
  answer that arrives before its request is recorded is measured against the request before
  (`PTPSlave.cpp:1290`), and t3 and t4 of the run before are used until the first request of
  the next. `QuietIsForgotten`: a Mac stands aside for a dataset whose clock has gone while another's
  Announces refresh its time (`PTPMaster.cpp:276`, 328). `LockArrivesAlways`: an engine left
  by an earlier `init()` overrides the daemon's answer (`PTPDInterface.cpp:299`).
  `NeverShorterThanTheCable`: t3 is read after `sendto()` (`PTPSlave.cpp:744` against 607), so
  the cable is measured too short; the peer's Follow_Up is not matched to the responder.
- *Registration.* `RegisteredIsComplete`: a second run takes a 200 for what it posted
  (`RegistrationClient.cpp:62`). A failed synchronisation in the driver is only logged
  (`AES67Device.cpp:1208`).
- *Connections.* `EmptiedIsSilent` (`ChannelMappingApi.cpp:247`). `ActiveIsCarried`: an
  activation refused after `release()` leaves the receiver active and carrying nothing,
  against "What was active stays active" (`ConnectionApi.cpp:482-494`); a later immediate activation does
  not cancel a promised one; a bulk request answers 400 after applying its first entries.
  `StoppedIsReachable`: a sender stopped by a controller leaves the API
  (`AES67Device.cpp:797`). A promise coming due reads what is staged by then
  (`ConnectionAPIServer.cpp:480`). `OnIsOnAlone`: a request that switches a receiver off and
  subscribes the free one to the same stream leaves the receiver off in the API and on in
  the driver, since the stream looks as it did when it was copied. `applySenderConnectionPatch()`
  reads sessions, stopped senders and streams under three locks; a stream that goes between
  them makes it follow an iterator that is `end()`, which is undefined and not modelled.
  `OneSenderPerSink`: a failed stop is only noted
  (`NmosController.swift:196`); a failed read of `active` shows the sink as free.
- *Discovery and observers.* Deletions never reach the callback, so the directory shows a
  withdrawn session until its timeout; `MDNSBrowser`'s timeout of 600 s sweeps services
  still registered (`MDNSBrowser.cpp:232`), whose sessions then age out against "never ages
  out" (`RTSPSessionDiscovery.cpp:179-181`); an edit that is taken back is not new; an RTSP answer
  asked for earlier may win; a provider that throws withdraws everything
  (`AES67Device.cpp:383`). The observers' rows age only when asked, a BYE is ignored, a
  failed `select()` leaves `running_` true.
- *Exchange.* `StopAlwaysReturns`: no server limits its `send()` (`ConnectionAPIServer.cpp:704`,
  `RTSPServer.cpp:265`, `HttpServer.cpp:178`, `RtspServer.cpp:91`), so a peer that does not read a
  long answer holds the thread, everybody behind it and `stop()`. `FetchedIsWhole`: a body
  shorter than declared is taken for the description; `RTSPServer` has no deadline
  for the whole connection.
- *Audio.* `RateIsTaken`: two methods meant as overrides are not (`AES67Device.cpp:1355`,
  1685). Channels skew after an underrun, rings are not emptied when I/O stops, a restart
  begins its numbers anew under the same SSRC.
- *Documents and settings.* A bracket or brace in a session name loses streams
  (`JsonEscape.h:63`); a torn file replaces the backup; an rtpmap without channels keeps
  two; `a=ptime:0.0004` is read as 0 us and written as `a=ptime:0`, which is refused.
  `AskedIsClamped` (`PTPMasterSettings.cpp:77`); a refused prompt leaves the value
  shown though unsaved; removing the driver with a refused prompt leaves it without its
  daemon (`DriverManager.swift:258`); priority 300 becomes 44, and one beyond an `int` 128
  (`JsonFields.cpp:110`) while the app shows it. `PortsAreShown`: the sizes of the units before
  this one are taken unchecked, and -16 is 16 to the driver and no size to the app
  (`AmplifierUnitSettings.cpp:58`, `DriverManager.swift:1852`); a `unitIndex` of 4294967298 is 2
  (line 53), and a number too long for `stoul` leaves no driver (`PlugInMain.cpp:48`).

## 6. Not modelled, and why

Sample conversion, DoP and the PLL are numeric. `PTPClock`'s media-clock recovery has no
production caller (`LockFreePacketPool` has none either, but is a lock-free structure
with a contract of its own, and is modelled). Packet encodings (RTP, SAP, PTP, DNS-SD),
JSON answers, logging, error counters, views and the announce tool's command line are data,
layout or wiring. Inside modelled parts: statistics and callbacks, `resetStatistics()`, the
PTP-lock requirement, drift and offset filters, the mapper's own JSON file, hardware
timestamps. A remap to a block narrower than its stream, on which the receiver would write
beyond the block, is kept out of the `streams` run. A crash between two flows of a transmit
group brings half of it back; nothing in the code says what should hold.
