--------------------------- MODULE StreamManager ---------------------------
(***************************************************************************)
(* StreamManager (aes67-macos-driver/NetworkEngine/StreamManager.cpp): the *)
(* streams of the driver.  It keeps the receive and transmit streams, asks *)
(* the channel mapper (module ChannelMapper, one for both directions)      *)
(* where each lives on the device, runs an RTP receiver or transmitter for *)
(* each while Core Audio does I/O, refuses what does not fit the channel   *)
(* limits or the PTP grandmaster in use, and writes the list to disk after *)
(* every change.                                                           *)
(*                                                                         *)
(* Callers are several threads: the control interface, the SAP listener,   *)
(* the connection API.  Each holds streamsMutex_ for one step at a time,   *)
(* and several operations are more than one such step: addStream(sdp)      *)
(* picks its channels before it takes the lock, every change is saved      *)
(* after the lock is released, sink-follow and createTxStreamFlows() are   *)
(* loops of removeStream() and addStream() or createTxStream() calls.      *)
(* job[c] is what is left for caller c to do, a sequence of such steps.    *)
(*                                                                         *)
(* A session description is its name, its transport address, its width and *)
(* its grandmaster; the checks of it that depend on nothing else (rate,    *)
(* packet size, address, what a profile says of one stream) are passed by  *)
(* every member of SDPs.  The PTP lock requirement is off, as it is by     *)
(* default.                                                                *)
(***************************************************************************)
EXTENDS ChannelMapper, Sequences

CONSTANTS
  Clients,         \* threads that call the manager
  SDPs,            \* session descriptions of receive streams
  NoGrandmaster,   \* declared by a description that names none
  Placements,      \* [start, routes] that callers of addStream() pass
  Remaps,          \* [start, count, routes] that callers of updateMapping() pass
  TxWidths,        \* channel counts asked of createTxStreamFlows()
  kPerFlow,        \* channels of one transmit flow
  usableRxChannelCount_, usableTxChannelCount_,  \* limits, 0 for none
  Profiles,        \* [direction, maxTotalChannels] of the compatibility profiles
  NoStream,        \* no entry in streams_
  NoFile,          \* no configuration file
  TornFile,        \* a configuration file cut short
  MaxCalls,        \* bound: calls made by the clients
  MaxCrashes       \* bound: restarts of the driver

ASSUME LimitAssumption ==
  /\ usableRxChannelCount_ \in Nat /\ usableTxChannelCount_ \in Nat
  /\ kPerFlow \in Nat \ {0}
  /\ \A p \in Profiles : /\ p.direction \in {"any", "receiveOnly", "transmitOnly"}
                         /\ p.maxTotalChannels \in Nat
  /\ MaxCalls \in Nat /\ MaxCrashes \in Nat

VARIABLES
  streams_,           \* stream -> its entry, or NoStream
  rxChannelsInUse_, txChannelsInUse_,
  activeGrandmaster_,
  ioActive_,
  disk,               \* the configuration file: a set of configurations, or
                      \* NoFile, or TornFile
  boot,               \* "off", "serving" (the servers run, the file has not been
                      \* read), "loading" (inside loadSavedStreams), or "up"
  profile,            \* profileKind_
  toLoad,             \* configurations not yet looked at
  job,                \* client -> the steps left of its call
  calls, crashes,
  unsaved             \* history: the file may differ from streams_ for a reason
                      \* other than a call still in progress

countVars == <<rxChannelsInUse_, txChannelsInUse_>>
managerVars == <<streams_, rxChannelsInUse_, txChannelsInUse_, activeGrandmaster_>>
vars == <<mapperVars, managerVars, ioActive_, disk, boot, profile, toLoad, job, calls,
          crashes, unsaved>>

-----------------------------------------------------------------------------
(* Entries *)

open == {id \in StreamIDs : streams_[id] # NoStream}

mapping(id, sdp, start, count, routes) ==
  [streamID |-> id, streamChannelCount |-> sdp.numChannels,
   deviceChannelStart |-> start, deviceChannelCount |-> count, routes |-> routes]

\* An entry: what the manager records, and the mapping and state of the RTP
\* object, which keeps a mapping of its own.
entry(sdp, m, isTransmit, running) ==
  [sdp |-> sdp, mapping |-> m, isTransmit |-> isTransmit,
   rtpMapping |-> m, running |-> running]

\* Mutant: the routes of a mapping are not written.
config_noRoutes(id) ==
  [id |-> id, sdp |-> streams_[id].sdp,
   mapping |-> [streams_[id].mapping EXCEPT !.routes = {}],
   isTransmit |-> streams_[id].isTransmit]

\* What is written to the file of an entry: the RTP object is created anew.
config(id) == [id |-> id, sdp |-> streams_[id].sdp, mapping |-> streams_[id].mapping,
               isTransmit |-> streams_[id].isTransmit]

\* The transmit session of a flow names no grandmaster.
txSession(n) == [session |-> "tx", address |-> 0, numChannels |-> n,
                 ptpMaster |-> NoGrandmaster]

\* Every session an entry can have, and every entry.
Sessions == SDPs \cup {txSession(n) : n \in 1..kPerFlow}
Entries == [sdp : Sessions, mapping : Mappings, isTransmit : BOOLEAN,
            rtpMapping : Mappings, running : BOOLEAN]

\* Mappings holds what the callers offer: a session as wide as itself anywhere on
\* the device, and the mappings of Remaps.
ASSUME OfferAssumption ==
  /\ IsFiniteSet(StreamIDs) /\ NoStream \notin Entries
  /\ \A sdp \in SDPs : sdp.numChannels \in Nat \ {0}
  /\ \A p \in Placements : p.start \in Nat
  /\ TxWidths \subseteq Nat \ {0}
  /\ \A id \in StreamIDs, sdp \in Sessions :
       /\ \A start \in Channels, routes \in {{}} \cup {p.routes : p \in Placements} :
            mapping(id, sdp, start, sdp.numChannels, routes) \in Mappings
       /\ \A r \in Remaps : mapping(id, sdp, r.start, r.count, r.routes) \in Mappings

\* What a file holds of a stream.
Configurations == [id : StreamIDs, sdp : Sessions, mapping : Mappings, isTransmit : BOOLEAN]

\* Identifiers nothing refers to: StreamID::generate() returns one of these.
freshIDs ==
  {id \in StreamIDs :
     /\ streams_[id] = NoStream
     /\ disk \in {NoFile, TornFile} \/ \A cfg \in disk : cfg.id # id
     /\ \A c \in Clients : \A k \in DOMAIN job[c] : id \notin job[c][k].ids}

-----------------------------------------------------------------------------
(* Steps of a call *)

saveStep == [op |-> "save", ids |-> {}]
addStep(sdp, start, routes, was) ==
  [op |-> "add", sdp |-> sdp, start |-> start, routes |-> routes, was |-> was, ids |-> {}]
removeStep(id) == [op |-> "remove", ids |-> {id}]
updateStep(id, r) == [op |-> "update", remap |-> r, ids |-> {id}]
followStep(sdp, todo) ==
  [op |-> "follow", sdp |-> sdp, todo |-> todo, ids |-> {p.id : p \in todo}]
flowStep(start, left, created) ==
  [op |-> "flow", start |-> start, left |-> left, ids |-> created]
rollbackStep(created) == [op |-> "rollback", ids |-> created]

\* loadSavedStreams() keeps streamsMutex_ from its first line to its last.
unlocked == boot \in {"serving", "up"}

\* Caller c is at a step of this kind, and nobody else holds the lock.
at(c, op) == unlocked /\ job[c] # <<>> /\ Head(job[c]).op = op

continue(c, steps) == job' = [job EXCEPT ![c] = steps \o Tail(job[c])]

-----------------------------------------------------------------------------
(* Admission and the bookkeeping of streams_ *)

\* CompatibilityProfile::validate(): the gear at the other end may only send, or
\* only receive.
directionAllowed(isTransmit) ==
  profile.direction # (IF isTransmit THEN "receiveOnly" ELSE "transmitOnly")

\* A total per direction, 0 for none.
within(limit, total) == limit > 0 => total =< limit

canAddStream(sdp, isTransmit) ==
  LET usable == IF isTransmit THEN usableTxChannelCount_ ELSE usableRxChannelCount_
      total  == sdp.numChannels + (IF isTransmit THEN txChannelsInUse_ ELSE rxChannelsInUse_)
  IN  /\ sdp.numChannels =< getAvailableChannelCount
      /\ directionAllowed(isTransmit)
      /\ within(profile.maxTotalChannels, total)
      /\ within(usable, total)
      /\ \/ sdp.ptpMaster = NoGrandmaster
         \/ activeGrandmaster_ \in {NoGrandmaster, sdp.ptpMaster}

addCount(isTransmit, n) ==
  IF isTransmit
  THEN txChannelsInUse_' = txChannelsInUse_ + n /\ UNCHANGED rxChannelsInUse_
  ELSE rxChannelsInUse_' = rxChannelsInUse_ + n /\ UNCHANGED txChannelsInUse_

adoptGrandmaster(sdp) ==
  activeGrandmaster_' = IF activeGrandmaster_ = NoGrandmaster
                        THEN sdp.ptpMaster ELSE activeGrandmaster_

\* The first remaining stream that names one, in the order of the identifiers.
recomputeActiveGrandmaster(remaining) ==
  LET named == {streams_[id].sdp.ptpMaster : id \in remaining} \ {NoGrandmaster}
  IN  activeGrandmaster_' \in (IF named = {} THEN {NoGrandmaster} ELSE named)

\* The accepted end of addStream(), createTxStream() and loadSavedStreams().
store(id, sdp, m, isTransmit, running) ==
  /\ addMapping(m)
  /\ streams_' = [streams_ EXCEPT ![id] = entry(sdp, m, isTransmit, running)]
  /\ addCount(isTransmit, sdp.numChannels)
  /\ adoptGrandmaster(sdp)

\* The locked part of removeStream() for a stream that is there.
erase(id) ==
  /\ removeMapping(id)
  /\ addCount(streams_[id].isTransmit, -streams_[id].sdp.numChannels)
  /\ streams_' = [streams_ EXCEPT ![id] = NoStream]
  /\ recomputeActiveGrandmaster(open \ {id})

\* addStream(sdp, mapping) and createTxStream() under the lock: the stream is
\* taken, and runs at once when I/O is active.
admitted(id, sdp, start, routes, isTransmit) ==
  /\ canAddStream(sdp, isTransmit)
  /\ store(id, sdp, mapping(id, sdp, start, sdp.numChannels, routes), isTransmit, ioActive_)

\* The early returns.  When the RTP object does not start, the mapping is
\* withdrawn again, which leaves the mapper as it was.
rejected(id, sdp, start, routes, isTransmit) ==
  /\ \/ ~canAddStream(sdp, isTransmit)
     \/ ~canAddMapping(mapping(id, sdp, start, sdp.numChannels, routes))
     \/ ioActive_
  /\ UNCHANGED <<mapperVars, managerVars>>

-----------------------------------------------------------------------------
(* The calls: a call puts its steps into job[c] *)

Call(c, steps) ==
  /\ unlocked /\ job[c] = <<>>
  /\ calls < MaxCalls
  /\ calls' = calls + 1
  /\ job' = [job EXCEPT ![c] = steps]
  /\ UNCHANGED <<mapperVars, managerVars, ioActive_, disk, boot, profile, toLoad, crashes, unsaved>>

\* addStream(sdp): the channels are chosen before streamsMutex_ is taken.
CallAddDefault(c) ==
  \E sdp \in SDPs :
    /\ freeBlocks(sdp.numChannels) # {}
    /\ Call(c, <<addStep(sdp, findContiguousBlock(sdp.numChannels), {}, NoMapping)>>)

CallAdd(c) ==
  \E sdp \in SDPs, p \in Placements : Call(c, <<addStep(sdp, p.start, p.routes, NoMapping)>>)

CallRemove(c) == \E id \in open : Call(c, <<removeStep(id)>>)

CallUpdate(c) == \E id \in open, r \in Remaps : Call(c, <<updateStep(id, r)>>)

CallTxFlows(c) == \E n \in TxWidths, p \in Placements : Call(c, <<flowStep(p.start, n, {})>>)

\* evaluateSinkFollow(): the same source with another transport and the same
\* width.
follows(s, announced) ==
  /\ ~s.isTransmit
  /\ s.sdp.session = announced.session
  /\ s.sdp.address # announced.address
  /\ s.sdp.numChannels = announced.numChannels

\* updateReceiveStreamsFromAnnouncement(), the phase that looks for matches.
CallFollow(c) ==
  \E sdp \in SDPs :
    LET pending == {[id |-> id, start |-> streams_[id].mapping.deviceChannelStart] :
                      id \in {i \in open : follows(streams_[i], sdp)}}
    IN  pending # {} /\ Call(c, <<followStep(sdp, pending)>>)

-----------------------------------------------------------------------------
(* The steps *)

AddStream(c) ==
  LET s == Head(job[c]) IN
  /\ at(c, "add")
  /\ \E id \in freshIDs :
       \/ admitted(id, s.sdp, s.start, s.routes, FALSE) /\ continue(c, <<saveStep>>)
       \/ rejected(id, s.sdp, s.start, s.routes, FALSE) /\ continue(c, <<>>)
  /\ UNCHANGED <<ioActive_, disk, boot, profile, toLoad, calls, crashes, unsaved>>

\* Mutant: a removal is not saved.
removed_unsaved(c, id, then) ==
  IF streams_[id] # NoStream
  THEN erase(id) /\ continue(c, then)
  ELSE continue(c, <<>>) /\ UNCHANGED <<mapperVars, managerVars>>

\* A removal that finds the stream is saved before the call goes on with the
\* rest; one that does not find it returns false.
removed(c, id, then) ==
  IF streams_[id] # NoStream
  THEN erase(id) /\ continue(c, <<saveStep>> \o then)
  ELSE continue(c, <<>>) /\ UNCHANGED <<mapperVars, managerVars>>

RemoveStream(c) ==
  /\ at(c, "remove")
  /\ \E id \in Head(job[c]).ids : removed(c, id, <<>>)
  /\ UNCHANGED <<ioActive_, disk, boot, profile, toLoad, calls, crashes, unsaved>>

\* mappingFitsDevice(): the RTP object looks at the width of the stream.
mappingFitsDevice(m, n) ==
  IF m.routes = {}
  THEN m.deviceChannelStart + n =< kMaxDeviceChannels
  ELSE \A r \in m.routes : r.deviceChannel < kMaxDeviceChannels /\ r.streamChannel < n

\* Mutant: a mapping the RTP object refuses stays in the mapper.
restoreMapping_forgotten(id, m) == updateMapping(m)

\* Mutant: the old mapping is listed again, its channels stay with the new one.
restoreMapping_listOnly(id, m) ==
  /\ deviceChannelOwners_' = remapped(deviceChannelOwners_, m)
  /\ mappings_' = [mappings_ EXCEPT ![id] = streams_[id].mapping]

\* The mapper takes m, and then takes the old mapping back.
restoreMapping(id, m) ==
  /\ deviceChannelOwners_' = remapped(remapped(deviceChannelOwners_, m), streams_[id].mapping)
  /\ mappings_' = [mappings_ EXCEPT ![id] = streams_[id].mapping]

\* The mapper accepts m and then the RTP object is asked.
remap(c, id, m) ==
  LET s == streams_[id] IN
  \/ /\ ~canUpdateMapping(m)
     /\ continue(c, <<>>)
     /\ UNCHANGED <<mapperVars, streams_>>
  \/ /\ canUpdateMapping(m)
     /\ ~mappingFitsDevice(m, s.sdp.numChannels)
     /\ restoreMapping(id, m)
     /\ continue(c, <<>>)
     /\ UNCHANGED streams_
  \/ /\ mappingFitsDevice(m, s.sdp.numChannels)
     /\ updateMapping(m)
     /\ streams_' = [streams_ EXCEPT ![id].mapping = m, ![id].rtpMapping = m]
     /\ continue(c, <<saveStep>>)
  \/ \* The RTP object has stopped and taken m, and does not start again.
     /\ canUpdateMapping(m) /\ s.running
     /\ mappingFitsDevice(m, s.sdp.numChannels)
     /\ restoreMapping(id, m)
     /\ streams_' = [streams_ EXCEPT ![id].rtpMapping = m, ![id].running = FALSE]
     /\ continue(c, <<>>)

UpdateMapping(c) ==
  /\ at(c, "update")
  /\ \E id \in Head(job[c]).ids :
       LET r == Head(job[c]).remap IN
       IF streams_[id] = NoStream
       THEN continue(c, <<>>) /\ UNCHANGED <<mapperVars, streams_>>
       ELSE remap(c, id, mapping(id, streams_[id].sdp, r.start, r.count, r.routes))
  /\ UNCHANGED <<countVars, activeGrandmaster_, ioActive_, disk, boot, profile, toLoad, calls, crashes,
                 unsaved>>

\* One match of sink-follow: removeStream(), and addStream() of the announced
\* session at the channel where its mapping started when the match was found.
FollowNext(c) ==
  LET s == Head(job[c]) IN
  /\ at(c, "follow")
  /\ \E p \in s.todo :
       LET rest == IF s.todo = {p} THEN <<>> ELSE <<followStep(s.sdp, s.todo \ {p})>> IN
       IF streams_[p.id] = NoStream
       THEN continue(c, rest) /\ UNCHANGED <<mapperVars, managerVars>>
       ELSE removed(c, p.id,
                    <<addStep(s.sdp, p.start, {}, streams_[p.id].mapping)>> \o rest)
  /\ UNCHANGED <<ioActive_, disk, boot, profile, toLoad, calls, crashes, unsaved>>

\* One flow of createTxStreamFlows(): the next block of channels.  A failure
\* removes the flows created so far.
TxFlow(c) ==
  LET s == Head(job[c])
      n == IF s.left < kPerFlow THEN s.left ELSE kPerFlow IN
  /\ at(c, "flow")
  /\ \/ \E id \in freshIDs :
          /\ admitted(id, txSession(n), s.start, {}, TRUE)
          /\ continue(c, IF s.left = n THEN <<saveStep>>
                         ELSE <<saveStep, flowStep(s.start + n, s.left - n, s.ids \cup {id})>>)
     \/ \E id \in freshIDs :
          /\ rejected(id, txSession(n), s.start, {}, TRUE)
          /\ continue(c, IF s.ids = {} THEN <<>> ELSE <<rollbackStep(s.ids)>>)
     \/ \* The flow's address or source port would be out of range.
        /\ s.ids # {}
        /\ continue(c, <<rollbackStep(s.ids)>>)
        /\ UNCHANGED <<mapperVars, managerVars>>
  /\ UNCHANGED <<ioActive_, disk, boot, profile, toLoad, calls, crashes, unsaved>>

Rollback(c) ==
  LET s == Head(job[c]) IN
  /\ at(c, "rollback")
  /\ \E id \in s.ids :
       LET rest == IF s.ids = {id} THEN <<>> ELSE <<rollbackStep(s.ids \ {id})>> IN
       IF streams_[id] = NoStream
       THEN continue(c, rest) /\ UNCHANGED <<mapperVars, managerVars>>
       ELSE removed(c, id, rest)
  /\ UNCHANGED <<ioActive_, disk, boot, profile, toLoad, calls, crashes, unsaved>>

\* autoSaveIfEnabled(), which takes the lock again.  The file may fail to open,
\* or be cut short; neither is noticed by the caller.
Save(c) ==
  /\ at(c, "save")
  /\ \/ disk' = {config(id) : id \in open} /\ unsaved' = FALSE
     \/ disk' \in {disk, TornFile} /\ unsaved' = TRUE
  /\ continue(c, <<>>)
  /\ UNCHANGED <<mapperVars, managerVars, ioActive_, boot, profile, toLoad, calls, crashes>>

-----------------------------------------------------------------------------
(* Core Audio, teardown, crash and restart *)

\* setIOActive(): a receiver or transmitter that does not start stays stopped.
SetIOActive ==
  /\ boot = "up"
  /\ ioActive_' = ~ioActive_
  /\ \E started \in SUBSET open :
       /\ ioActive_ => started = {}
       /\ streams_' = [id \in StreamIDs |->
                         IF id \in open
                         THEN [streams_[id] EXCEPT !.running = id \in started]
                         ELSE NoStream]
  /\ UNCHANGED <<mapperVars, countVars, activeGrandmaster_, disk, boot, profile, toLoad, job, calls,
                 crashes, unsaved>>

\* removeAllStreams() does not save: the file is for the next start.
RemoveAllStreams ==
  /\ boot = "up" /\ open # {}
  /\ calls < MaxCalls
  /\ calls' = calls + 1
  /\ clearAll
  /\ streams_' = [id \in StreamIDs |-> NoStream]
  /\ rxChannelsInUse_' = 0 /\ txChannelsInUse_' = 0
  /\ recomputeActiveGrandmaster({})
  /\ unsaved' = TRUE
  /\ UNCHANGED <<ioActive_, disk, boot, profile, toLoad, job, crashes>>

\* The process dies, perhaps in the middle of writing the file.
Crash ==
  /\ boot # "off"
  /\ crashes < MaxCrashes
  /\ crashes' = crashes + 1
  /\ clearAll
  /\ streams_' = [id \in StreamIDs |-> NoStream]
  /\ rxChannelsInUse_' = 0 /\ txChannelsInUse_' = 0
  /\ activeGrandmaster_' = NoGrandmaster
  /\ ioActive_' = FALSE
  /\ boot' = "off" /\ toLoad' = {}
  /\ job' = [c \in Clients |-> <<>>]
  /\ unsaved' = TRUE
  /\ \/ UNCHANGED disk
     \/ (\E c \in Clients : at(c, "save")) /\ disk' = TornFile
  /\ UNCHANGED <<profile, calls>>

\* AES67Device starts: the profile is read from its file, and the SAP listener and
\* the connection API are up before the streams are restored.
Start ==
  /\ boot = "off"
  /\ boot' = "serving"
  /\ profile' \in Profiles
  /\ UNCHANGED <<mapperVars, managerVars, ioActive_, disk, toLoad, job, calls, crashes, unsaved>>

\* loadSavedStreams() is called once, before the device has a client, so I/O is
\* not active and nothing is started.  A file that cannot be parsed is moved
\* aside.
Boot ==
  /\ boot = "serving"
  /\ boot' = "loading"
  /\ toLoad' = IF disk \in {NoFile, TornFile} THEN {} ELSE disk
  /\ disk' = IF disk = TornFile THEN NoFile ELSE disk
  /\ unsaved' = (unsaved \/ disk = TornFile)
  /\ UNCHANGED <<mapperVars, managerVars, ioActive_, profile, job, calls, crashes>>

\* The admission check is the receive one for every configuration.
restorable(cfg) ==
  /\ canAddStream(cfg.sdp, FALSE)
  /\ streams_[cfg.id] = NoStream
  /\ canAddMapping(cfg.mapping)

\* One configuration of the file; the lock is held until the last.
LoadOne ==
  /\ boot = "loading"
  /\ \E cfg \in toLoad :
       /\ toLoad' = toLoad \ {cfg}
       /\ IF restorable(cfg)
          THEN store(cfg.id, cfg.sdp, cfg.mapping, cfg.isTransmit, FALSE)
          ELSE UNCHANGED <<mapperVars, managerVars>>
  /\ UNCHANGED <<ioActive_, disk, boot, profile, job, calls, crashes, unsaved>>

LoadDone ==
  /\ boot = "loading" /\ toLoad = {}
  /\ boot' = "up"
  /\ UNCHANGED <<mapperVars, managerVars, ioActive_, disk, profile, toLoad, job, calls, crashes,
                 unsaved>>

-----------------------------------------------------------------------------

Init ==
  /\ MapperInit
  /\ streams_ = [id \in StreamIDs |-> NoStream]
  /\ rxChannelsInUse_ = 0 /\ txChannelsInUse_ = 0
  /\ activeGrandmaster_ = NoGrandmaster
  /\ ioActive_ = FALSE
  /\ disk = NoFile /\ unsaved = TRUE
  /\ boot = "off" /\ profile \in Profiles /\ toLoad = {}
  /\ job = [c \in Clients |-> <<>>]
  /\ calls = 0 /\ crashes = 0

ClientNext(c) ==
  \/ CallAddDefault(c) \/ CallAdd(c) \/ CallRemove(c) \/ CallUpdate(c)
  \/ CallTxFlows(c) \/ CallFollow(c)
  \/ AddStream(c) \/ RemoveStream(c) \/ UpdateMapping(c) \/ FollowNext(c)
  \/ TxFlow(c) \/ Rollback(c) \/ Save(c)

Next ==
  \/ \E c \in Clients : ClientNext(c)
  \/ SetIOActive \/ RemoveAllStreams
  \/ Crash \/ Start \/ Boot \/ LoadOne \/ LoadDone

Spec == Init /\ [][Next]_vars

-----------------------------------------------------------------------------
(* Properties *)

\* The mapper's table, and the state every entry can be in.
SMTypeOK ==
  /\ MapperTypeOK
  /\ \A id \in open : /\ streams_[id].mapping \in Mappings
                      /\ streams_[id].rtpMapping \in Mappings
                      /\ streams_[id].isTransmit \in BOOLEAN
                      /\ streams_[id].running \in BOOLEAN
  /\ rxChannelsInUse_ \in Int /\ txChannelsInUse_ \in Int
  /\ boot \in {"off", "serving", "loading", "up"} /\ profile \in Profiles

\* The manager and the mapper list the same streams with the same mappings,
\* whatever calls have failed halfway or been rolled back.
MapperAgrees ==
  \A id \in StreamIDs :
    mappings_[id] = IF streams_[id] = NoStream THEN NoMapping ELSE streams_[id].mapping

\* Every step of the manager, rollbacks, crashes and restarts included, is to the
\* mapper a call it allows: a mapping is added only for a stream that has none.
\* This is MapperSpec (its box allows a stutter, spelt out first because TLC is
\* then quicker), so what is proved of MapperSpec holds of the manager's mapper.
UsesMapper == MapperInit /\ [][UNCHANGED mapperVars \/ MapperNext]_mapperVars

\* The channels of these streams, one by one.
channelsOf(ids) == UNION {{id} \X (1..streams_[id].sdp.numChannels) : id \in ids}

\* The running totals that admission is decided on are the widths of the streams
\* that are open, in each direction; restored streams and failed calls included.
CountersExact ==
  /\ rxChannelsInUse_ = Cardinality(channelsOf({id \in open : ~streams_[id].isTransmit}))
  /\ txChannelsInUse_ = Cardinality(channelsOf({id \in open : streams_[id].isTransmit}))

\* The device channels whose rings a receiver or transmitter works on.
touched(s) ==
  IF s.rtpMapping.routes = {}
  THEN s.rtpMapping.deviceChannelStart..
         (s.rtpMapping.deviceChannelStart + s.sdp.numChannels - 1)
  ELSE {r.deviceChannel : r \in s.rtpMapping.routes}

\* What SingleProducer asks of the callers of updateMapping(): a block is as wide as
\* the stream, or too wide for the device from where it starts.  Neither the mapper,
\* which looks at the block, nor the RTP object, which looks at the stream, refuses a
\* shorter one.
RemapsCover ==
  \A sdp \in Sessions, r \in Remaps :
    r.routes = {} => \/ sdp.numChannels =< r.count
                     \/ r.start + sdp.numChannels > kMaxDeviceChannels

\* A receiver or transmitter that runs under the mapping the manager records for it.
asRecorded(s) == s.running /\ s.rtpMapping = s.mapping

\* No two running streams of one direction work on the same ring, whose contract is
\* one producer and one consumer, as long as each runs where the manager has it:
\* through removals, remaps refused by either side, restarts that fail and I/O that
\* stops and starts.  A stream whose restart failed inside updateMapping() keeps the
\* refused mapping (RTPReceiver.cpp:266) and is outside it: see RecordsAgree.
SingleProducer ==
  \A i, j \in open :
    (i # j /\ asRecorded(streams_[i]) /\ asRecorded(streams_[j])
       /\ streams_[i].isTransmit = streams_[j].isTransmit)
    => touched(streams_[i]) \cap touched(streams_[j]) = {}

\* Streams that name a grandmaster all name the same one, and it is the one that
\* new streams are compared with; when none does, any is welcome.
OneClock ==
  LET named == {streams_[id].sdp.ptpMaster : id \in open} \ {NoGrandmaster}
  IN  IF named = {} THEN activeGrandmaster_ = NoGrandmaster
                    ELSE named = {activeGrandmaster_}

\* The manager's own books, the mapper's, the totals and the common clock agree.
RecordsConsistent == SMTypeOK /\ OwnersMatch /\ MapperAgrees /\ CountersExact /\ OneClock

\* When no call is in progress the file holds exactly the open streams, unless a
\* write failed or the streams were dropped by teardown.
SavedIsCurrent ==
  (\A c \in Clients : job[c] = <<>>) /\ ~unsaved => disk = {config(id) : id \in open}

\* Streams of a file by channel, and its streams of one direction.
widths(cfgs) == UNION {{cfg.id} \X (1..cfg.sdp.numChannels) : cfg \in cfgs}
saved(isTransmit) == {cfg \in disk : cfg.isTransmit = isTransmit}

\* loadSavedStreams() is at a file whose streams are mapped in full, and finds no
\* stream that is not of the file: no caller was quicker.
undisturbed ==
  /\ boot = "loading" /\ toLoad # {}
  /\ {config(id) : id \in open} \subseteq disk
  /\ \A cfg \in disk : Cardinality(deviceChannels(cfg.mapping)) >= cfg.sdp.numChannels

\* The profile of this start takes the file's streams of one direction.
profileTakes(isTransmit) ==
  /\ directionAllowed(isTransmit)
  /\ within(profile.maxTotalChannels, Cardinality(widths(saved(isTransmit))))

\* The step opens, or finds open, every stream of this direction it has looked at.
opens(isTransmit) ==
  \A cfg \in toLoad \ toLoad' : cfg.isTransmit = isTransmit => streams_'[cfg.id] # NoStream

\* A restart brings back every receive stream of a file that the profile in force
\* takes: in whatever order the file lists them, whatever transmit streams are among
\* them, whatever was going on when the driver stopped, and however full the device's
\* own channel limits are.
RestartRestoresReceivers ==
  [][undisturbed /\ profileTakes(FALSE) /\ boot' # "off" => opens(FALSE)]_vars

\* Refuted: the same of the transmit streams, which loadSavedStreams() admits as
\* receive streams.  They are lost under a profile that only sends, and where the
\* receive limits have no room for them.
RestartRestoresTransmitters ==
  [][undisturbed /\ profileTakes(TRUE) /\ boot' # "off" => opens(TRUE)]_vars

\* Refuted: the file is not written before it has been read.  The connection API is
\* up first, and a stream it adds is saved at once, alone.
ReadBeforeWritten == [][boot = "serving" => disk' = disk]_vars

\* Refuted: a running receiver or transmitter runs under the mapping the manager records.
RecordsAgree ==
  \A id \in open : streams_[id].running => streams_[id].rtpMapping = streams_[id].mapping

\* Refuted: a sink that has followed its source is on the device channels it was on.
FollowKeepsChannels ==
  [][\A c \in Clients :
       at(c, "add") /\ Head(job[c]).was # NoMapping
         /\ job'[c] = <<saveStep>> \o Tail(job[c]) =>
         \E id \in StreamIDs :
           /\ streams_[id] = NoStream /\ streams_'[id] # NoStream
           /\ deviceChannels(streams_'[id].mapping) = deviceChannels(Head(job[c]).was)]_vars
=============================================================================
