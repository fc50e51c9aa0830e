--------------------------- MODULE ChannelMapper ---------------------------
(***************************************************************************)
(* StreamChannelMapper (aes67-core/NetworkEngine/StreamChannelMapper.cpp): *)
(* which stream owns which device channel.  It keeps the mapping of every  *)
(* stream and, beside it, a table of the owner of every channel.  Each     *)
(* operation holds the mapper's mutex from beginning to end and is one     *)
(* step here.                                                              *)
(*                                                                         *)
(* A mapping places a stream on a block of channels, or, when it has       *)
(* routes, on exactly the channels the routes name.  Names and display     *)
(* fields of a mapping are left out.                                       *)
(***************************************************************************)
EXTENDS Integers, FiniteSets

CONSTANTS kMaxDeviceChannels,  \* channels of the device
          usableChannelCount_, \* channels handed out by default placement
          StreamIDs,
          NullID,              \* no stream
          Mappings,            \* the mappings callers offer
          NoMapping            \* the stream has none

Channels == 0..(kMaxDeviceChannels - 1)

ASSUME ChannelAssumption ==
  /\ kMaxDeviceChannels \in Nat \ {0}
  /\ usableChannelCount_ \in 0..kMaxDeviceChannels
ASSUME IDAssumption == NullID \notin StreamIDs
ASSUME MappingAssumption ==
  /\ Mappings \subseteq
       [streamID : StreamIDs \cup {NullID}, streamChannelCount : Nat,
        deviceChannelStart : Nat, deviceChannelCount : Nat,
        routes : SUBSET [streamChannel : Nat, deviceChannel : Nat]]
  /\ NoMapping \notin Mappings

VARIABLES mappings_,            \* stream -> its mapping, or NoMapping
          deviceChannelOwners_  \* channel -> the stream that owns it, or NullID

mapperVars == <<mappings_, deviceChannelOwners_>>

-----------------------------------------------------------------------------
(* Helpers *)

deviceChannels(m) ==
  IF m.routes = {}
  THEN m.deviceChannelStart..(m.deviceChannelStart + m.deviceChannelCount - 1)
  ELSE {r.deviceChannel : r \in m.routes}

isValid(m) ==
  /\ m.streamID # NullID
  /\ m.streamChannelCount # 0 /\ m.deviceChannelCount # 0
  /\ m.deviceChannelStart < kMaxDeviceChannels
  /\ m.deviceChannelStart + m.deviceChannelCount =< kMaxDeviceChannels
  /\ \A r \in m.routes : /\ r.streamChannel < m.streamChannelCount
                         /\ r.deviceChannel < kMaxDeviceChannels
  /\ \A r, s \in m.routes : r.deviceChannel = s.deviceChannel => r = s

\* Mutant: the block the mapping was given is compared, not the routes.
isOverlapWithStream_block(m, exclude) ==
  \E ch \in m.deviceChannelStart..(m.deviceChannelStart + m.deviceChannelCount - 1) :
    deviceChannelOwners_[ch] \notin {NullID, exclude}

isOverlapWithStream(m, exclude) ==
  \E ch \in deviceChannels(m) \cap Channels : deviceChannelOwners_[ch] \notin {NullID, exclude}

\* clearDeviceChannelOwners() and updateDeviceChannelOwners(), on a table.
released(owners, id) ==
  [ch \in Channels |-> IF owners[ch] = id THEN NullID ELSE owners[ch]]
claimed(owners, m) ==
  [ch \in Channels |-> IF ch \in deviceChannels(m) THEN m.streamID ELSE owners[ch]]

remapped(owners, m) == claimed(released(owners, m.streamID), m)

\* The starts of the free blocks of n usable channels; the scan returns the
\* lowest.
freeBlocks(n) ==
  {b \in 0..(usableChannelCount_ - n) :
     \A ch \in b..(b + n - 1) : deviceChannelOwners_[ch] = NullID}
findContiguousBlock(n) ==
  CHOOSE b \in freeBlocks(n) : \A a \in freeBlocks(n) : b =< a

getAvailableChannelCount ==
  Cardinality({ch \in Channels : deviceChannelOwners_[ch] = NullID})

-----------------------------------------------------------------------------
(* Operations.  One that is refused returns false and changes nothing. *)

MapperInit ==
  /\ mappings_ = [id \in StreamIDs |-> NoMapping]
  /\ deviceChannelOwners_ = [ch \in Channels |-> NullID]

canAddMapping(m) == isValid(m) /\ ~isOverlapWithStream(m, NullID)

addMapping(m) ==
  /\ canAddMapping(m)
  /\ mappings_' = [mappings_ EXCEPT ![m.streamID] = m]
  /\ deviceChannelOwners_' = claimed(deviceChannelOwners_, m)

removeMapping(id) ==
  /\ mappings_[id] # NoMapping
  /\ deviceChannelOwners_' = released(deviceChannelOwners_, id)
  /\ mappings_' = [mappings_ EXCEPT ![id] = NoMapping]

canUpdateMapping(m) == isValid(m) /\ ~isOverlapWithStream(m, m.streamID)

updateMapping(m) ==
  /\ canUpdateMapping(m)
  /\ deviceChannelOwners_' = remapped(deviceChannelOwners_, m)
  /\ mappings_' = [mappings_ EXCEPT ![m.streamID] = m]

clearAll ==
  /\ mappings_' = [id \in StreamIDs |-> NoMapping]
  /\ deviceChannelOwners_' = [ch \in Channels |-> NullID]

\* Callers add a mapping only for a stream that has none: addMapping() does not
\* release what the stream owned before.
MapperNext ==
  \/ \E m \in Mappings : addMapping(m) /\ mappings_[m.streamID] = NoMapping
  \/ \E m \in Mappings : updateMapping(m)
  \/ \E id \in StreamIDs : removeMapping(id)
  \/ clearAll

MapperSpec == MapperInit /\ [][MapperNext]_mapperVars

-----------------------------------------------------------------------------
(* Properties *)

\* Every stream's entry is a mapping of that stream onto channels the device has.
MapperTypeOK ==
  /\ deviceChannelOwners_ \in [Channels -> StreamIDs \cup {NullID}]
  /\ mappings_ \in [StreamIDs -> Mappings \cup {NoMapping}]
  /\ \A id \in StreamIDs : mappings_[id] # NoMapping =>
       /\ mappings_[id].streamID = id
       /\ deviceChannels(mappings_[id]) \subseteq Channels

\* The owner table and the mappings say the same: a stream owns exactly the
\* channels its mapping names.
OwnersMatch ==
  \A ch \in Channels, id \in StreamIDs :
    deviceChannelOwners_[ch] = id
      <=> mappings_[id] # NoMapping /\ ch \in deviceChannels(mappings_[id])

\* No device channel is named by the mappings of two streams.
MappingsDisjoint ==
  \A i, j \in StreamIDs :
    i # j /\ mappings_[i] # NoMapping /\ mappings_[j] # NoMapping =>
      deviceChannels(mappings_[i]) \cap deviceChannels(mappings_[j]) = {}
=============================================================================
