------------------------ MODULE StreamManagerProofs ------------------------
(***************************************************************************)
(* The books of StreamManager, proved for any number of threads, streams,  *)
(* sessions, remaps and restarts.                                          *)
(*                                                                         *)
(* Every locked step does one of few things to the manager's and the       *)
(* mapper's state: it stores a stream, erases one, changes one's mapping,  *)
(* starts and stops them, drops them all, or leaves them alone.  A lemma   *)
(* for each shows that it keeps BooksInv, and that the mapper sees a call  *)
(* it allows; the steps of the specification are then sorted into these.   *)
(* What a thread still has to do and what is on disk are in the invariant  *)
(* too, for a later step stores what they hold.                            *)
(***************************************************************************)
EXTENDS StreamManager, FiniteSetTheorems, SequenceTheorems,
        WellFoundedInduction, TLAPS

-----------------------------------------------------------------------------
(***************************************************************************)
(* The owner table of StreamChannelMapper, proved for any device size, any *)
(* set of streams and any mappings the callers may offer.                  *)
(*                                                                         *)
(* MapperTypeOK and OwnersMatch together are inductive.  OwnersMatch needs *)
(* the type part because addMapping() consults the owner table only inside *)
(* the device, and because a stream's entry must be its own mapping.       *)
(* MappingsDisjoint is a consequence: a channel has one owner.             *)
(***************************************************************************)

MapperInv == MapperTypeOK /\ OwnersMatch

\* What the callers offer is a record of the declared shape: the fields have
\* their types and a route names two channel numbers.
LEMMA MappingType ==
  ASSUME NEW m \in Mappings
  PROVE  /\ m.streamID \in StreamIDs \cup {NullID}
         /\ m.deviceChannelStart \in Nat
         /\ m.deviceChannelCount \in Nat
         /\ \A r \in m.routes : r.deviceChannel \in Nat
BY MappingAssumption

\* isValid() keeps a mapping inside the device and rules out the null stream.
LEMMA ValidInDevice ==
  ASSUME NEW m \in Mappings, isValid(m)
  PROVE  /\ m.streamID \in StreamIDs
         /\ deviceChannels(m) \subseteq Channels
<1>1. m.streamID \in StreamIDs
  BY MappingType DEF isValid
<1>2. ASSUME NEW ch \in deviceChannels(m)
      PROVE  ch \in Channels
  <2>1. CASE m.routes = {}
    BY <2>1, MappingType, ChannelAssumption DEF deviceChannels, isValid, Channels
  <2>2. CASE m.routes # {}
    <3>1. PICK r \in m.routes : ch = r.deviceChannel
      BY <2>2 DEF deviceChannels
    <3>2. ch \in Nat /\ ch < kMaxDeviceChannels
      BY <3>1, MappingType DEF isValid
    <3> QED BY <3>2, ChannelAssumption DEF Channels
  <2> QED BY <2>1, <2>2
<1> QED BY <1>1, <1>2

LEMMA InitInv == MapperInit => MapperInv
BY IDAssumption DEF MapperInit, MapperInv, MapperTypeOK, OwnersMatch

\* addMapping() for a stream that has no mapping.
LEMMA AddKeepsInv ==
  ASSUME MapperInv, NEW m \in Mappings, addMapping(m),
         mappings_[m.streamID] = NoMapping
  PROVE  MapperInv'
<1> DEFINE s == m.streamID
<1>1. isValid(m) /\ s \in StreamIDs /\ deviceChannels(m) \subseteq Channels
  BY ValidInDevice DEF addMapping, canAddMapping
<1>2. \A ch \in deviceChannels(m) : deviceChannelOwners_[ch] = NullID
  BY <1>1 DEF addMapping, canAddMapping, isOverlapWithStream
<1>3. /\ mappings_' = [mappings_ EXCEPT ![s] = m]
      /\ deviceChannelOwners_' =
           [ch \in Channels |-> IF ch \in deviceChannels(m) THEN s
                                ELSE deviceChannelOwners_[ch]]
  BY DEF addMapping, claimed
<1>4. m # NoMapping
  BY MappingAssumption
<1>5. MapperTypeOK'
  BY <1>1, <1>3 DEF MapperInv, MapperTypeOK
<1>6. OwnersMatch'
  <2> SUFFICES ASSUME NEW ch \in Channels, NEW id \in StreamIDs
               PROVE  deviceChannelOwners_'[ch] = id
                        <=> /\ mappings_'[id] # NoMapping
                            /\ ch \in deviceChannels(mappings_'[id])
    BY DEF OwnersMatch, deviceChannels
  <2>1. deviceChannelOwners_[ch] = id
          <=> mappings_[id] # NoMapping /\ ch \in deviceChannels(mappings_[id])
    BY DEF MapperInv, OwnersMatch
  <2>2. CASE id = s
    BY <1>1, <1>3, <1>4, <2>1, <2>2 DEF MapperInv, MapperTypeOK
  <2>3. CASE id # s
    <3>1. mappings_'[id] = mappings_[id]
      BY <1>3, <2>3 DEF MapperInv, MapperTypeOK
    <3>2. CASE ch \in deviceChannels(m)
      BY <1>2, <1>3, <2>1, <2>3, <3>1, <3>2, IDAssumption
    <3>3. CASE ch \notin deviceChannels(m)
      BY <1>3, <2>1, <3>1, <3>3
    <3> QED BY <3>2, <3>3
  <2> QED BY <2>2, <2>3
<1> QED BY <1>5, <1>6 DEF MapperInv

\* updateMapping(): what the stream owned is released before it claims.
LEMMA UpdateKeepsInv ==
  ASSUME MapperInv, NEW m \in Mappings, updateMapping(m)
  PROVE  MapperInv'
<1> DEFINE s == m.streamID
<1>1. isValid(m) /\ s \in StreamIDs /\ deviceChannels(m) \subseteq Channels
  BY ValidInDevice DEF updateMapping, canUpdateMapping
<1>2. \A ch \in deviceChannels(m) : deviceChannelOwners_[ch] \in {NullID, s}
  BY <1>1 DEF updateMapping, canUpdateMapping, isOverlapWithStream
<1>3. /\ mappings_' = [mappings_ EXCEPT ![s] = m]
      /\ deviceChannelOwners_' =
           [ch \in Channels |-> IF ch \in deviceChannels(m) THEN s
                                ELSE IF deviceChannelOwners_[ch] = s THEN NullID
                                ELSE deviceChannelOwners_[ch]]
  BY DEF updateMapping, remapped, claimed, released
<1>4. m # NoMapping
  BY MappingAssumption
<1>5. MapperTypeOK'
  BY <1>1, <1>3 DEF MapperInv, MapperTypeOK
<1>6. OwnersMatch'
  <2> SUFFICES ASSUME NEW ch \in Channels, NEW id \in StreamIDs
               PROVE  deviceChannelOwners_'[ch] = id
                        <=> /\ mappings_'[id] # NoMapping
                            /\ ch \in deviceChannels(mappings_'[id])
    BY DEF OwnersMatch, deviceChannels
  <2>1. deviceChannelOwners_[ch] = id
          <=> mappings_[id] # NoMapping /\ ch \in deviceChannels(mappings_[id])
    BY DEF MapperInv, OwnersMatch
  <2>2. CASE id = s
    BY <1>1, <1>3, <1>4, <2>2, IDAssumption DEF MapperInv, MapperTypeOK
  <2>3. CASE id # s
    <3>1. mappings_'[id] = mappings_[id]
      BY <1>3, <2>3 DEF MapperInv, MapperTypeOK
    <3>2. CASE ch \in deviceChannels(m)
      BY <1>2, <1>3, <2>1, <2>3, <3>1, <3>2, IDAssumption
    <3>3. CASE ch \notin deviceChannels(m)
      BY <1>3, <2>1, <2>3, <3>1, <3>3, IDAssumption
    <3> QED BY <3>2, <3>3
  <2> QED BY <2>2, <2>3
<1> QED BY <1>5, <1>6 DEF MapperInv

\* removeMapping(): exactly the channels of the stream become free.
LEMMA RemoveKeepsInv ==
  ASSUME MapperInv, NEW s \in StreamIDs, removeMapping(s)
  PROVE  MapperInv'
<1>1. /\ mappings_' = [mappings_ EXCEPT ![s] = NoMapping]
      /\ deviceChannelOwners_' =
           [ch \in Channels |-> IF deviceChannelOwners_[ch] = s THEN NullID
                                ELSE deviceChannelOwners_[ch]]
  BY DEF removeMapping, released
<1>2. MapperTypeOK'
  BY <1>1 DEF MapperInv, MapperTypeOK
<1>3. OwnersMatch'
  <2> SUFFICES ASSUME NEW ch \in Channels, NEW id \in StreamIDs
               PROVE  deviceChannelOwners_'[ch] = id
                        <=> /\ mappings_'[id] # NoMapping
                            /\ ch \in deviceChannels(mappings_'[id])
    BY DEF OwnersMatch, deviceChannels
  <2>1. deviceChannelOwners_[ch] = id
          <=> mappings_[id] # NoMapping /\ ch \in deviceChannels(mappings_[id])
    BY DEF MapperInv, OwnersMatch
  <2>2. CASE id = s
    BY <1>1, <2>1, <2>2, IDAssumption DEF MapperInv, MapperTypeOK
  <2>3. CASE id # s
    BY <1>1, <2>1, <2>3, IDAssumption DEF MapperInv, MapperTypeOK
  <2> QED BY <2>2, <2>3
<1> QED BY <1>2, <1>3 DEF MapperInv

\* Every operation of the mapper keeps the inductive invariant.
LEMMA NextKeepsInv == MapperInv /\ [MapperNext]_mapperVars => MapperInv'
<1> SUFFICES ASSUME MapperInv, [MapperNext]_mapperVars
             PROVE  MapperInv'
  OBVIOUS
<1>1. ASSUME NEW m \in Mappings, addMapping(m), mappings_[m.streamID] = NoMapping
      PROVE  MapperInv'
  BY <1>1, AddKeepsInv
<1>2. ASSUME NEW m \in Mappings, updateMapping(m)
      PROVE  MapperInv'
  BY <1>2, UpdateKeepsInv
<1>3. ASSUME NEW id \in StreamIDs, removeMapping(id)
      PROVE  MapperInv'
  BY <1>3, RemoveKeepsInv
<1>4. CASE clearAll
  BY <1>4, IDAssumption DEF clearAll, MapperInv, MapperTypeOK, OwnersMatch
<1>5. CASE UNCHANGED mapperVars
  BY <1>5 DEF mapperVars, MapperInv, MapperTypeOK, OwnersMatch, deviceChannels
<1> QED BY <1>1, <1>2, <1>3, <1>4, <1>5 DEF MapperNext

\* Whatever the callers do, every stream's entry is that stream's mapping, on
\* channels the device has, and the owner table names known streams.
THEOREM MapperTypeCorrect == MapperSpec => []MapperTypeOK
<1>1. MapperInv => MapperTypeOK
  BY DEF MapperInv
<1> QED BY <1>1, InitInv, NextKeepsInv, PTL DEF MapperSpec

\* The owner table and the mappings never disagree: after any sequence of adds,
\* updates, removals and clears, a stream owns exactly the channels its mapping
\* names.
THEOREM OwnersAlwaysMatch == MapperSpec => []OwnersMatch
<1>1. MapperInv => OwnersMatch
  BY DEF MapperInv
<1> QED BY <1>1, InitInv, NextKeepsInv, PTL DEF MapperSpec

\* No device channel is ever given to two streams.
THEOREM ChannelsNeverShared == MapperSpec => []MappingsDisjoint
<1>1. MapperInv => MappingsDisjoint
  <2> SUFFICES ASSUME MapperInv,
                      NEW i \in StreamIDs, NEW j \in StreamIDs, i # j,
                      mappings_[i] # NoMapping, mappings_[j] # NoMapping,
                      NEW ch \in deviceChannels(mappings_[i]),
                      ch \in deviceChannels(mappings_[j])
               PROVE  FALSE
    BY DEF MappingsDisjoint
  <2>1. ch \in Channels
    BY DEF MapperInv, MapperTypeOK
  <2>2. deviceChannelOwners_[ch] = i /\ deviceChannelOwners_[ch] = j
    BY <2>1 DEF MapperInv, OwnersMatch
  <2> QED BY <2>2
<1> QED BY <1>1, InitInv, NextKeepsInv, PTL DEF MapperSpec

-----------------------------------------------------------------------------
(* The books of the manager *)

EntriesTyped ==
  /\ streams_ \in [StreamIDs -> Entries \cup {NoStream}]
  /\ rxChannelsInUse_ \in Int /\ txChannelsInUse_ \in Int

\* OneClock, stream by stream: it also holds while the file is loaded.
ClockAgrees ==
  /\ \A id \in open : streams_[id].sdp.ptpMaster \in {NoGrandmaster, activeGrandmaster_}
  /\ activeGrandmaster_ # NoGrandmaster =>
       \E id \in open : streams_[id].sdp.ptpMaster = activeGrandmaster_

BooksInv == EntriesTyped /\ MapperInv /\ MapperAgrees /\ CountersExact /\ ClockAgrees

MapperStep == UNCHANGED mapperVars \/ MapperNext

-----------------------------------------------------------------------------
(* Widths *)

\* The channels of the streams ids of a table, as channelsOf() has them of
\* streams_.
channelsIn(table, ids) == UNION {{id} \X (1..table[id].sdp.numChannels) : id \in ids}

\* A session is at least one channel wide.
LEMMA SessionWidth ==
  ASSUME NEW sdp \in Sessions
  PROVE  sdp.numChannels \in Nat \ {0}
<1>1. CASE sdp \in SDPs
  BY <1>1, OfferAssumption
<1>2. CASE sdp \in {txSession(n) : n \in 1..kPerFlow}
  BY <1>2, LimitAssumption DEF txSession
<1> QED BY <1>1, <1>2 DEF Sessions

\* The channels of finitely many streams are finitely many.
LEMMA ChannelsFinite ==
  ASSUME NEW table, NEW ids, IsFiniteSet(ids),
         \A i \in ids : table[i].sdp.numChannels \in Nat
  PROVE  IsFiniteSet(channelsIn(table, ids))
<1> DEFINE block(i) == {i} \X (1..table[i].sdp.numChannels)
           blocks == {block(i) : i \in ids}
           f == [i \in ids |-> block(i)]
<1>1. IsFiniteSet(blocks)
  <2>1. f \in Surjection(ids, blocks)
    BY DEF Surjection
  <2> QED BY <2>1, FS_Surjection
<1>2. ASSUME NEW T \in blocks PROVE IsFiniteSet(T)
  <2>1. PICK i \in ids : T = block(i)
    OBVIOUS
  <2>2. IsFiniteSet({i}) /\ IsFiniteSet(1..table[i].sdp.numChannels)
    <3>1. PICK n \in Nat : n = table[i].sdp.numChannels
      OBVIOUS
    <3>2. IsFiniteSet(1..n)
      BY FS_Interval
    <3> QED BY <3>1, <3>2, FS_Singleton
  <2> QED BY <2>1, <2>2, FS_Product
<1> HIDE DEF blocks, block
<1>3. IsFiniteSet(UNION blocks)
  BY <1>1, <1>2, FS_UNION
<1> QED BY <1>3 DEF channelsIn, blocks, block

\* One more stream adds its width.
LEMMA WidthAdds ==
  ASSUME NEW table, NEW ids, IsFiniteSet(ids), NEW id, id \notin ids,
         \A i \in ids \cup {id} : table[i].sdp.numChannels \in Nat
  PROVE  Cardinality(channelsIn(table, ids \cup {id}))
           = Cardinality(channelsIn(table, ids)) + table[id].sdp.numChannels
<1> DEFINE n == table[id].sdp.numChannels
           A == channelsIn(table, ids)
           B == {id} \X (1..n)
<1>1. n \in Nat
  OBVIOUS
<1>2. IsFiniteSet(A)
  BY ChannelsFinite
<1>3. IsFiniteSet(B) /\ Cardinality(B) = n
  <2>1. IsFiniteSet({id}) /\ Cardinality({id}) = 1
    BY FS_Singleton
  <2>2. IsFiniteSet(1..n) /\ Cardinality(1..n) = n
    <3>1. PICK k \in Nat : k = n
      BY <1>1
    <3>2. IsFiniteSet(1..k) /\ Cardinality(1..k) = IF 1 > k THEN 0 ELSE k - 1 + 1
      BY FS_Interval
    <3> QED BY <3>1, <3>2
  <2>3. IsFiniteSet(B) /\ Cardinality(B) = Cardinality({id}) * Cardinality(1..n)
    BY <2>1, <2>2, FS_Product
  <2> QED BY <1>1, <2>1, <2>2, <2>3
<1>4. A \cap B = {}
  BY DEF channelsIn
<1>5. channelsIn(table, ids \cup {id}) = A \cup B
  BY DEF channelsIn
<1>6. Cardinality(A \cup B) = Cardinality(A) + Cardinality(B) - Cardinality(A \cap B)
  BY <1>2, <1>3, FS_Union
<1>7. Cardinality(A) \in Nat /\ Cardinality(A \cap B) = 0
  BY <1>2, <1>4, FS_CardinalityType, FS_EmptySet
<1>8. \A a, b, k \in Nat : b = k => a + b - 0 = a + k
  OBVIOUS
<1> HIDE DEF A, B, n
<1>9. Cardinality(A \cup B) = Cardinality(A) + n
  BY <1>1, <1>3, <1>6, <1>7, <1>8
<1> QED BY <1>5, <1>9 DEF A, n

\* Tables that agree on the streams have the same channels.
LEMMA SameChannels ==
  ASSUME NEW t1, NEW t2, NEW ids,
         \A i \in ids : t1[i].sdp.numChannels = t2[i].sdp.numChannels
  PROVE  channelsIn(t1, ids) = channelsIn(t2, ids)
BY DEF channelsIn

-----------------------------------------------------------------------------
(* What a step does to the books *)

\* The open streams of a direction, of a table.
openIn(table, isTransmit) ==
  {id \in StreamIDs : table[id] # NoStream /\ table[id].isTransmit = isTransmit}

LEMMA OpenOfTable ==
  ASSUME NEW table \in [StreamIDs -> Entries \cup {NoStream}]
  PROVE  LET opened == {id \in StreamIDs : table[id] # NoStream}
         IN  /\ {id \in opened : ~table[id].isTransmit} = openIn(table, FALSE)
             /\ {id \in opened : table[id].isTransmit} = openIn(table, TRUE)
<1>1. \A id \in StreamIDs : table[id] # NoStream => table[id].isTransmit \in BOOLEAN
  BY DEF Entries
<1> QED BY <1>1 DEF openIn

\* CountersExact in terms of a table.
LEMMA CountersOfTable ==
  ASSUME EntriesTyped
  PROVE  CountersExact
           <=> /\ rxChannelsInUse_ = Cardinality(channelsIn(streams_, openIn(streams_, FALSE)))
               /\ txChannelsInUse_ = Cardinality(channelsIn(streams_, openIn(streams_, TRUE)))
BY OpenOfTable DEF EntriesTyped, open, CountersExact, channelsOf, channelsIn

LEMMA CountersOfNextTable ==
  ASSUME EntriesTyped',
         rxChannelsInUse_' = Cardinality(channelsIn(streams_', openIn(streams_', FALSE))),
         txChannelsInUse_' = Cardinality(channelsIn(streams_', openIn(streams_', TRUE)))
  PROVE  CountersExact'
BY OpenOfTable DEF EntriesTyped, open, CountersExact, channelsOf, channelsIn

\* The fields of an open stream's entry.
LEMMA EntryFields ==
  ASSUME EntriesTyped, NEW id \in StreamIDs, streams_[id] # NoStream
  PROVE  /\ streams_[id] \in Entries
         /\ streams_[id].sdp \in Sessions
         /\ streams_[id].mapping \in Mappings
         /\ streams_[id].rtpMapping \in Mappings
         /\ streams_[id].isTransmit \in BOOLEAN
         /\ streams_[id].running \in BOOLEAN
         /\ streams_[id].sdp.numChannels \in Nat
<1>1. streams_[id] \in Entries
  BY DEF EntriesTyped
<1> QED BY <1>1, SessionWidth DEF Entries

\* The streams of a direction are finitely many, each of some width.
LEMMA OpenFinite ==
  ASSUME EntriesTyped, NEW d \in BOOLEAN
  PROVE  /\ IsFiniteSet(openIn(streams_, d))
         /\ \A i \in openIn(streams_, d) : streams_[i].sdp.numChannels \in Nat
<1>1. openIn(streams_, d) \subseteq StreamIDs
  BY DEF openIn
<1>2. IsFiniteSet(openIn(streams_, d))
  BY <1>1, OfferAssumption, FS_Subset
<1> QED BY <1>2, EntryFields DEF openIn

\* Storing a stream keeps the books: addStream(), createTxStream() and a stream
\* restored from the file.
LEMMA StoreKeepsBooks ==
  ASSUME BooksInv, NEW id \in StreamIDs, NEW sdp \in Sessions, NEW m \in Mappings,
         NEW isTransmit \in BOOLEAN, NEW running \in BOOLEAN,
         streams_[id] = NoStream, m.streamID = id,
         \/ sdp.ptpMaster = NoGrandmaster
         \/ activeGrandmaster_ \in {NoGrandmaster, sdp.ptpMaster},
         store(id, sdp, m, isTransmit, running)
  PROVE  BooksInv' /\ MapperStep
<1> DEFINE e == entry(sdp, m, isTransmit, running)
<1>1. /\ addMapping(m)
      /\ streams_' = [streams_ EXCEPT ![id] = e]
      /\ addCount(isTransmit, sdp.numChannels)
      /\ adoptGrandmaster(sdp)
  BY DEF store
<1>2. /\ e \in Entries /\ e # NoStream /\ e.sdp = sdp /\ e.isTransmit = isTransmit
      /\ e.mapping = m
  BY OfferAssumption DEF entry, Entries
<1> HIDE DEF e
<1>3. /\ streams_'[id] = e
      /\ \A i \in StreamIDs \ {id} : streams_'[i] = streams_[i]
      /\ streams_' \in [StreamIDs -> Entries \cup {NoStream}]
  BY <1>1, <1>2 DEF BooksInv, EntriesTyped
<1>4. PICK n \in Nat : n = sdp.numChannels
  BY SessionWidth
<1>5. mappings_[m.streamID] = NoMapping
  BY DEF BooksInv, MapperAgrees
<1>6. EntriesTyped'
  <2>1. rxChannelsInUse_' \in Int /\ txChannelsInUse_' \in Int
    BY <1>1, <1>4 DEF addCount, BooksInv, EntriesTyped
  <2> QED BY <1>3, <2>1 DEF EntriesTyped
<1>7. MapperInv' /\ MapperStep
  <2>1. MapperInv'
    BY <1>1, <1>5, AddKeepsInv DEF BooksInv
  <2>2. MapperNext
    BY <1>1, <1>5 DEF MapperNext
  <2> QED BY <2>1, <2>2 DEF MapperStep
<1>8. MapperAgrees'
  <2>1. mappings_' = [mappings_ EXCEPT ![id] = m]
    BY <1>1 DEF addMapping
  <2>2. mappings_ \in [StreamIDs -> Mappings \cup {NoMapping}]
    BY DEF BooksInv, MapperInv, MapperTypeOK
  <2> QED BY <1>2, <1>3, <2>1, <2>2 DEF BooksInv, MapperAgrees
<1>9. CountersExact'
  <2> DEFINE old(d) == openIn(streams_, d)
             total(d) == Cardinality(channelsIn(streams_, old(d)))
  <2>1. /\ rxChannelsInUse_ = total(FALSE) /\ rxChannelsInUse_ \in Int
        /\ txChannelsInUse_ = total(TRUE) /\ txChannelsInUse_ \in Int
    BY CountersOfTable DEF BooksInv, EntriesTyped
  <2>2. openIn(streams_', isTransmit) = old(isTransmit) \cup {id}
    BY <1>2, <1>3 DEF openIn
  <2>3. ASSUME NEW d \in BOOLEAN, d # isTransmit
        PROVE  openIn(streams_', d) = old(d)
    BY <1>2, <1>3, <2>3 DEF openIn
  <2>4. ASSUME NEW d \in BOOLEAN
        PROVE  channelsIn(streams_', old(d)) = channelsIn(streams_, old(d))
    <3>1. \A i \in old(d) : streams_'[i] = streams_[i]
      BY <1>3 DEF openIn
    <3> QED BY <3>1, SameChannels
  <2>5. Cardinality(channelsIn(streams_', old(isTransmit) \cup {id})) = total(isTransmit) + n
    <3>1. IsFiniteSet(old(isTransmit)) /\ id \notin old(isTransmit)
      BY OpenFinite DEF BooksInv, openIn
    <3>2. \A i \in old(isTransmit) \cup {id} : streams_'[i].sdp.numChannels \in Nat
      BY <1>2, <1>3, <1>4, OpenFinite DEF BooksInv, openIn
    <3> HIDE DEF old
    <3>3. Cardinality(channelsIn(streams_', old(isTransmit) \cup {id}))
            = Cardinality(channelsIn(streams_', old(isTransmit))) + streams_'[id].sdp.numChannels
      BY <3>1, <3>2, WidthAdds
    <3> QED BY <1>2, <1>3, <1>4, <2>4, <3>3
  <2> HIDE DEF old, total
  <2>6. /\ rxChannelsInUse_' = Cardinality(channelsIn(streams_', openIn(streams_', FALSE)))
        /\ txChannelsInUse_' = Cardinality(channelsIn(streams_', openIn(streams_', TRUE)))
    <3>1. CASE isTransmit = TRUE
      BY <1>1, <1>4, <2>1, <2>2, <2>3, <2>4, <2>5, <3>1 DEF addCount, total
    <3>2. CASE isTransmit = FALSE
      BY <1>1, <1>4, <2>1, <2>2, <2>3, <2>4, <2>5, <3>2 DEF addCount, total
    <3> QED BY <3>1, <3>2
  <2> QED BY <1>6, <2>6, CountersOfNextTable
<1>10. ClockAgrees'
  BY <1>1, <1>2, <1>3 DEF BooksInv, ClockAgrees, adoptGrandmaster, open
<1> QED BY <1>6, <1>7, <1>8, <1>9, <1>10 DEF BooksInv

\* Erasing one: removeStream(), alone or in sink-follow and a rollback.
LEMMA EraseKeepsBooks ==
  ASSUME BooksInv, NEW id \in StreamIDs, streams_[id] # NoStream, erase(id)
  PROVE  BooksInv' /\ MapperStep
<1> DEFINE isTransmit == streams_[id].isTransmit
<1>1. /\ removeMapping(id)
      /\ addCount(isTransmit, -streams_[id].sdp.numChannels)
      /\ streams_' = [streams_ EXCEPT ![id] = NoStream]
      /\ recomputeActiveGrandmaster(open \ {id})
  BY DEF erase
<1>2. isTransmit \in BOOLEAN
  BY EntryFields DEF BooksInv
<1>3. /\ streams_'[id] = NoStream
      /\ \A i \in StreamIDs \ {id} : streams_'[i] = streams_[i]
      /\ streams_' \in [StreamIDs -> Entries \cup {NoStream}]
  BY <1>1 DEF BooksInv, EntriesTyped
<1>4. PICK n \in Nat : n = streams_[id].sdp.numChannels
  BY EntryFields DEF BooksInv
<1>5. EntriesTyped'
  <2>1. rxChannelsInUse_' \in Int /\ txChannelsInUse_' \in Int
    BY <1>1, <1>4 DEF addCount, BooksInv, EntriesTyped
  <2> QED BY <1>3, <2>1 DEF EntriesTyped
<1>6. MapperInv' /\ MapperStep
  BY <1>1, RemoveKeepsInv DEF BooksInv, MapperStep, MapperNext
<1>7. MapperAgrees'
  <2>1. mappings_' = [mappings_ EXCEPT ![id] = NoMapping]
    BY <1>1 DEF removeMapping
  <2>2. mappings_ \in [StreamIDs -> Mappings \cup {NoMapping}]
    BY DEF BooksInv, MapperInv, MapperTypeOK
  <2> QED BY <1>3, <2>1, <2>2 DEF BooksInv, MapperAgrees
<1>8. CountersExact'
  <2> DEFINE now(d) == openIn(streams_', d)
             total(d) == Cardinality(channelsIn(streams_, openIn(streams_, d)))
  <2>1. /\ rxChannelsInUse_ = total(FALSE) /\ rxChannelsInUse_ \in Int
        /\ txChannelsInUse_ = total(TRUE) /\ txChannelsInUse_ \in Int
    BY CountersOfTable DEF BooksInv, EntriesTyped
  <2>2. openIn(streams_, isTransmit) = now(isTransmit) \cup {id} /\ id \notin now(isTransmit)
    BY <1>3 DEF openIn
  <2>3. ASSUME NEW d \in BOOLEAN, d # isTransmit
        PROVE  openIn(streams_, d) = now(d)
    BY <1>3, <2>3 DEF openIn
  <2>4. ASSUME NEW d \in BOOLEAN
        PROVE  channelsIn(streams_', now(d)) = channelsIn(streams_, now(d))
    <3>1. \A i \in now(d) : streams_'[i] = streams_[i]
      BY <1>3 DEF openIn
    <3> QED BY <3>1, SameChannels
  <2>5. ASSUME NEW d \in BOOLEAN
        PROVE  /\ IsFiniteSet(now(d))
               /\ \A i \in now(d) : streams_[i].sdp.numChannels \in Nat
    <3>1. now(d) \subseteq openIn(streams_, d)
      BY <1>3 DEF openIn
    <3> QED BY <3>1, OpenFinite, FS_Subset DEF BooksInv
  <2>6. /\ total(isTransmit) = Cardinality(channelsIn(streams_', now(isTransmit))) + n
        /\ Cardinality(channelsIn(streams_', now(isTransmit))) \in Nat
    <3> HIDE DEF now
    <3>1. \A i \in now(isTransmit) \cup {id} : streams_[i].sdp.numChannels \in Nat
      BY <1>2, <1>4, <2>5
    <3>2. Cardinality(channelsIn(streams_, now(isTransmit) \cup {id}))
            = Cardinality(channelsIn(streams_, now(isTransmit))) + streams_[id].sdp.numChannels
      BY <1>2, <2>2, <2>5, <3>1, WidthAdds
    <3>3. Cardinality(channelsIn(streams_, now(isTransmit))) \in Nat
      BY <1>2, <2>5, ChannelsFinite, FS_CardinalityType
    <3> QED BY <1>2, <1>4, <2>2, <2>4, <3>2, <3>3
  <2>7. \A a, b \in Int : a = b + n => a + (-n) = b
    OBVIOUS
  <2>8. /\ rxChannelsInUse_' = Cardinality(channelsIn(streams_', now(FALSE)))
        /\ txChannelsInUse_' = Cardinality(channelsIn(streams_', now(TRUE)))
    <3>1. ASSUME NEW d \in BOOLEAN, d # isTransmit
          PROVE  total(d) = Cardinality(channelsIn(streams_', now(d)))
      BY <2>3, <2>4, <3>1
    <3>2. total(isTransmit) + (-n) = Cardinality(channelsIn(streams_', now(isTransmit)))
      <4> HIDE DEF now, total, isTransmit
      <4> QED BY <2>6, <2>7
    <3> HIDE DEF now, total, isTransmit
    <3>3. CASE isTransmit = TRUE
      <4>1. txChannelsInUse_' = txChannelsInUse_ + (-n) /\ rxChannelsInUse_' = rxChannelsInUse_
        BY <1>1, <1>4, <3>3 DEF addCount
      <4> QED BY <2>1, <3>1, <3>2, <3>3, <4>1
    <3>4. CASE isTransmit = FALSE
      <4>1. rxChannelsInUse_' = rxChannelsInUse_ + (-n) /\ txChannelsInUse_' = txChannelsInUse_
        BY <1>1, <1>4, <3>4 DEF addCount
      <4> QED BY <2>1, <3>1, <3>2, <3>4, <4>1
    <3> QED BY <1>2, <3>3, <3>4
  <2> QED BY <1>5, <2>8, CountersOfNextTable
<1>9. ClockAgrees'
  <2> DEFINE named == {streams_[i].sdp.ptpMaster : i \in open \ {id}} \ {NoGrandmaster}
  <2>1. activeGrandmaster_' \in (IF named = {} THEN {NoGrandmaster} ELSE named)
    BY <1>1 DEF recomputeActiveGrandmaster
  <2>2. open' = open \ {id}
    BY <1>3 DEF open
  <2>3. \A i \in open' : streams_'[i] = streams_[i]
    BY <1>3, <2>2 DEF open
  <2>4. named \subseteq {activeGrandmaster_}
    BY DEF BooksInv, ClockAgrees
  <2>5. CASE named = {}
    <3>1. \A i \in open' : streams_'[i].sdp.ptpMaster = NoGrandmaster
      BY <2>2, <2>3, <2>5
    <3>2. activeGrandmaster_' = NoGrandmaster
      BY <2>1, <2>5
    <3> QED BY <3>1, <3>2 DEF ClockAgrees
  <2>6. CASE named # {}
    <3>1. /\ activeGrandmaster_' \in named /\ activeGrandmaster_' = activeGrandmaster_
          /\ activeGrandmaster_' # NoGrandmaster
      BY <2>1, <2>4, <2>6
    <3>2. PICK i \in open \ {id} : streams_[i].sdp.ptpMaster = activeGrandmaster_'
      BY <3>1
    <3>3. \A k \in open' :
            streams_'[k].sdp.ptpMaster \in {NoGrandmaster, activeGrandmaster_'}
      BY <2>2, <2>3, <3>1 DEF BooksInv, ClockAgrees
    <3> QED BY <2>2, <2>3, <3>2, <3>3 DEF ClockAgrees
  <2> QED BY <2>5, <2>6
<1> QED BY <1>5, <1>6, <1>7, <1>8, <1>9 DEF BooksInv

\* As long as every stream keeps its session and its direction, the totals and
\* the grandmaster need no change.
LEMMA SameSessions ==
  ASSUME BooksInv, EntriesTyped',
         \A i \in StreamIDs :
           /\ streams_'[i] = NoStream <=> streams_[i] = NoStream
           /\ streams_[i] # NoStream =>
                /\ streams_'[i].sdp = streams_[i].sdp
                /\ streams_'[i].isTransmit = streams_[i].isTransmit,
         UNCHANGED <<rxChannelsInUse_, txChannelsInUse_, activeGrandmaster_>>
  PROVE  CountersExact' /\ ClockAgrees'
<1>1. ASSUME NEW d \in BOOLEAN
      PROVE  channelsIn(streams_', openIn(streams_', d))
               = channelsIn(streams_, openIn(streams_, d))
  <2>1. openIn(streams_', d) = openIn(streams_, d)
    BY DEF openIn
  <2>2. \A i \in openIn(streams_, d) :
          streams_'[i].sdp.numChannels = streams_[i].sdp.numChannels
    BY DEF openIn
  <2> QED BY <2>1, <2>2, SameChannels
<1>2. /\ rxChannelsInUse_ = Cardinality(channelsIn(streams_, openIn(streams_, FALSE)))
      /\ txChannelsInUse_ = Cardinality(channelsIn(streams_, openIn(streams_, TRUE)))
  BY CountersOfTable DEF BooksInv
<1>3. CountersExact'
  BY <1>1, <1>2, CountersOfNextTable
<1>4. ClockAgrees'
  BY DEF BooksInv, ClockAgrees, open
<1> QED BY <1>3, <1>4

\* Steps that do not change the recorded mappings either: setIOActive(), and an
\* RTP object that does not come back.
LEMMA RunningKeepsBooks ==
  ASSUME BooksInv, streams_' \in [StreamIDs -> Entries \cup {NoStream}],
         \A i \in StreamIDs :
           /\ streams_'[i] = NoStream <=> streams_[i] = NoStream
           /\ streams_[i] # NoStream =>
                /\ streams_'[i].sdp = streams_[i].sdp
                /\ streams_'[i].isTransmit = streams_[i].isTransmit
                /\ streams_'[i].mapping = streams_[i].mapping,
         UNCHANGED <<mapperVars, countVars, activeGrandmaster_>>
  PROVE  BooksInv' /\ MapperStep
<1>1. UNCHANGED <<mappings_, deviceChannelOwners_, rxChannelsInUse_, txChannelsInUse_>>
  BY DEF mapperVars, countVars
<1>2. EntriesTyped'
  BY <1>1 DEF BooksInv, EntriesTyped
<1>3. MapperInv'
  BY <1>1 DEF BooksInv, MapperInv, MapperTypeOK, OwnersMatch, deviceChannels
<1>4. MapperAgrees'
  BY <1>1 DEF BooksInv, MapperAgrees
<1>5. CountersExact' /\ ClockAgrees'
  BY <1>1, <1>2, SameSessions
<1> QED BY <1>2, <1>3, <1>4, <1>5 DEF BooksInv, MapperStep, mapperVars

\* A mapping the mapper and the RTP object take.
LEMMA RemapKeepsBooks ==
  ASSUME BooksInv, NEW id \in StreamIDs, streams_[id] # NoStream,
         NEW m \in Mappings, m.streamID = id, updateMapping(m),
         streams_' = [streams_ EXCEPT ![id].mapping = m, ![id].rtpMapping = m],
         UNCHANGED <<countVars, activeGrandmaster_>>
  PROVE  BooksInv' /\ MapperStep
<1>1. UNCHANGED <<rxChannelsInUse_, txChannelsInUse_, activeGrandmaster_>>
  BY DEF countVars
<1>2. /\ streams_' \in [StreamIDs -> Entries \cup {NoStream}]
      /\ \A i \in StreamIDs \ {id} : streams_'[i] = streams_[i]
      /\ streams_'[id] \in Entries
      /\ streams_'[id].mapping = m
      /\ streams_'[id].sdp = streams_[id].sdp
      /\ streams_'[id].isTransmit = streams_[id].isTransmit
  BY EntryFields DEF BooksInv, EntriesTyped, Entries
<1>3. streams_'[id] # NoStream
  BY <1>2, OfferAssumption
<1>4. EntriesTyped'
  BY <1>1, <1>2 DEF BooksInv, EntriesTyped
<1>5. MapperInv' /\ MapperStep
  BY UpdateKeepsInv DEF BooksInv, MapperStep, MapperNext
<1>6. MapperAgrees'
  <2>1. mappings_' = [mappings_ EXCEPT ![id] = m]
    BY DEF updateMapping
  <2>2. mappings_ \in [StreamIDs -> Mappings \cup {NoMapping}]
    BY DEF BooksInv, MapperInv, MapperTypeOK
  <2> QED BY <1>2, <1>3, <2>1, <2>2 DEF BooksInv, MapperAgrees
<1>7. \A i \in StreamIDs :
        /\ streams_'[i] = NoStream <=> streams_[i] = NoStream
        /\ streams_[i] # NoStream =>
             /\ streams_'[i].sdp = streams_[i].sdp
             /\ streams_'[i].isTransmit = streams_[i].isTransmit
  BY <1>2, <1>3
<1>8. CountersExact' /\ ClockAgrees'
  BY <1>1, <1>4, <1>7, SameSessions
<1> QED BY <1>4, <1>5, <1>6, <1>8 DEF BooksInv

\* A mapping the mapper took and the RTP object refused: what the stream owned
\* comes back and nothing else moves, because the mapper had let m overlap the
\* stream's own channels only.
LEMMA RestoreRestores ==
  ASSUME BooksInv, NEW id \in StreamIDs, streams_[id] # NoStream,
         NEW m \in Mappings, m.streamID = id, canUpdateMapping(m), restoreMapping(id, m)
  PROVE  UNCHANGED mapperVars
<1> DEFINE was == streams_[id].mapping
<1>1. was = mappings_[id] /\ was \in Mappings /\ was # NoMapping /\ was.streamID = id
  <2>1. was = mappings_[id] /\ was \in Mappings
    BY EntryFields DEF BooksInv, MapperAgrees
  <2>2. was # NoMapping
    BY <2>1, MappingAssumption
  <2> QED BY <2>1, <2>2 DEF BooksInv, MapperInv, MapperTypeOK
<1>2. mappings_' = mappings_
  BY <1>1 DEF restoreMapping, BooksInv, MapperInv, MapperTypeOK
<1>3. \A ch \in Channels : ch \in deviceChannels(m) => deviceChannelOwners_[ch] \in {NullID, id}
  BY DEF canUpdateMapping, isOverlapWithStream
<1>4. \A ch \in Channels : deviceChannelOwners_[ch] = id <=> ch \in deviceChannels(was)
  BY <1>1 DEF BooksInv, MapperInv, OwnersMatch
<1>5. deviceChannelOwners_' = deviceChannelOwners_
  <2> HIDE DEF was
  <2>1. deviceChannelOwners_' =
          [ch \in Channels |->
             IF ch \in deviceChannels(was) THEN id
             ELSE IF remapped(deviceChannelOwners_, m)[ch] = id THEN NullID
             ELSE remapped(deviceChannelOwners_, m)[ch]]
    BY <1>1 DEF restoreMapping, remapped, claimed, released, was
  <2>2. \A ch \in Channels : remapped(deviceChannelOwners_, m)[ch] =
          IF ch \in deviceChannels(m) THEN id
          ELSE IF deviceChannelOwners_[ch] = id THEN NullID ELSE deviceChannelOwners_[ch]
    BY DEF remapped, claimed, released
  <2>3. ASSUME NEW ch \in Channels PROVE deviceChannelOwners_'[ch] = deviceChannelOwners_[ch]
    BY <1>3, <1>4, <2>1, <2>2, IDAssumption
  <2>4. deviceChannelOwners_ \in [Channels -> StreamIDs \cup {NullID}]
    BY DEF BooksInv, MapperInv, MapperTypeOK
  <2> QED BY <2>1, <2>3, <2>4
<1> QED BY <1>2, <1>5 DEF mapperVars

\* removeAllStreams(), and the end of the process.
LEMMA DropKeepsBooks ==
  ASSUME BooksInv, clearAll, streams_' = [id \in StreamIDs |-> NoStream],
         rxChannelsInUse_' = 0, txChannelsInUse_' = 0,
         activeGrandmaster_' = NoGrandmaster
  PROVE  BooksInv' /\ MapperStep
<1>1. EntriesTyped' /\ MapperAgrees'
  BY DEF EntriesTyped, MapperAgrees, clearAll
<1>2. MapperInv' /\ MapperStep
  BY NextKeepsInv DEF BooksInv, MapperNext, MapperStep
<1>3. CountersExact'
  <2>1. channelsIn(streams_', openIn(streams_', FALSE)) = {}
    BY DEF openIn, channelsIn
  <2>2. channelsIn(streams_', openIn(streams_', TRUE)) = {}
    BY DEF openIn, channelsIn
  <2> QED BY <1>1, <2>1, <2>2, FS_EmptySet, CountersOfNextTable
<1>4. ClockAgrees'
  BY DEF ClockAgrees, open
<1> QED BY <1>1, <1>2, <1>3, <1>4 DEF BooksInv

\* Steps that leave the manager and the mapper alone.
LEMMA UnchangedKeepsBooks ==
  ASSUME BooksInv, UNCHANGED <<mapperVars, managerVars>>
  PROVE  BooksInv' /\ MapperStep
<1>1. /\ UNCHANGED <<streams_, rxChannelsInUse_, txChannelsInUse_, activeGrandmaster_>>
      /\ UNCHANGED mapperVars
  BY DEF managerVars
<1>2. streams_' \in [StreamIDs -> Entries \cup {NoStream}]
  BY <1>1 DEF BooksInv, EntriesTyped
<1> QED BY <1>1, <1>2, RunningKeepsBooks DEF countVars

-----------------------------------------------------------------------------
(* What is left of the calls, and the file *)

Routes == {{}} \cup {p.routes : p \in Placements}

AddSteps == [op : {"add"}, sdp : SDPs, start : Nat, routes : Routes,
             was : Mappings \cup {NoMapping}, ids : {{}}]
RemoveSteps == [op : {"remove"}, ids : SUBSET StreamIDs]
UpdateSteps == [op : {"update"}, remap : Remaps, ids : SUBSET StreamIDs]
FollowSteps == [op : {"follow"}, sdp : SDPs, todo : SUBSET [id : StreamIDs, start : Nat],
                ids : SUBSET StreamIDs]
FlowSteps == [op : {"flow"}, start : Nat, left : Nat \ {0}, ids : SUBSET StreamIDs]
RollbackSteps == [op : {"rollback"}, ids : SUBSET StreamIDs]
SaveSteps == [op : {"save"}, ids : {{}}]
Steps == AddSteps \cup RemoveSteps \cup UpdateSteps \cup FollowSteps \cup FlowSteps
           \cup RollbackSteps \cup SaveSteps

JobsTyped == job \in [Clients -> Seq(Steps)]

\* A configuration is of the stream it names.
Configs == {cfg \in Configurations : cfg.mapping.streamID = cfg.id}

FileTyped ==
  /\ disk \in {NoFile, TornFile} \/ disk \subseteq Configs
  /\ toLoad \subseteq Configs
  /\ ioActive_ \in BOOLEAN /\ boot \in {"off", "serving", "loading", "up"}
  /\ profile \in Profiles

ManagerInv == BooksInv /\ JobsTyped /\ FileTyped

\* Going on with a call.
LEMMA ContinueTyped ==
  ASSUME JobsTyped, NEW c \in Clients, job[c] # <<>>,
         NEW steps \in Seq(Steps), continue(c, steps)
  PROVE  JobsTyped'
<1>1. job[c] \in Seq(Steps)
  BY DEF JobsTyped
<1>2. Tail(job[c]) \in Seq(Steps)
  BY <1>1, HeadTailProperties
<1>3. steps \o Tail(job[c]) \in Seq(Steps)
  BY <1>2, ConcatProperties
<1> QED BY <1>3 DEF JobsTyped, continue

\* A save is still to come in a call, and in some call.
due(q) == \E k \in 1..Len(q) : q[k].op = "save"
SaveDue == \E c \in Clients : due(job[c])

\* What a save would write.
written == {config(id) : id \in open}

\* A step after which a save is still to come, or after which it is no more
\* needed than before.
SaveIsDue == SaveDue' \/ (written' = written /\ (SaveDue => SaveDue'))

\* A step that is not the save itself leaves the saves that were to come.
LEMMA ContinueDue ==
  ASSUME JobsTyped, NEW c \in Clients, job[c] # <<>>,
         NEW steps \in Seq(Steps), continue(c, steps)
  PROVE  /\ due(steps) => SaveDue'
         /\ Head(job[c]).op # "save" => (SaveDue => SaveDue')
<1> DEFINE q == job[c]
           t == Tail(q)
<1>1. q \in Seq(Steps) /\ q # <<>>
  BY DEF JobsTyped
<1>2. /\ t \in Seq(Steps) /\ Len(t) = Len(q) - 1
      /\ \A i \in 1..Len(t) : t[i] = q[i + 1]
  BY <1>1, HeadTailProperties
<1>3. /\ Len(steps \o t) = Len(steps) + Len(t)
      /\ \A i \in 1..(Len(steps) + Len(t)) :
           (steps \o t)[i] = IF i =< Len(steps) THEN steps[i] ELSE t[i - Len(steps)]
  BY <1>2, ConcatProperties
<1>4. Len(q) \in Nat \ {0} /\ Len(t) \in Nat /\ Len(steps) \in Nat
  BY <1>1, <1>2, LenProperties, EmptySeq
<1>5. /\ job'[c] = steps \o t
      /\ \A d \in Clients \ {c} : job'[d] = job[d]
  BY DEF continue, JobsTyped
<1>6. ASSUME due(steps) PROVE SaveDue'
  <2>1. PICK k \in 1..Len(steps) : steps[k].op = "save"
    BY <1>6 DEF due
  <2>2. k \in 1..Len(steps \o t) /\ (steps \o t)[k] = steps[k]
    BY <1>3, <1>4
  <2> QED BY <1>5, <2>1, <2>2 DEF SaveDue, due
<1>7. ASSUME Head(q).op # "save", SaveDue PROVE SaveDue'
  <2>0. PICK d \in Clients : due(job[d])
    BY <1>7 DEF SaveDue
  <2>1. PICK k \in 1..Len(job[d]) : job[d][k].op = "save"
    BY <2>0 DEF due
  <2>2. CASE d # c
    BY <1>5, <2>1, <2>2 DEF SaveDue, due
  <2>3. CASE d = c
    <3>1. Head(q) = q[1]
      BY <1>1
    <3>2. k \in 1..Len(q) /\ k # 1 /\ q[k].op = "save"
      BY <1>7, <2>1, <2>3, <3>1
    <3>3. k - 1 \in 1..Len(t) /\ t[k - 1] = q[k]
      BY <1>2, <1>4, <3>2
    <3> DEFINE j == Len(steps) + (k - 1)
    <3>4. j \in 1..Len(steps \o t) /\ (steps \o t)[j] = t[k - 1]
      <4>1. j \in 1..(Len(steps) + Len(t)) /\ ~(j =< Len(steps)) /\ j - Len(steps) = k - 1
        BY <1>4, <3>3
      <4> QED BY <1>3, <4>1
    <3> HIDE DEF j
    <3> QED BY <1>5, <3>2, <3>3, <3>4 DEF SaveDue, due
  <2> QED BY <2>2, <2>3
<1> QED BY <1>6, <1>7

\* Entries that differ only in what is not written.
LEMMA SameWritten ==
  ASSUME \A i \in StreamIDs :
           /\ streams_'[i] = NoStream <=> streams_[i] = NoStream
           /\ streams_[i] # NoStream =>
                /\ streams_'[i].sdp = streams_[i].sdp
                /\ streams_'[i].isTransmit = streams_[i].isTransmit
                /\ streams_'[i].mapping = streams_[i].mapping
  PROVE  written' = written
<1>1. open' = open
  BY DEF open
<1>2. \A i \in open : config(i)' = config(i)
  BY DEF open, config
<1> QED BY <1>1, <1>2 DEF written

LEMMA UnchangedWritten == UNCHANGED streams_ => written' = written
BY DEF written, config, open

\* The step a caller is at.
LEMMA HeadTyped ==
  ASSUME JobsTyped, NEW c \in Clients, job[c] # <<>>
  PROVE  Head(job[c]) \in Steps
<1>1. job[c] \in Seq(Steps)
  BY DEF JobsTyped
<1> QED BY <1>1, HeadTailProperties

\* The step has the fields of its kind.
LEMMA StepOfKind ==
  ASSUME NEW s \in Steps
  PROVE  /\ s.op = "add" => s \in AddSteps
         /\ s.op = "remove" => s \in RemoveSteps
         /\ s.op = "update" => s \in UpdateSteps
         /\ s.op = "follow" => s \in FollowSteps
         /\ s.op = "flow" => s \in FlowSteps
         /\ s.op = "rollback" => s \in RollbackSteps
BY DEF Steps, AddSteps, RemoveSteps, UpdateSteps, FollowSteps, FlowSteps, RollbackSteps,
       SaveSteps

\* The steps a call is made of.
LEMMA StepsTyped ==
  /\ saveStep \in Steps
  /\ \A sdp \in SDPs, start \in Nat, routes \in Routes, was \in Mappings \cup {NoMapping} :
       addStep(sdp, start, routes, was) \in Steps
  /\ \A id \in StreamIDs : removeStep(id) \in Steps
  /\ \A id \in StreamIDs, r \in Remaps : updateStep(id, r) \in Steps
  /\ \A sdp \in SDPs : \A todo \in SUBSET [id : StreamIDs, start : Nat] :
       followStep(sdp, todo) \in Steps
  /\ \A start \in Nat, left \in Nat \ {0} : \A created \in SUBSET StreamIDs :
       flowStep(start, left, created) \in Steps
  /\ \A created \in SUBSET StreamIDs : rollbackStep(created) \in Steps
<1>1. saveStep \in Steps
  BY DEF Steps, SaveSteps, saveStep
<1>2. ASSUME NEW sdp \in SDPs, NEW start \in Nat, NEW routes \in Routes,
             NEW was \in Mappings \cup {NoMapping}
      PROVE  addStep(sdp, start, routes, was) \in Steps
  BY DEF Steps, AddSteps, addStep
<1>3. ASSUME NEW id \in StreamIDs PROVE removeStep(id) \in Steps
  BY DEF Steps, RemoveSteps, removeStep
<1>4. ASSUME NEW id \in StreamIDs, NEW r \in Remaps PROVE updateStep(id, r) \in Steps
  BY DEF Steps, UpdateSteps, updateStep
<1>5. ASSUME NEW sdp \in SDPs, NEW todo \in SUBSET [id : StreamIDs, start : Nat]
      PROVE  followStep(sdp, todo) \in Steps
  <2>1. {p.id : p \in todo} \subseteq StreamIDs
    OBVIOUS
  <2> QED BY <2>1 DEF Steps, FollowSteps, followStep
<1>6. ASSUME NEW start \in Nat, NEW left \in Nat \ {0}, NEW created \in SUBSET StreamIDs
      PROVE  flowStep(start, left, created) \in Steps
  BY DEF Steps, FlowSteps, flowStep
<1>7. ASSUME NEW created \in SUBSET StreamIDs PROVE rollbackStep(created) \in Steps
  BY DEF Steps, RollbackSteps, rollbackStep
<1> QED BY <1>1, <1>2, <1>3, <1>4, <1>5, <1>6, <1>7

\* A call that goes on with a save.
LEMMA SaveFirst ==
  /\ due(<<saveStep>>)
  /\ \A s : due(<<saveStep, s>>)
  /\ \A q \in Seq(Steps) : due(<<saveStep>> \o q)
<1>1. due(<<saveStep>>) /\ \A s : due(<<saveStep, s>>)
  BY DEF due, saveStep
<1>2. ASSUME NEW q \in Seq(Steps) PROVE due(<<saveStep>> \o q)
  <2>1. saveStep \in Steps
    BY DEF Steps, SaveSteps, saveStep
  <2>2. <<saveStep>> \in Seq(Steps) /\ Len(<<saveStep>>) = 1 /\ <<saveStep>>[1] = saveStep
    BY <2>1
  <2>3. Len(q) \in Nat
    BY LenProperties
  <2>4. Len(<<saveStep>> \o q) = 1 + Len(q) /\ (<<saveStep>> \o q)[1] = saveStep
    BY <2>2, <2>3, ConcatProperties
  <2> QED BY <2>3, <2>4 DEF due, saveStep
<1> QED BY <1>1, <1>2

\* A sequence of one and of two steps, and what comes before another.
LEMMA ShortSeqs ==
  /\ <<>> \in Seq(Steps)
  /\ \A s \in Steps : <<s>> \in Seq(Steps)
  /\ \A s, t \in Steps : <<s, t>> \in Seq(Steps)
  /\ \A q, r \in Seq(Steps) : q \o r \in Seq(Steps)
BY ConcatProperties

-----------------------------------------------------------------------------
(* Each step keeps ManagerInv and calls the mapper as it allows *)

\* The lowest free block is one.
LEMMA BlockIsNat ==
  ASSUME NEW n \in Nat, freeBlocks(n) # {}
  PROVE  findContiguousBlock(n) \in Nat
<1>1. freeBlocks(n) \subseteq Nat
  BY ChannelAssumption DEF freeBlocks
<1> DEFINE less == {p \in Nat \X Nat : p[1] < p[2]}
<1>2. IsWellFoundedOn(less, Nat)
  BY NatLessThanWellFounded DEF OpToRel
<1>3. \E b \in freeBlocks(n) : \A a \in freeBlocks(n) : b =< a
  <2>1. \E b \in freeBlocks(n) : \A a \in freeBlocks(n) : ~(<<a, b>> \in less)
    <3> HIDE DEF less
    <3> QED BY <1>1, <1>2, WFMin
  <2>2. \A a, b \in Nat : <<a, b>> \notin less => b =< a
    OBVIOUS
  <2> HIDE DEF less
  <2> QED BY <1>1, <2>1, <2>2
<1> QED BY <1>1, <1>3 DEF findContiguousBlock

\* A mapping a caller asks for that fits the device is one of Mappings.
LEMMA OfferedIsMapping ==
  ASSUME NEW id \in StreamIDs, NEW sdp \in Sessions, NEW start \in Nat, NEW routes \in Routes,
         isValid(mapping(id, sdp, start, sdp.numChannels, routes))
  PROVE  mapping(id, sdp, start, sdp.numChannels, routes) \in Mappings
<1>1. start < kMaxDeviceChannels
  BY DEF isValid, mapping
<1>2. start \in Channels
  BY <1>1, ChannelAssumption DEF Channels
<1> QED BY <1>2, OfferAssumption DEF Routes

\* A stream that addStream() or createTxStream() takes.
LEMMA AdmittedKeepsBooks ==
  ASSUME BooksInv, ioActive_ \in BOOLEAN, NEW id \in StreamIDs, streams_[id] = NoStream,
         NEW sdp \in Sessions, NEW start \in Nat, NEW routes \in Routes,
         NEW isTransmit \in BOOLEAN, admitted(id, sdp, start, routes, isTransmit)
  PROVE  BooksInv' /\ MapperStep
<1> DEFINE m == mapping(id, sdp, start, sdp.numChannels, routes)
<1>1. canAddStream(sdp, isTransmit) /\ store(id, sdp, m, isTransmit, ioActive_)
  BY DEF admitted
<1>2. m \in Mappings
  BY <1>1, OfferedIsMapping DEF store, addMapping, canAddMapping
<1>3. m.streamID = id
  BY DEF mapping
<1>4. \/ sdp.ptpMaster = NoGrandmaster
      \/ activeGrandmaster_ \in {NoGrandmaster, sdp.ptpMaster}
  BY <1>1 DEF canAddStream
<1> HIDE DEF m
<1> QED BY <1>1, <1>2, <1>3, <1>4, StoreKeepsBooks

\* A removal that finds the stream, and one that does not.
LEMMA RemovedKeeps ==
  ASSUME BooksInv, JobsTyped, NEW c \in Clients, job[c] # <<>>, NEW id \in StreamIDs,
         Head(job[c]).op # "save", NEW then \in Seq(Steps), removed(c, id, then)
  PROVE  BooksInv' /\ MapperStep /\ JobsTyped' /\ SaveIsDue
<1>1. CASE streams_[id] # NoStream
  <2>1. erase(id) /\ continue(c, <<saveStep>> \o then)
    BY <1>1 DEF removed
  <2>2. <<saveStep>> \o then \in Seq(Steps)
    BY StepsTyped, ShortSeqs
  <2>3. SaveDue'
    BY <2>1, <2>2, SaveFirst, ContinueDue
  <2> QED BY <1>1, <2>1, <2>2, <2>3, EraseKeepsBooks, ContinueTyped DEF SaveIsDue
<1>2. CASE streams_[id] = NoStream
  <2>1. continue(c, <<>>) /\ UNCHANGED <<mapperVars, managerVars>>
    BY <1>2 DEF removed
  <2>2. SaveIsDue
    BY <2>1, UnchangedWritten, ContinueDue, ShortSeqs DEF SaveIsDue, managerVars
  <2> QED BY <2>1, <2>2, UnchangedKeepsBooks, ContinueTyped, ShortSeqs
<1> QED BY <1>1, <1>2

\* What a caller's step leaves alone.
LEMMA FileKept ==
  ASSUME FileTyped, UNCHANGED <<ioActive_, disk, boot, profile, toLoad>>
  PROVE  FileTyped'
BY DEF FileTyped

\* A call that puts its steps into job[c].
LEMMA CallKeeps ==
  ASSUME ManagerInv, NEW c \in Clients, NEW steps \in Seq(Steps), Call(c, steps)
  PROVE  ManagerInv' /\ MapperStep /\ SaveIsDue
<1>1. UNCHANGED <<mapperVars, managerVars, ioActive_, disk, boot, profile, toLoad>>
  BY DEF Call
<1>2. JobsTyped'
  BY DEF Call, ManagerInv, JobsTyped
<1>3. SaveDue => SaveDue'
  <2> SUFFICES ASSUME SaveDue PROVE SaveDue'
    OBVIOUS
  <2>1. PICK d \in Clients : due(job[d])
    BY DEF SaveDue
  <2>2. job[c] = <<>> /\ ~due(<<>>)
    BY DEF Call, due
  <2>3. job'[d] = job[d]
    BY <2>1, <2>2 DEF Call, ManagerInv, JobsTyped
  <2> QED BY <2>1, <2>3 DEF SaveDue, due
<1>4. written' = written
  BY <1>1, UnchangedWritten DEF managerVars
<1> QED BY <1>1, <1>2, <1>3, <1>4, UnchangedKeepsBooks, FileKept DEF ManagerInv, SaveIsDue

LEMMA CallsKeep ==
  ASSUME ManagerInv, NEW c \in Clients,
         \/ CallAddDefault(c) \/ CallAdd(c) \/ CallRemove(c) \/ CallUpdate(c)
         \/ CallTxFlows(c) \/ CallFollow(c)
  PROVE  ManagerInv' /\ MapperStep /\ SaveIsDue
<1> USE StepsTyped, ShortSeqs
<1>1. CASE CallAddDefault(c)
  <2>1. PICK sdp \in SDPs :
          /\ freeBlocks(sdp.numChannels) # {}
          /\ Call(c, <<addStep(sdp, findContiguousBlock(sdp.numChannels), {}, NoMapping)>>)
    BY <1>1 DEF CallAddDefault
  <2>2. sdp.numChannels \in Nat
    BY OfferAssumption
  <2>3. findContiguousBlock(sdp.numChannels) \in Nat
    BY <2>1, <2>2, BlockIsNat
  <2>4. addStep(sdp, findContiguousBlock(sdp.numChannels), {}, NoMapping) \in Steps
    BY <2>3 DEF Routes
  <2> QED BY <2>1, <2>4, CallKeeps
<1>2. CASE CallAdd(c)
  <2>1. PICK sdp \in SDPs, p \in Placements :
          Call(c, <<addStep(sdp, p.start, p.routes, NoMapping)>>)
    BY <1>2 DEF CallAdd
  <2>2. addStep(sdp, p.start, p.routes, NoMapping) \in Steps
    BY OfferAssumption DEF Routes
  <2> QED BY <2>1, <2>2, CallKeeps
<1>3. CASE CallRemove(c)
  <2>1. PICK id \in StreamIDs : Call(c, <<removeStep(id)>>)
    BY <1>3 DEF CallRemove, open
  <2> QED BY <2>1, CallKeeps
<1>4. CASE CallUpdate(c)
  <2>1. PICK id \in StreamIDs, r \in Remaps : Call(c, <<updateStep(id, r)>>)
    BY <1>4 DEF CallUpdate, open
  <2> QED BY <2>1, CallKeeps
<1>5. CASE CallTxFlows(c)
  <2>1. PICK n \in TxWidths, p \in Placements : Call(c, <<flowStep(p.start, n, {})>>)
    BY <1>5 DEF CallTxFlows
  <2>2. flowStep(p.start, n, {}) \in Steps
    BY OfferAssumption
  <2> QED BY <2>1, <2>2, CallKeeps
<1>6. CASE CallFollow(c)
  <2>1. PICK sdp \in SDPs :
          Call(c, <<followStep(sdp, {[id |-> id,
                                      start |-> streams_[id].mapping.deviceChannelStart] :
                                     id \in {i \in open : follows(streams_[i], sdp)}})>>)
    BY <1>6 DEF CallFollow
  <2> DEFINE pending == {[id |-> id, start |-> streams_[id].mapping.deviceChannelStart] :
                           id \in {i \in open : follows(streams_[i], sdp)}}
  <2>2. \A id \in open : streams_[id].mapping.deviceChannelStart \in Nat
    BY EntryFields, MappingType DEF open, ManagerInv, BooksInv
  <2>3. pending \in SUBSET [id : StreamIDs, start : Nat]
    BY <2>2 DEF open
  <2>4. followStep(sdp, pending) \in Steps
    BY <2>3
  <2> HIDE DEF pending
  <2>5. Call(c, <<followStep(sdp, pending)>>)
    BY <2>1 DEF pending
  <2> QED BY <2>4, <2>5, CallKeeps
<1> QED BY <1>1, <1>2, <1>3, <1>4, <1>5, <1>6

LEMMA AddStreamKeeps ==
  ASSUME ManagerInv, NEW c \in Clients, AddStream(c)
  PROVE  ManagerInv' /\ MapperStep /\ SaveIsDue
<1> DEFINE s == Head(job[c])
<1>1. /\ at(c, "add")
      /\ UNCHANGED <<ioActive_, disk, boot, profile, toLoad>>
  BY DEF AddStream
<1>2. job[c] # <<>> /\ s \in AddSteps /\ s.op # "save"
  BY <1>1, HeadTyped, StepOfKind DEF at, ManagerInv
<1>3. s.sdp \in Sessions /\ s.start \in Nat /\ s.routes \in Routes
  BY <1>2 DEF AddSteps, Sessions
<1>4. PICK id \in freshIDs :
        \/ admitted(id, s.sdp, s.start, s.routes, FALSE) /\ continue(c, <<saveStep>>)
        \/ rejected(id, s.sdp, s.start, s.routes, FALSE) /\ continue(c, <<>>)
  BY DEF AddStream
<1>5. id \in StreamIDs /\ streams_[id] = NoStream
  BY DEF freshIDs
<1>6. FileTyped'
  BY <1>1, FileKept DEF ManagerInv
<1>7. JobsTyped'
  BY <1>2, <1>4, ContinueTyped, StepsTyped, ShortSeqs DEF ManagerInv
<1>8. BooksInv' /\ MapperStep
  <2> HIDE DEF s
  <2>1. CASE admitted(id, s.sdp, s.start, s.routes, FALSE)
    BY <1>3, <1>5, <2>1, AdmittedKeepsBooks DEF ManagerInv, FileTyped
  <2>2. CASE rejected(id, s.sdp, s.start, s.routes, FALSE)
    BY <2>2, UnchangedKeepsBooks DEF ManagerInv, rejected
  <2> QED BY <1>4, <2>1, <2>2
<1>9. SaveIsDue
  <2>1. CASE continue(c, <<saveStep>>)
    BY <1>2, <2>1, StepsTyped, ShortSeqs, SaveFirst, ContinueDue DEF ManagerInv, SaveIsDue
  <2>2. CASE rejected(id, s.sdp, s.start, s.routes, FALSE) /\ continue(c, <<>>)
    <3>1. written' = written
      BY <2>2, UnchangedWritten DEF rejected, managerVars
    <3> QED BY <1>2, <2>2, <3>1, ShortSeqs, ContinueDue DEF ManagerInv, SaveIsDue
  <2> QED BY <1>4, <2>1, <2>2
<1> QED BY <1>6, <1>7, <1>8, <1>9 DEF ManagerInv

LEMMA RemoveStreamKeeps ==
  ASSUME ManagerInv, NEW c \in Clients, RemoveStream(c)
  PROVE  ManagerInv' /\ MapperStep /\ SaveIsDue
<1> DEFINE s == Head(job[c])
<1>1. /\ at(c, "remove")
      /\ UNCHANGED <<ioActive_, disk, boot, profile, toLoad>>
  BY DEF RemoveStream
<1>2. job[c] # <<>> /\ s \in RemoveSteps /\ s.op # "save"
  BY <1>1, HeadTyped, StepOfKind DEF at, ManagerInv
<1>3. PICK id \in s.ids : removed(c, id, <<>>)
  BY DEF RemoveStream
<1>4. id \in StreamIDs
  BY <1>2 DEF RemoveSteps
<1>5. BooksInv' /\ MapperStep /\ JobsTyped' /\ SaveIsDue
  BY <1>2, <1>3, <1>4, RemovedKeeps, ShortSeqs DEF ManagerInv
<1>6. FileTyped'
  BY <1>1, FileKept DEF ManagerInv
<1> QED BY <1>5, <1>6 DEF ManagerInv

LEMMA FollowNextKeeps ==
  ASSUME ManagerInv, NEW c \in Clients, FollowNext(c)
  PROVE  ManagerInv' /\ MapperStep /\ SaveIsDue
<1> DEFINE s == Head(job[c])
           rest(p) == IF s.todo = {p} THEN <<>> ELSE <<followStep(s.sdp, s.todo \ {p})>>
<1>1. /\ at(c, "follow")
      /\ UNCHANGED <<ioActive_, disk, boot, profile, toLoad>>
  BY DEF FollowNext
<1>2. job[c] # <<>> /\ s \in FollowSteps /\ s.op # "save"
  BY <1>1, HeadTyped, StepOfKind DEF at, ManagerInv
<1>3. s.sdp \in SDPs /\ s.todo \in SUBSET [id : StreamIDs, start : Nat]
  BY <1>2 DEF FollowSteps
<1>4. PICK p \in s.todo :
        IF streams_[p.id] = NoStream
        THEN continue(c, rest(p)) /\ UNCHANGED <<mapperVars, managerVars>>
        ELSE removed(c, p.id,
                     <<addStep(s.sdp, p.start, {}, streams_[p.id].mapping)>> \o rest(p))
  BY DEF FollowNext
<1>5. p.id \in StreamIDs /\ p.start \in Nat
  BY <1>3
<1>6. rest(p) \in Seq(Steps)
  <2>1. s.todo \ {p} \in SUBSET [id : StreamIDs, start : Nat]
    BY <1>3
  <2>2. followStep(s.sdp, s.todo \ {p}) \in Steps
    BY <1>3, <2>1, StepsTyped
  <2> QED BY <2>2, ShortSeqs
<1>h. Head(job[c]).op # "save"
  BY <1>2
<1> HIDE DEF s, rest
<1>7. BooksInv' /\ MapperStep /\ JobsTyped' /\ SaveIsDue
  <2>1. CASE streams_[p.id] = NoStream
    <3>1. continue(c, rest(p)) /\ UNCHANGED <<mapperVars, managerVars>>
      BY <1>4, <2>1
    <3>2. SaveIsDue
      BY <1>2, <1>6, <1>h, <3>1, UnchangedWritten, ContinueDue
         DEF ManagerInv, SaveIsDue, managerVars
    <3> QED BY <1>2, <1>6, <3>1, <3>2, UnchangedKeepsBooks, ContinueTyped DEF ManagerInv
  <2>2. CASE streams_[p.id] # NoStream
    <3>1. streams_[p.id].mapping \in Mappings
      BY <1>5, <2>2, EntryFields DEF ManagerInv, BooksInv
    <3>2. addStep(s.sdp, p.start, {}, streams_[p.id].mapping) \in Steps
      BY <1>3, <1>5, <3>1, StepsTyped DEF Routes
    <3>3. <<addStep(s.sdp, p.start, {}, streams_[p.id].mapping)>> \o rest(p) \in Seq(Steps)
      BY <1>6, <3>2, ShortSeqs
    <3> QED BY <1>2, <1>4, <1>5, <1>h, <2>2, <3>3, RemovedKeeps DEF ManagerInv
  <2> QED BY <2>1, <2>2
<1>8. FileTyped'
  BY <1>1, FileKept DEF ManagerInv
<1> QED BY <1>7, <1>8 DEF ManagerInv

LEMMA RollbackKeeps ==
  ASSUME ManagerInv, NEW c \in Clients, Rollback(c)
  PROVE  ManagerInv' /\ MapperStep /\ SaveIsDue
<1> DEFINE s == Head(job[c])
           rest(id) == IF s.ids = {id} THEN <<>> ELSE <<rollbackStep(s.ids \ {id})>>
<1>1. /\ at(c, "rollback")
      /\ UNCHANGED <<ioActive_, disk, boot, profile, toLoad>>
  BY DEF Rollback
<1>2. job[c] # <<>> /\ s \in RollbackSteps /\ s.op # "save"
  BY <1>1, HeadTyped, StepOfKind DEF at, ManagerInv
<1>3. s.ids \in SUBSET StreamIDs
  BY <1>2 DEF RollbackSteps
<1>4. PICK id \in s.ids :
        IF streams_[id] = NoStream
        THEN continue(c, rest(id)) /\ UNCHANGED <<mapperVars, managerVars>>
        ELSE removed(c, id, rest(id))
  BY DEF Rollback
<1>5. id \in StreamIDs
  BY <1>3
<1>6. rest(id) \in Seq(Steps)
  <2>1. s.ids \ {id} \in SUBSET StreamIDs
    BY <1>3
  <2> QED BY <2>1, StepsTyped, ShortSeqs
<1>h. Head(job[c]).op # "save"
  BY <1>2
<1> HIDE DEF s, rest
<1>7. BooksInv' /\ MapperStep /\ JobsTyped' /\ SaveIsDue
  <2>1. CASE streams_[id] = NoStream
    <3>1. continue(c, rest(id)) /\ UNCHANGED <<mapperVars, managerVars>>
      BY <1>4, <2>1
    <3>2. SaveIsDue
      BY <1>2, <1>6, <1>h, <3>1, UnchangedWritten, ContinueDue
         DEF ManagerInv, SaveIsDue, managerVars
    <3> QED BY <1>2, <1>6, <3>1, <3>2, UnchangedKeepsBooks, ContinueTyped DEF ManagerInv
  <2>2. CASE streams_[id] # NoStream
    BY <1>2, <1>4, <1>5, <1>6, <1>h, <2>2, RemovedKeeps DEF ManagerInv
  <2> QED BY <2>1, <2>2
<1>8. FileTyped'
  BY <1>1, FileKept DEF ManagerInv
<1> QED BY <1>7, <1>8 DEF ManagerInv

LEMMA TxFlowKeeps ==
  ASSUME ManagerInv, NEW c \in Clients, TxFlow(c)
  PROVE  ManagerInv' /\ MapperStep /\ SaveIsDue
<1> DEFINE s == Head(job[c])
           n == IF s.left < kPerFlow THEN s.left ELSE kPerFlow
           more(id) == flowStep(s.start + n, s.left - n, s.ids \cup {id})
<1>1. /\ at(c, "flow")
      /\ UNCHANGED <<ioActive_, disk, boot, profile, toLoad>>
  BY DEF TxFlow
<1>2. job[c] # <<>> /\ s \in FlowSteps /\ s.op # "save"
  BY <1>1, HeadTyped, StepOfKind DEF at, ManagerInv
<1>3. s.start \in Nat /\ s.left \in Nat \ {0} /\ s.ids \in SUBSET StreamIDs
  BY <1>2 DEF FlowSteps
<1>4. n \in 1..kPerFlow /\ n \in Nat /\ n =< s.left
  BY <1>3, LimitAssumption
<1>5. /\ txSession(n) \in Sessions
      /\ {} \in Routes
  BY <1>4 DEF Sessions, Routes
<1>6. ASSUME NEW id \in StreamIDs, s.left # n PROVE more(id) \in Steps
  <2>1. s.start + n \in Nat /\ s.left - n \in Nat \ {0}
    BY <1>3, <1>4, <1>6
  <2>2. s.ids \cup {id} \in SUBSET StreamIDs
    BY <1>3
  <2> QED BY <2>1, <2>2, StepsTyped
<1>7. rollbackStep(s.ids) \in Steps
  BY <1>3, StepsTyped
<1>8. \/ \E id \in freshIDs :
           /\ admitted(id, txSession(n), s.start, {}, TRUE)
           /\ continue(c, IF s.left = n THEN <<saveStep>> ELSE <<saveStep, more(id)>>)
      \/ \E id \in freshIDs :
           /\ rejected(id, txSession(n), s.start, {}, TRUE)
           /\ continue(c, IF s.ids = {} THEN <<>> ELSE <<rollbackStep(s.ids)>>)
      \/ /\ continue(c, <<rollbackStep(s.ids)>>)
         /\ UNCHANGED <<mapperVars, managerVars>>
  BY DEF TxFlow
<1>9. freshIDs \subseteq {id \in StreamIDs : streams_[id] = NoStream}
  BY DEF freshIDs
<1>h. Head(job[c]).op # "save"
  BY <1>2
<1> HIDE DEF s, n, more
<1>10. BooksInv' /\ MapperStep /\ JobsTyped' /\ SaveIsDue
  <2>1. ASSUME NEW id \in freshIDs, admitted(id, txSession(n), s.start, {}, TRUE),
               continue(c, IF s.left = n THEN <<saveStep>> ELSE <<saveStep, more(id)>>)
        PROVE  BooksInv' /\ MapperStep /\ JobsTyped' /\ SaveIsDue
    <3>1. BooksInv' /\ MapperStep
      <4>1. id \in StreamIDs /\ streams_[id] = NoStream
        BY <1>9
      <4> QED BY <1>3, <1>5, <2>1, <4>1, AdmittedKeepsBooks DEF ManagerInv, FileTyped
    <3>2. (IF s.left = n THEN <<saveStep>> ELSE <<saveStep, more(id)>>) \in Seq(Steps)
      BY <1>6, <1>9, StepsTyped, ShortSeqs
    <3>3. due(IF s.left = n THEN <<saveStep>> ELSE <<saveStep, more(id)>>)
      BY SaveFirst
    <3>4. SaveIsDue
      BY <1>2, <2>1, <3>2, <3>3, ContinueDue DEF ManagerInv, SaveIsDue
    <3> QED BY <1>2, <2>1, <3>1, <3>2, <3>4, ContinueTyped DEF ManagerInv
  <2>2. ASSUME NEW id \in freshIDs, rejected(id, txSession(n), s.start, {}, TRUE),
               continue(c, IF s.ids = {} THEN <<>> ELSE <<rollbackStep(s.ids)>>)
        PROVE  BooksInv' /\ MapperStep /\ JobsTyped' /\ SaveIsDue
    <3>1. (IF s.ids = {} THEN <<>> ELSE <<rollbackStep(s.ids)>>) \in Seq(Steps)
      BY <1>7, ShortSeqs
    <3>2. UNCHANGED <<mapperVars, managerVars>>
      BY <2>2 DEF rejected
    <3>3. SaveIsDue
      BY <1>2, <1>h, <2>2, <3>1, <3>2, UnchangedWritten, ContinueDue
         DEF ManagerInv, SaveIsDue, managerVars
    <3> QED BY <1>2, <2>2, <3>1, <3>2, <3>3, UnchangedKeepsBooks, ContinueTyped DEF ManagerInv
  <2>3. ASSUME continue(c, <<rollbackStep(s.ids)>>), UNCHANGED <<mapperVars, managerVars>>
        PROVE  BooksInv' /\ MapperStep /\ JobsTyped' /\ SaveIsDue
    <3>1. <<rollbackStep(s.ids)>> \in Seq(Steps)
      BY <1>7, ShortSeqs
    <3>2. SaveIsDue
      BY <1>2, <1>h, <2>3, <3>1, UnchangedWritten, ContinueDue
         DEF ManagerInv, SaveIsDue, managerVars
    <3> QED BY <1>2, <2>3, <3>1, <3>2, UnchangedKeepsBooks, ContinueTyped DEF ManagerInv
  <2> QED BY <1>8, <2>1, <2>2, <2>3
<1>11. FileTyped'
  BY <1>1, FileKept DEF ManagerInv
<1> QED BY <1>10, <1>11 DEF ManagerInv

LEMMA UpdateMappingKeeps ==
  ASSUME ManagerInv, NEW c \in Clients, UpdateMapping(c)
  PROVE  ManagerInv' /\ MapperStep /\ SaveIsDue
<1> DEFINE s == Head(job[c])
           r == s.remap
<1>1. /\ at(c, "update")
      /\ UNCHANGED <<countVars, activeGrandmaster_, ioActive_, disk, boot, profile, toLoad>>
  BY DEF UpdateMapping
<1>2. job[c] # <<>> /\ s \in UpdateSteps /\ s.op # "save"
  BY <1>1, HeadTyped, StepOfKind DEF at, ManagerInv
<1>3. s.ids \in SUBSET StreamIDs /\ r \in Remaps
  BY <1>2 DEF UpdateSteps
<1>4. PICK id \in s.ids :
        IF streams_[id] = NoStream
        THEN continue(c, <<>>) /\ UNCHANGED <<mapperVars, streams_>>
        ELSE remap(c, id, mapping(id, streams_[id].sdp, r.start, r.count, r.routes))
  BY DEF UpdateMapping
<1>5. id \in StreamIDs
  BY <1>3
<1> DEFINE m == mapping(id, streams_[id].sdp, r.start, r.count, r.routes)
<1>6. ASSUME streams_[id] # NoStream PROVE m \in Mappings /\ m.streamID = id
  <2>1. streams_[id].sdp \in Sessions
    BY <1>5, <1>6, EntryFields DEF ManagerInv, BooksInv
  <2>2. m.streamID = id
    BY DEF mapping
  <2> QED BY <1>3, <1>5, <2>1, <2>2, OfferAssumption
<1>h. Head(job[c]).op # "save"
  BY <1>2
<1> HIDE DEF s, r, m
<1>7. ASSUME UNCHANGED <<mapperVars, streams_>> PROVE BooksInv' /\ MapperStep
  BY <1>1, <1>7, UnchangedKeepsBooks DEF ManagerInv, managerVars, countVars
<1>n. ASSUME continue(c, <<>>), written' = written PROVE SaveIsDue
  BY <1>2, <1>h, <1>n, ShortSeqs, ContinueDue DEF ManagerInv, SaveIsDue
<1>8. BooksInv' /\ MapperStep /\ JobsTyped' /\ SaveIsDue
  <2>1. CASE streams_[id] = NoStream
    <3>1. continue(c, <<>>) /\ UNCHANGED <<mapperVars, streams_>>
      BY <1>4, <2>1
    <3>2. SaveIsDue
      BY <1>n, <3>1, UnchangedWritten
    <3> QED BY <1>2, <1>7, <3>1, <3>2, ContinueTyped, ShortSeqs DEF ManagerInv
  <2>2. CASE streams_[id] # NoStream
    <3>1. remap(c, id, m)
      BY <1>4, <2>2 DEF m
    <3>2. ASSUME continue(c, <<>>), UNCHANGED <<mapperVars, streams_>>
          PROVE  BooksInv' /\ MapperStep /\ JobsTyped' /\ SaveIsDue
      <4>1. SaveIsDue
        BY <1>n, <3>2, UnchangedWritten
      <4> QED BY <1>2, <1>7, <3>2, <4>1, ContinueTyped, ShortSeqs DEF ManagerInv
    <3>3. ASSUME canUpdateMapping(m), restoreMapping(id, m)
          PROVE  UNCHANGED mapperVars
      BY <1>5, <1>6, <2>2, <3>3, RestoreRestores DEF ManagerInv
    <3>4. ASSUME updateMapping(m), continue(c, <<saveStep>>),
                 streams_' = [streams_ EXCEPT ![id].mapping = m, ![id].rtpMapping = m]
          PROVE  BooksInv' /\ MapperStep /\ JobsTyped' /\ SaveIsDue
      <4>1. BooksInv' /\ MapperStep
        BY <1>1, <1>5, <1>6, <2>2, <3>4, RemapKeepsBooks DEF ManagerInv
      <4>2. JobsTyped'
        BY <1>2, <3>4, ContinueTyped, StepsTyped, ShortSeqs DEF ManagerInv
      <4>3. SaveIsDue
        BY <1>2, <3>4, StepsTyped, ShortSeqs, SaveFirst, ContinueDue DEF ManagerInv, SaveIsDue
      <4> QED BY <4>1, <4>2, <4>3
    <3>5. ASSUME canUpdateMapping(m), restoreMapping(id, m), continue(c, <<>>),
                 streams_' = [streams_ EXCEPT ![id].rtpMapping = m, ![id].running = FALSE]
          PROVE  BooksInv' /\ MapperStep /\ JobsTyped' /\ SaveIsDue
      <4>1. UNCHANGED mapperVars
        BY <3>3, <3>5
      <4>2. JobsTyped'
        BY <1>2, <3>5, ContinueTyped, ShortSeqs DEF ManagerInv
      <4>3. /\ streams_' \in [StreamIDs -> Entries \cup {NoStream}]
            /\ \A i \in StreamIDs \ {id} : streams_'[i] = streams_[i]
            /\ streams_'[id] \in Entries
            /\ streams_'[id].mapping = streams_[id].mapping
            /\ streams_'[id].sdp = streams_[id].sdp
            /\ streams_'[id].isTransmit = streams_[id].isTransmit
        BY <1>5, <1>6, <2>2, <3>5, EntryFields DEF ManagerInv, BooksInv, EntriesTyped, Entries
      <4>4. \A i \in StreamIDs :
              /\ streams_'[i] = NoStream <=> streams_[i] = NoStream
              /\ streams_[i] # NoStream =>
                   /\ streams_'[i].sdp = streams_[i].sdp
                   /\ streams_'[i].isTransmit = streams_[i].isTransmit
                   /\ streams_'[i].mapping = streams_[i].mapping
        BY <2>2, <4>3, OfferAssumption
      <4>5. SaveIsDue
        BY <1>n, <3>5, <4>4, SameWritten
      <4> QED BY <1>1, <4>1, <4>2, <4>3, <4>4, <4>5, RunningKeepsBooks DEF ManagerInv
    <3> QED BY <3>1, <3>2, <3>3, <3>4, <3>5 DEF remap
  <2> QED BY <2>1, <2>2
<1>9. FileTyped'
  BY <1>1, FileKept DEF ManagerInv
<1> QED BY <1>8, <1>9 DEF ManagerInv

\* A stream that is open gives a configuration of its own.
LEMMA ConfigTyped ==
  ASSUME BooksInv, NEW id \in open
  PROVE  config(id) \in Configs
<1>1. /\ id \in StreamIDs /\ streams_[id].sdp \in Sessions
      /\ streams_[id].mapping \in Mappings /\ streams_[id].isTransmit \in BOOLEAN
  BY EntryFields DEF BooksInv, open
<1>2. streams_[id].mapping.streamID = id
  <2>1. mappings_[id] = streams_[id].mapping
    BY <1>1 DEF BooksInv, MapperAgrees, open
  <2>2. mappings_[id] # NoMapping
    BY <1>1, <2>1, MappingAssumption
  <2> QED BY <1>1, <2>1, <2>2 DEF BooksInv, MapperInv, MapperTypeOK
<1> QED BY <1>1, <1>2 DEF config, Configs, Configurations

LEMMA SaveKeeps ==
  ASSUME ManagerInv, NEW c \in Clients, Save(c)
  PROVE  ManagerInv' /\ MapperStep
<1>1. /\ at(c, "save") /\ continue(c, <<>>)
      /\ UNCHANGED <<mapperVars, managerVars, ioActive_, boot, profile, toLoad>>
      /\ disk' \in {disk, TornFile, {config(id) : id \in open}}
  BY DEF Save
<1>2. BooksInv' /\ MapperStep
  BY <1>1, UnchangedKeepsBooks DEF ManagerInv
<1>3. JobsTyped'
  BY <1>1, ContinueTyped, ShortSeqs DEF ManagerInv, at
<1>4. {config(id) : id \in open} \subseteq Configs
  BY ConfigTyped DEF ManagerInv
<1>5. FileTyped'
  BY <1>1, <1>4 DEF ManagerInv, FileTyped
<1> QED BY <1>2, <1>3, <1>5 DEF ManagerInv

LEMMA SetIOActiveKeeps ==
  ASSUME ManagerInv, SetIOActive
  PROVE  ManagerInv' /\ MapperStep /\ SaveIsDue
<1>1. /\ ioActive_' = ~ioActive_
      /\ UNCHANGED <<mapperVars, countVars, activeGrandmaster_, disk, boot, profile, toLoad, job>>
  BY DEF SetIOActive
<1>2. PICK started \in SUBSET open :
        streams_' = [id \in StreamIDs |->
                       IF id \in open
                       THEN [streams_[id] EXCEPT !.running = id \in started]
                       ELSE NoStream]
  BY DEF SetIOActive
<1>3. ASSUME NEW i \in StreamIDs
      PROVE  /\ streams_'[i] \in Entries \cup {NoStream}
             /\ streams_'[i] = NoStream <=> streams_[i] = NoStream
             /\ streams_[i] # NoStream =>
                  /\ streams_'[i].sdp = streams_[i].sdp
                  /\ streams_'[i].isTransmit = streams_[i].isTransmit
                  /\ streams_'[i].mapping = streams_[i].mapping
  <2>1. CASE streams_[i] = NoStream
    BY <1>2, <2>1 DEF open
  <2>2. CASE streams_[i] # NoStream
    <3>1. streams_'[i] = [streams_[i] EXCEPT !.running = i \in started]
      BY <1>2, <2>2 DEF open
    <3>2. streams_[i] \in Entries
      BY <2>2, EntryFields DEF ManagerInv, BooksInv
    <3>3. (i \in started) \in BOOLEAN
      OBVIOUS
    <3>4. /\ streams_'[i] \in Entries
          /\ streams_'[i].sdp = streams_[i].sdp
          /\ streams_'[i].isTransmit = streams_[i].isTransmit
          /\ streams_'[i].mapping = streams_[i].mapping
      BY <3>1, <3>2, <3>3 DEF Entries
    <3> QED BY <2>2, <3>4, OfferAssumption
  <2> QED BY <2>1, <2>2
<1>4. streams_' \in [StreamIDs -> Entries \cup {NoStream}]
  BY <1>2, <1>3
<1>5. BooksInv' /\ MapperStep
  BY <1>1, <1>3, <1>4, RunningKeepsBooks DEF ManagerInv
<1>6. JobsTyped' /\ FileTyped'
  BY <1>1 DEF ManagerInv, JobsTyped, FileTyped
<1>7. SaveIsDue
  BY <1>1, <1>3, SameWritten DEF SaveIsDue, SaveDue, due
<1> QED BY <1>5, <1>6, <1>7 DEF ManagerInv

LEMMA LifecycleKeeps ==
  ASSUME ManagerInv,
         RemoveAllStreams \/ Crash \/ Start \/ Boot \/ LoadOne \/ LoadDone
  PROVE  ManagerInv' /\ MapperStep
<1>1. CASE RemoveAllStreams
  <2>1. activeGrandmaster_' = NoGrandmaster
    BY <1>1 DEF RemoveAllStreams, recomputeActiveGrandmaster
  <2>2. BooksInv' /\ MapperStep
    BY <1>1, <2>1, DropKeepsBooks DEF RemoveAllStreams, ManagerInv
  <2>3. JobsTyped' /\ FileTyped'
    BY <1>1 DEF RemoveAllStreams, ManagerInv, JobsTyped, FileTyped
  <2> QED BY <2>2, <2>3 DEF ManagerInv
<1>2. CASE Crash
  <2>1. BooksInv' /\ MapperStep
    BY <1>2, DropKeepsBooks DEF Crash, ManagerInv
  <2>2. JobsTyped'
    BY <1>2, ShortSeqs DEF Crash, JobsTyped
  <2>3. FileTyped'
    <3>1. disk' \in {disk, TornFile} /\ toLoad' = {} /\ ioActive_' = FALSE /\ boot' = "off"
           /\ profile' = profile
      BY <1>2 DEF Crash
    <3> QED BY <3>1 DEF ManagerInv, FileTyped
  <2> QED BY <2>1, <2>2, <2>3 DEF ManagerInv
<1>3. CASE Start \/ Boot
  <2>1. BooksInv' /\ MapperStep
    BY <1>3, UnchangedKeepsBooks DEF Start, Boot, ManagerInv
  <2>2. JobsTyped' /\ FileTyped'
    BY <1>3 DEF Start, Boot, ManagerInv, JobsTyped, FileTyped
  <2> QED BY <2>1, <2>2 DEF ManagerInv
<1>4. CASE LoadOne
  <2>1. PICK cfg \in toLoad :
          /\ toLoad' = toLoad \ {cfg}
          /\ IF restorable(cfg)
             THEN store(cfg.id, cfg.sdp, cfg.mapping, cfg.isTransmit, FALSE)
             ELSE UNCHANGED <<mapperVars, managerVars>>
    BY <1>4 DEF LoadOne
  <2>2. /\ cfg.id \in StreamIDs /\ cfg.sdp \in Sessions /\ cfg.mapping \in Mappings
        /\ cfg.isTransmit \in BOOLEAN /\ cfg.mapping.streamID = cfg.id
    BY DEF ManagerInv, FileTyped, Configs, Configurations
  <2>3. BooksInv' /\ MapperStep
    <3>1. CASE restorable(cfg)
      <4>1. /\ streams_[cfg.id] = NoStream
            /\ \/ cfg.sdp.ptpMaster = NoGrandmaster
               \/ activeGrandmaster_ \in {NoGrandmaster, cfg.sdp.ptpMaster}
        BY <3>1 DEF restorable, canAddStream
      <4> QED BY <2>1, <2>2, <3>1, <4>1, StoreKeepsBooks DEF ManagerInv
    <3>2. CASE ~restorable(cfg)
      BY <2>1, <3>2, UnchangedKeepsBooks DEF ManagerInv
    <3> QED BY <3>1, <3>2
  <2>4. JobsTyped' /\ FileTyped'
    BY <1>4, <2>1 DEF LoadOne, ManagerInv, JobsTyped, FileTyped
  <2> QED BY <2>3, <2>4 DEF ManagerInv
<1>5. CASE LoadDone
  <2>1. BooksInv' /\ MapperStep
    BY <1>5, UnchangedKeepsBooks DEF LoadDone, ManagerInv
  <2>2. JobsTyped' /\ FileTyped'
    BY <1>5 DEF LoadDone, ManagerInv, JobsTyped, FileTyped
  <2> QED BY <2>1, <2>2 DEF ManagerInv
<1> QED BY <1>1, <1>2, <1>3, <1>4, <1>5

LEMMA ManagerInitInv == Init => ManagerInv
<1> SUFFICES ASSUME Init PROVE ManagerInv
  OBVIOUS
<1>1. EntriesTyped
  BY DEF Init, EntriesTyped
<1>2. MapperInv
  BY InitInv DEF Init
<1>3. MapperAgrees /\ ClockAgrees
  BY DEF Init, MapperInit, MapperAgrees, ClockAgrees, open
<1>4. CountersExact
  <2>1. channelsIn(streams_, openIn(streams_, FALSE)) = {}
    BY DEF Init, openIn, channelsIn
  <2>2. channelsIn(streams_, openIn(streams_, TRUE)) = {}
    BY DEF Init, openIn, channelsIn
  <2> QED BY <1>1, <2>1, <2>2, FS_EmptySet, CountersOfTable DEF Init
<1>5. JobsTyped /\ FileTyped
  BY ShortSeqs DEF Init, JobsTyped, FileTyped
<1> QED BY <1>1, <1>2, <1>3, <1>4, <1>5 DEF ManagerInv, BooksInv

\* Every step of the specification keeps the invariant and calls the mapper as it
\* allows.
LEMMA ManagerNextInv == ManagerInv /\ [Next]_vars => ManagerInv' /\ MapperStep
<1> SUFFICES ASSUME ManagerInv, [Next]_vars
             PROVE  ManagerInv' /\ MapperStep
  OBVIOUS
<1>1. ASSUME NEW c \in Clients, ClientNext(c)
      PROVE  ManagerInv' /\ MapperStep
  BY <1>1, CallsKeep, AddStreamKeeps, RemoveStreamKeeps, UpdateMappingKeeps, FollowNextKeeps,
     TxFlowKeeps, RollbackKeeps, SaveKeeps DEF ClientNext
<1>2. CASE SetIOActive
  BY <1>2, SetIOActiveKeeps
<1>3. CASE RemoveAllStreams \/ Crash \/ Start \/ Boot \/ LoadOne \/ LoadDone
  BY <1>3, LifecycleKeeps
<1>4. CASE UNCHANGED vars
  <2>1. UNCHANGED <<mapperVars, managerVars>> /\ UNCHANGED <<ioActive_, disk, boot, profile, toLoad, job>>
    BY <1>4 DEF vars
  <2> QED BY <2>1, UnchangedKeepsBooks, FileKept DEF ManagerInv, JobsTyped
<1> QED BY <1>1, <1>2, <1>3, <1>4 DEF Next

LEMMA InvIsConsistent == ManagerInv => RecordsConsistent
<1> SUFFICES ASSUME ManagerInv PROVE RecordsConsistent
  OBVIOUS
<1>1. SMTypeOK
  <2>1. \A id \in open : /\ streams_[id].mapping \in Mappings
                         /\ streams_[id].rtpMapping \in Mappings
                         /\ streams_[id].isTransmit \in BOOLEAN
                         /\ streams_[id].running \in BOOLEAN
    BY EntryFields DEF ManagerInv, BooksInv, open
  <2> QED BY <2>1 DEF SMTypeOK, ManagerInv, BooksInv, MapperInv, EntriesTyped, FileTyped
<1>2. OneClock
  <2> DEFINE named == {streams_[id].sdp.ptpMaster : id \in open} \ {NoGrandmaster}
  <2>1. named \subseteq {activeGrandmaster_}
    BY DEF ManagerInv, BooksInv, ClockAgrees
  <2>2. named = {} => activeGrandmaster_ = NoGrandmaster
    BY DEF ManagerInv, BooksInv, ClockAgrees
  <2>3. named # {} => named = {activeGrandmaster_}
    BY <2>1
  <2> QED BY <2>2, <2>3 DEF OneClock
<1> QED BY <1>1, <1>2 DEF RecordsConsistent, ManagerInv, BooksInv, MapperInv

\* Whatever the threads call and however calls fail, roll back, meet a crash or
\* restore the file, the manager's entries, the mapper's table, the channel
\* totals and the common grandmaster agree.
THEOREM RecordsAlwaysConsistent == Spec => []RecordsConsistent
BY ManagerInitInv, ManagerNextInv, InvIsConsistent, PTL DEF Spec

\* The manager uses the channel mapper as MapperSpec demands: it never adds a
\* mapping for a stream that has one, and undoing a refused update is no step.
THEOREM ManagerUsesMapper == Spec => UsesMapper
<1>1. Init => MapperInit
  BY DEF Init
<1>2. MapperStep => [UNCHANGED mapperVars \/ MapperNext]_mapperVars
  BY DEF MapperStep
<1> QED BY <1>1, <1>2, ManagerInitInv, ManagerNextInv, PTL DEF Spec, UsesMapper

-----------------------------------------------------------------------------
(* The file *)

\* The file is what a save would write, unless a save is still to come or the
\* history says why not.  SavedIsCurrent is the case where no call is in progress;
\* for the steps of the others the saves still to come have to be in the invariant.
SavedInv ==
  /\ toLoad # {} => boot = "loading" /\ toLoad \subseteq disk
  /\ unsaved \/ disk = written \/ SaveDue

LEMMA SavedNextInv == ManagerInv /\ SavedInv /\ [Next]_vars => SavedInv'
<1> SUFFICES ASSUME ManagerInv, SavedInv, [Next]_vars PROVE SavedInv'
  OBVIOUS
<1>1. ASSUME SaveIsDue, UNCHANGED <<disk, unsaved, boot, toLoad>>
      PROVE  SavedInv'
  BY <1>1 DEF SavedInv, SaveIsDue
<1>2. ASSUME NEW c \in Clients,
             \/ CallAddDefault(c) \/ CallAdd(c) \/ CallRemove(c) \/ CallUpdate(c)
             \/ CallTxFlows(c) \/ CallFollow(c)
      PROVE  SavedInv'
  <2>1. SaveIsDue
    BY <1>2, CallsKeep
  <2>2. UNCHANGED <<disk, unsaved, boot, toLoad>>
    BY <1>2 DEF CallAddDefault, CallAdd, CallRemove, CallUpdate, CallTxFlows, CallFollow, Call
  <2> QED BY <1>1, <2>1, <2>2
<1>3. ASSUME NEW c \in Clients,
             \/ AddStream(c) \/ RemoveStream(c) \/ UpdateMapping(c) \/ FollowNext(c)
             \/ TxFlow(c) \/ Rollback(c)
      PROVE  SavedInv'
  <2>1. SaveIsDue
    BY <1>3, AddStreamKeeps, RemoveStreamKeeps, UpdateMappingKeeps, FollowNextKeeps,
       TxFlowKeeps, RollbackKeeps
  <2>2. UNCHANGED <<disk, unsaved, boot, toLoad>>
    BY <1>3 DEF AddStream, RemoveStream, UpdateMapping, FollowNext, TxFlow, Rollback
  <2> QED BY <1>1, <2>1, <2>2
<1>4. ASSUME NEW c \in Clients, Save(c)
      PROVE  SavedInv'
  <2>1. written' = written /\ toLoad = {} /\ toLoad' = {}
    BY <1>4, UnchangedWritten DEF Save, managerVars, at, unlocked, SavedInv
  <2>2. (disk' = written /\ unsaved' = FALSE) \/ unsaved' = TRUE
    BY <1>4 DEF Save, written
  <2> QED BY <2>1, <2>2 DEF SavedInv
<1>5. CASE SetIOActive
  <2>1. UNCHANGED <<disk, unsaved, boot, toLoad>>
    BY <1>5 DEF SetIOActive
  <2> QED BY <1>1, <1>5, <2>1, SetIOActiveKeeps
<1>6. CASE RemoveAllStreams \/ Crash
  <2>1. unsaved' = TRUE /\ (toLoad' = {} \/ UNCHANGED <<toLoad, boot, disk>>)
    BY <1>6 DEF RemoveAllStreams, Crash
  <2> QED BY <2>1 DEF SavedInv
<1>7. CASE Start \/ LoadDone
  <2>1. UNCHANGED <<disk, unsaved, job, streams_>> /\ toLoad = {} /\ toLoad' = {}
    BY <1>7 DEF Start, LoadDone, managerVars, SavedInv
  <2>2. written' = written /\ (SaveDue => SaveDue')
    BY <2>1, UnchangedWritten DEF SaveDue, due
  <2> QED BY <2>1, <2>2 DEF SavedInv
<1>8. CASE Boot
  <2>1. /\ UNCHANGED <<job, streams_>>
        /\ toLoad' \in {{}, disk}
        /\ boot' = "loading"
        /\ toLoad' # {} => disk' = disk
        /\ unsaved => unsaved'
        /\ unsaved' \/ disk' = disk
    BY <1>8 DEF Boot, managerVars
  <2>2. written' = written /\ (SaveDue => SaveDue')
    BY <2>1, UnchangedWritten DEF SaveDue, due
  <2> QED BY <2>1, <2>2 DEF SavedInv
<1>9. CASE LoadOne
  <2>1. PICK cfg \in toLoad :
          /\ toLoad' = toLoad \ {cfg}
          /\ IF restorable(cfg)
             THEN store(cfg.id, cfg.sdp, cfg.mapping, cfg.isTransmit, FALSE)
             ELSE UNCHANGED <<mapperVars, managerVars>>
    BY <1>9 DEF LoadOne
  <2>2. UNCHANGED <<disk, unsaved, boot, job>>
    BY <1>9 DEF LoadOne
  <2>3. SaveDue => SaveDue'
    BY <2>2 DEF SaveDue, due
  <2>4. ASSUME disk = written PROVE written' = written
    <3>1. cfg \in written
      BY <2>4 DEF SavedInv
    <3>2. streams_[cfg.id] # NoStream
      BY <3>1 DEF written, config, open
    <3>3. UNCHANGED streams_
      BY <2>1, <3>2 DEF restorable, managerVars
    <3> QED BY <3>3, UnchangedWritten
  <2> QED BY <2>1, <2>2, <2>3, <2>4 DEF SavedInv
<1>10. CASE UNCHANGED vars
  <2>1. UNCHANGED <<disk, unsaved, boot, toLoad, job, streams_>>
    BY <1>10 DEF vars, managerVars
  <2>2. written' = written /\ (SaveDue => SaveDue')
    BY <2>1, UnchangedWritten DEF SaveDue, due
  <2> QED BY <1>1, <2>1, <2>2 DEF SaveIsDue
<1> QED BY <1>2, <1>3, <1>4, <1>5, <1>6, <1>7, <1>8, <1>9, <1>10 DEF Next, ClientNext

\* When no call is in progress the file holds exactly the open streams, however
\* the calls of the threads were interleaved, unless a write failed or the streams
\* were dropped by teardown.
THEOREM SavedAlwaysCurrent == Spec => []SavedIsCurrent
<1>1. Init => SavedInv
  BY DEF Init, SavedInv
<1>2. SavedInv => SavedIsCurrent
  <2> SUFFICES ASSUME SavedInv, \A c \in Clients : job[c] = <<>>, ~unsaved
               PROVE  disk = {config(id) : id \in open}
    BY DEF SavedIsCurrent
  <2>1. ~SaveDue
    BY DEF SaveDue, due
  <2> QED BY <2>1 DEF SavedInv, written
<1> QED BY <1>1, <1>2, ManagerInitInv, ManagerNextInv, SavedNextInv, PTL DEF Spec

-----------------------------------------------------------------------------
(* One producer for each ring *)

\* A block is as wide as the stream.
covers(m, sdp) == m.routes = {} => sdp.numChannels =< m.deviceChannelCount

\* An RTP object that works under the recorded mapping works on no channel beyond it.
EntriesCover == \A id \in open : covers(streams_[id].mapping, streams_[id].sdp)

\* The configurations of the file will be entries again.
FileCovers ==
  /\ disk \in {NoFile, TornFile} \/ \A cfg \in disk : covers(cfg.mapping, cfg.sdp)
  /\ \A cfg \in toLoad : covers(cfg.mapping, cfg.sdp)

CoverInv == EntriesCover /\ FileCovers

\* The entry of a stream that is stored.
LEMMA StoreCovers ==
  ASSUME EntriesTyped, EntriesCover, NEW id \in StreamIDs, NEW sdp, NEW m,
         NEW isTransmit, NEW running, covers(m, sdp),
         store(id, sdp, m, isTransmit, running)
  PROVE  EntriesCover'
<1>1. streams_' = [streams_ EXCEPT ![id] = entry(sdp, m, isTransmit, running)]
  BY DEF store
<1>2. /\ \A i \in StreamIDs \ {id} : streams_'[i] = streams_[i]
      /\ streams_'[id].mapping = m /\ streams_'[id].sdp = sdp
  BY <1>1 DEF EntriesTyped, entry
<1> QED BY <1>2 DEF EntriesCover, open, covers

LEMMA AdmittedCovers ==
  ASSUME EntriesTyped, EntriesCover, NEW id \in StreamIDs, NEW sdp \in Sessions, NEW start,
         NEW routes, NEW isTransmit, admitted(id, sdp, start, routes, isTransmit)
  PROVE  EntriesCover'
<1> DEFINE m == mapping(id, sdp, start, sdp.numChannels, routes)
<1>1. store(id, sdp, m, isTransmit, ioActive_)
  BY DEF admitted
<1>2. covers(m, sdp)
  <2>1. sdp.numChannels \in Nat
    BY SessionWidth
  <2> QED BY <2>1 DEF covers, mapping
<1> HIDE DEF m
<1> QED BY <1>1, <1>2, StoreCovers

LEMMA UnchangedCovers ==
  ASSUME EntriesCover, UNCHANGED streams_
  PROVE  EntriesCover'
BY DEF EntriesCover, open, covers

LEMMA RemovedCovers ==
  ASSUME EntriesTyped, EntriesCover, NEW c, NEW id \in StreamIDs, NEW then,
         removed(c, id, then)
  PROVE  EntriesCover'
<1>1. CASE streams_[id] # NoStream
  <2>1. streams_' = [streams_ EXCEPT ![id] = NoStream]
    BY <1>1 DEF removed, erase
  <2>2. streams_'[id] = NoStream /\ \A i \in StreamIDs \ {id} : streams_'[i] = streams_[i]
    BY <2>1 DEF EntriesTyped
  <2> QED BY <2>2 DEF EntriesCover, open, covers
<1>2. CASE streams_[id] = NoStream
  BY <1>2, UnchangedCovers DEF removed, managerVars
<1> QED BY <1>1, <1>2

\* updateMapping(), when the callers name whole blocks.  A restart that fails leaves
\* the recorded mapping.
LEMMA UpdateCovers ==
  ASSUME ManagerInv, EntriesCover, RemapsCover,
         NEW c \in Clients, UpdateMapping(c)
  PROVE  EntriesCover'
<1> DEFINE s == Head(job[c])
           r == s.remap
<1>1. at(c, "update")
  BY DEF UpdateMapping
<1>2. s \in UpdateSteps
  BY <1>1, HeadTyped, StepOfKind DEF at, ManagerInv
<1>3. s.ids \in SUBSET StreamIDs /\ r \in Remaps
  BY <1>2 DEF UpdateSteps
<1>4. PICK id \in s.ids :
        IF streams_[id] = NoStream
        THEN UNCHANGED streams_
        ELSE remap(c, id, mapping(id, streams_[id].sdp, r.start, r.count, r.routes))
  BY DEF UpdateMapping
<1>5. id \in StreamIDs
  BY <1>3
<1> DEFINE sdp == streams_[id].sdp
           m == mapping(id, sdp, r.start, r.count, r.routes)
<1>6. CASE streams_[id] = NoStream
  BY <1>4, <1>6, UnchangedCovers
<1>7. CASE streams_[id] # NoStream
  <2>1. sdp \in Sessions /\ sdp.numChannels \in Nat
    BY <1>5, <1>7, EntryFields DEF ManagerInv, BooksInv
  <2>2. /\ m.routes = r.routes /\ m.deviceChannelStart = r.start
        /\ m.deviceChannelCount = r.count
    BY DEF mapping
  <2>3. m \in Mappings
    BY <1>3, <1>5, <2>1, OfferAssumption
  <2>4. remap(c, id, m)
    BY <1>4, <1>7
  <2> HIDE DEF s, r, m, sdp
  <2>5. \/ UNCHANGED streams_
        \/ /\ mappingFitsDevice(m, sdp.numChannels)
           /\ streams_' = [streams_ EXCEPT ![id].mapping = m, ![id].rtpMapping = m]
        \/ streams_' = [streams_ EXCEPT ![id].rtpMapping = m, ![id].running = FALSE]
    BY <2>4 DEF remap, sdp
  <2>7. ASSUME streams_' = [streams_ EXCEPT ![id].rtpMapping = m, ![id].running = FALSE]
        PROVE  EntriesCover'
    <3>1. /\ \A i \in StreamIDs \ {id} : streams_'[i] = streams_[i]
          /\ streams_'[id].mapping = streams_[id].mapping /\ streams_'[id].sdp = sdp
      BY <1>5, <1>7, <2>7, EntryFields DEF ManagerInv, BooksInv, EntriesTyped, Entries, sdp
    <3> QED BY <1>5, <1>7, <3>1 DEF EntriesCover, open, covers, sdp
  <2>6. ASSUME mappingFitsDevice(m, sdp.numChannels),
               streams_' = [streams_ EXCEPT ![id].mapping = m, ![id].rtpMapping = m]
        PROVE  EntriesCover'
    <3>1. covers(m, sdp)
      <4> SUFFICES ASSUME m.routes = {} PROVE sdp.numChannels =< m.deviceChannelCount
        BY DEF covers
      <4>1. m.deviceChannelStart + sdp.numChannels =< kMaxDeviceChannels
        BY <2>6 DEF mappingFitsDevice
      <4>2. m.deviceChannelStart \in Nat /\ kMaxDeviceChannels \in Nat
        BY <2>3, MappingType, ChannelAssumption
      <4>3. ~(m.deviceChannelStart + sdp.numChannels > kMaxDeviceChannels)
        BY <2>1, <4>1, <4>2
      <4> QED BY <1>3, <2>1, <2>2, <4>3 DEF RemapsCover
    <3>2. /\ \A i \in StreamIDs \ {id} : streams_'[i] = streams_[i]
          /\ streams_'[id].mapping = m /\ streams_'[id].sdp = sdp
      BY <1>5, <1>7, <2>6, EntryFields DEF ManagerInv, BooksInv, EntriesTyped, Entries, sdp
    <3> QED BY <3>1, <3>2 DEF EntriesCover, open, covers
  <2> QED BY <2>5, <2>6, <2>7, UnchangedCovers
<1> QED BY <1>6, <1>7

LEMMA CoverNextInv ==
  ASSUME RemapsCover
  PROVE  ManagerInv /\ CoverInv /\ [Next]_vars => CoverInv'
<1> SUFFICES ASSUME ManagerInv, CoverInv, [Next]_vars PROVE CoverInv'
  OBVIOUS
<1>1. EntriesTyped /\ EntriesCover /\ FileCovers
  BY DEF ManagerInv, BooksInv, CoverInv
<1>2. ASSUME EntriesCover', UNCHANGED <<disk, toLoad>> PROVE CoverInv'
  BY <1>1, <1>2 DEF CoverInv, FileCovers, covers
<1>3. ASSUME NEW c \in Clients,
             \/ CallAddDefault(c) \/ CallAdd(c) \/ CallRemove(c) \/ CallUpdate(c)
             \/ CallTxFlows(c) \/ CallFollow(c)
      PROVE  CoverInv'
  <2>1. UNCHANGED <<disk, toLoad, streams_>>
    BY <1>3 DEF CallAddDefault, CallAdd, CallRemove, CallUpdate, CallTxFlows, CallFollow, Call,
                managerVars
  <2> QED BY <1>1, <1>2, <2>1, UnchangedCovers
<1>4. ASSUME NEW c \in Clients, AddStream(c) PROVE CoverInv'
  <2> DEFINE s == Head(job[c])
  <2>1. s \in AddSteps /\ UNCHANGED <<disk, toLoad>>
    BY <1>4, HeadTyped, StepOfKind DEF AddStream, at, ManagerInv
  <2>2. s.sdp \in Sessions
    BY <2>1 DEF AddSteps, Sessions
  <2>3. PICK id \in StreamIDs : \/ admitted(id, s.sdp, s.start, s.routes, FALSE)
                                \/ rejected(id, s.sdp, s.start, s.routes, FALSE)
    BY <1>4 DEF AddStream, freshIDs
  <2> HIDE DEF s
  <2>4. EntriesCover'
    BY <1>1, <2>2, <2>3, AdmittedCovers, UnchangedCovers DEF rejected, managerVars
  <2> QED BY <1>2, <2>1, <2>4
<1>5. ASSUME NEW c \in Clients, RemoveStream(c) PROVE CoverInv'
  <2>1. Head(job[c]) \in RemoveSteps /\ UNCHANGED <<disk, toLoad>>
    BY <1>5, HeadTyped, StepOfKind DEF RemoveStream, at, ManagerInv
  <2>2. PICK id \in StreamIDs : removed(c, id, <<>>)
    BY <1>5, <2>1 DEF RemoveStream, RemoveSteps
  <2> QED BY <1>1, <1>2, <2>1, <2>2, RemovedCovers
<1>6. ASSUME NEW c \in Clients, UpdateMapping(c) PROVE CoverInv'
  BY <1>1, <1>2, <1>6, UpdateCovers DEF UpdateMapping
<1>7. ASSUME NEW c \in Clients, FollowNext(c) PROVE CoverInv'
  <2>1. Head(job[c]) \in FollowSteps /\ UNCHANGED <<disk, toLoad>>
    BY <1>7, HeadTyped, StepOfKind DEF FollowNext, at, ManagerInv
  <2>2. UNCHANGED streams_ \/ \E id \in StreamIDs : \E then : removed(c, id, then)
    BY <1>7, <2>1 DEF FollowNext, FollowSteps, managerVars
  <2>3. EntriesCover'
    BY <1>1, <2>2, RemovedCovers, UnchangedCovers
  <2> QED BY <1>2, <2>1, <2>3
<1>8. ASSUME NEW c \in Clients, TxFlow(c) PROVE CoverInv'
  <2> DEFINE s == Head(job[c])
             n == IF s.left < kPerFlow THEN s.left ELSE kPerFlow
  <2>1. s \in FlowSteps /\ UNCHANGED <<disk, toLoad>>
    BY <1>8, HeadTyped, StepOfKind DEF TxFlow, at, ManagerInv
  <2>2. n \in 1..kPerFlow
    BY <2>1, LimitAssumption DEF FlowSteps
  <2>3. txSession(n) \in Sessions
    BY <2>2 DEF Sessions
  <2>4. \/ \E id \in StreamIDs : admitted(id, txSession(n), s.start, {}, TRUE)
        \/ UNCHANGED streams_
    BY <1>8 DEF TxFlow, freshIDs, rejected, managerVars
  <2> HIDE DEF n, s
  <2>5. EntriesCover'
    BY <1>1, <2>3, <2>4, AdmittedCovers, UnchangedCovers
  <2> QED BY <1>2, <2>1, <2>5
<1>9. ASSUME NEW c \in Clients, Rollback(c) PROVE CoverInv'
  <2>1. Head(job[c]) \in RollbackSteps /\ UNCHANGED <<disk, toLoad>>
    BY <1>9, HeadTyped, StepOfKind DEF Rollback, at, ManagerInv
  <2>2. UNCHANGED streams_ \/ \E id \in StreamIDs : \E then : removed(c, id, then)
    BY <1>9, <2>1 DEF Rollback, RollbackSteps, managerVars
  <2>3. EntriesCover'
    BY <1>1, <2>2, RemovedCovers, UnchangedCovers
  <2> QED BY <1>2, <2>1, <2>3
<1>10. ASSUME NEW c \in Clients, Save(c) PROVE CoverInv'
  <2>1. /\ UNCHANGED <<streams_, toLoad>>
        /\ disk' \in {disk, TornFile, {config(id) : id \in open}}
    BY <1>10 DEF Save, managerVars
  <2>2. \A cfg \in {config(id) : id \in open} : covers(cfg.mapping, cfg.sdp)
    BY <1>1 DEF EntriesCover, config
  <2>3. FileCovers'
    BY <1>1, <2>1, <2>2 DEF FileCovers, covers
  <2> QED BY <1>1, <2>1, <2>3, UnchangedCovers DEF CoverInv
<1>11. CASE SetIOActive
  <2>1. UNCHANGED <<disk, toLoad>>
    BY <1>11 DEF SetIOActive
  <2>2. PICK started \in SUBSET open :
          streams_' = [id \in StreamIDs |->
                         IF id \in open
                         THEN [streams_[id] EXCEPT !.running = id \in started]
                         ELSE NoStream]
    BY <1>11 DEF SetIOActive
  <2>3. ASSUME NEW i \in StreamIDs, streams_'[i] # NoStream
        PROVE  /\ i \in open
               /\ streams_'[i].mapping = streams_[i].mapping
               /\ streams_'[i].sdp = streams_[i].sdp
    <3>1. i \in open /\ streams_'[i] = [streams_[i] EXCEPT !.running = i \in started]
      BY <2>2, <2>3
    <3>2. streams_[i] \in Entries
      BY <3>1, EntryFields DEF ManagerInv, BooksInv, open
    <3> QED BY <3>1, <3>2 DEF Entries
  <2>4. EntriesCover'
    BY <1>1, <2>3 DEF EntriesCover, open, covers
  <2> QED BY <1>2, <2>1, <2>4
<1>12. CASE RemoveAllStreams \/ Crash
  <2>1. EntriesCover'
    BY <1>12 DEF RemoveAllStreams, Crash, EntriesCover, open
  <2>2. disk' \in {disk, TornFile} /\ toLoad' \in {toLoad, {}}
    BY <1>12 DEF RemoveAllStreams, Crash
  <2>3. FileCovers'
    BY <1>1, <2>2 DEF FileCovers, covers
  <2> QED BY <2>1, <2>3 DEF CoverInv
<1>13. CASE Boot
  <2>1. EntriesCover'
    BY <1>1, <1>13, UnchangedCovers DEF Boot, managerVars
  <2>2. FileCovers'
    BY <1>1, <1>13 DEF Boot, FileCovers, covers
  <2> QED BY <2>1, <2>2 DEF CoverInv
<1>14. CASE LoadOne
  <2>1. PICK cfg \in toLoad :
          /\ toLoad' = toLoad \ {cfg}
          /\ IF restorable(cfg)
             THEN store(cfg.id, cfg.sdp, cfg.mapping, cfg.isTransmit, FALSE)
             ELSE UNCHANGED <<mapperVars, managerVars>>
    BY <1>14 DEF LoadOne
  <2>2. cfg.id \in StreamIDs /\ covers(cfg.mapping, cfg.sdp)
    BY <1>1 DEF ManagerInv, FileTyped, Configs, Configurations, FileCovers
  <2>3. EntriesCover'
    BY <1>1, <2>1, <2>2, StoreCovers, UnchangedCovers DEF managerVars
  <2>4. FileCovers'
    BY <1>1, <1>14, <2>1 DEF LoadOne, FileCovers, covers
  <2> QED BY <2>3, <2>4 DEF CoverInv
<1>15. CASE Start \/ LoadDone
  BY <1>1, <1>2, <1>15, UnchangedCovers DEF Start, LoadDone, managerVars
<1>16. CASE UNCHANGED vars
  BY <1>1, <1>2, <1>16, UnchangedCovers DEF vars, managerVars
<1> QED BY <1>3, <1>4, <1>5, <1>6, <1>7, <1>8, <1>9, <1>10, <1>11, <1>12, <1>13, <1>14, <1>15,
           <1>16 DEF Next, ClientNext

\* No two running streams of one direction ever work on the same ring, in any order
\* of calls, I/O starts, restarts and restarts that fail, while each runs under its
\* recorded mapping: provided callers name whole blocks.
THEOREM RingsHaveOneProducer ==
  ASSUME RemapsCover
  PROVE  Spec => []SingleProducer
<1>1. Init => CoverInv
  BY DEF Init, CoverInv, EntriesCover, FileCovers, open
<1>2. ManagerInv /\ CoverInv => SingleProducer
  <2> SUFFICES ASSUME ManagerInv, CoverInv, NEW i \in open, NEW j \in open, i # j,
                      asRecorded(streams_[i]), asRecorded(streams_[j])
               PROVE  touched(streams_[i]) \cap touched(streams_[j]) = {}
    BY DEF SingleProducer
  <2>1. ASSUME NEW k \in open, asRecorded(streams_[k])
        PROVE  touched(streams_[k]) \subseteq deviceChannels(mappings_[k])
    <3> DEFINE m == streams_[k].mapping
               n == streams_[k].sdp.numChannels
    <3>1. k \in StreamIDs /\ streams_[k] # NoStream
      BY DEF open
    <3>2. m \in Mappings /\ n \in Nat
      BY <3>1, EntryFields DEF ManagerInv, BooksInv
    <3>3. m.deviceChannelStart \in Nat /\ m.deviceChannelCount \in Nat
      BY <3>2, MappingType
    <3>4. /\ mappings_[k] = m /\ streams_[k].rtpMapping = m
          /\ m.routes = {} => n =< m.deviceChannelCount
      BY <2>1, <3>1 DEF ManagerInv, BooksInv, MapperAgrees, CoverInv, EntriesCover, covers,
                        asRecorded
    <3>5. CASE m.routes = {}
      <4> HIDE DEF m, n
      <4>1. m.deviceChannelStart..(m.deviceChannelStart + n - 1)
              \subseteq m.deviceChannelStart..(m.deviceChannelStart + m.deviceChannelCount - 1)
        BY <3>2, <3>3, <3>4, <3>5
      <4> QED BY <3>4, <3>5, <4>1 DEF touched, deviceChannels, n
    <3>6. CASE m.routes # {}
      BY <3>4, <3>6 DEF touched, deviceChannels
    <3> QED BY <3>5, <3>6
  <2>2. deviceChannels(mappings_[i]) \cap deviceChannels(mappings_[j]) = {}
    <3>1. ASSUME NEW k \in open PROVE k \in StreamIDs /\ mappings_[k] # NoMapping
      <4>1. k \in StreamIDs /\ streams_[k] # NoStream
        BY DEF open
      <4>2. mappings_[k] = streams_[k].mapping /\ streams_[k].mapping \in Mappings
        BY <4>1, EntryFields DEF ManagerInv, BooksInv, MapperAgrees
      <4> QED BY <4>1, <4>2, MappingAssumption
    <3>2. ASSUME NEW ch \in deviceChannels(mappings_[i]), ch \in deviceChannels(mappings_[j])
          PROVE  FALSE
      <4>1. ch \in Channels
        BY <3>1 DEF ManagerInv, BooksInv, MapperInv, MapperTypeOK
      <4>2. deviceChannelOwners_[ch] = i /\ deviceChannelOwners_[ch] = j
        BY <3>1, <3>2, <4>1 DEF ManagerInv, BooksInv, MapperInv, OwnersMatch
      <4> QED BY <4>2
    <3> QED BY <3>2
  <2> QED BY <2>1, <2>2
<1>3. ManagerInv /\ CoverInv /\ [Next]_vars => CoverInv'
  BY CoverNextInv
<1> QED BY <1>1, <1>2, <1>3, ManagerInitInv, ManagerNextInv, PTL DEF Spec

-----------------------------------------------------------------------------
(* Restarts *)

AllValid == \A id \in StreamIDs : mappings_[id] # NoMapping => isValid(mappings_[id])

\* The file lists streams that can all be open at once.
Sound(file) ==
  \A a, b \in file :
    /\ isValid(a.mapping)
    /\ a.id = b.id => a = b
    /\ a # b => deviceChannels(a.mapping) \cap deviceChannels(b.mapping) = {}
    /\ \/ NoGrandmaster \in {a.sdp.ptpMaster, b.sdp.ptpMaster}
       \/ a.sdp.ptpMaster = b.sdp.ptpMaster

\* ... and their receivers are within the device's limit.
Fits(file) ==
  LET receivers == widths({cfg \in file : cfg.isTransmit = FALSE})
  IN  IsFiniteSet(receivers) /\ within(usableRxChannelCount_, Cardinality(receivers))

FileSound == disk \in {NoFile, TornFile} \/ (Sound(disk) /\ Fits(disk))

LoadedFromFile ==
  /\ boot # "loading" => toLoad = {}
  /\ toLoad # {} => disk \notin {NoFile, TornFile} /\ toLoad \subseteq disk

RxWithin == within(usableRxChannelCount_, rxChannelsInUse_)

RestoreInv == AllValid /\ FileSound /\ LoadedFromFile /\ RxWithin

\* The mapper takes only valid mappings.
LEMMA StepKeepsValid ==
  ASSUME MapperInv, AllValid, MapperStep
  PROVE  AllValid'
<1>1. mappings_ \in [StreamIDs -> Mappings \cup {NoMapping}]
  BY DEF MapperInv, MapperTypeOK
<1>2. ASSUME NEW m, isValid(m), mappings_' = [mappings_ EXCEPT ![m.streamID] = m]
      PROVE  AllValid'
  <2> SUFFICES ASSUME NEW id \in StreamIDs, mappings_'[id] # NoMapping
               PROVE  isValid(mappings_'[id])
    BY DEF AllValid, isValid
  <2>1. mappings_'[id] \in {m, mappings_[id]}
    BY <1>1, <1>2
  <2> QED BY <1>2, <2>1 DEF AllValid
<1>3. CASE UNCHANGED mapperVars
  BY <1>3 DEF mapperVars, AllValid, isValid
<1>4. ASSUME NEW m, addMapping(m) \/ updateMapping(m) PROVE AllValid'
  BY <1>2, <1>4 DEF addMapping, canAddMapping, updateMapping, canUpdateMapping
<1>5. ASSUME NEW id \in StreamIDs, removeMapping(id) PROVE AllValid'
  <2> SUFFICES ASSUME NEW i \in StreamIDs, mappings_'[i] # NoMapping
               PROVE  isValid(mappings_'[i])
    BY DEF AllValid, isValid
  <2>1. mappings_'[i] = mappings_[i]
    BY <1>1, <1>5 DEF removeMapping
  <2> QED BY <2>1 DEF AllValid
<1>6. CASE clearAll
  BY <1>6 DEF clearAll, AllValid, isValid
<1> QED BY <1>3, <1>4, <1>5, <1>6 DEF MapperStep, MapperNext

\* The mapping of an open stream is the mapper's, and valid.
LEMMA OpenMapped ==
  ASSUME BooksInv, AllValid, NEW id \in open
  PROVE  /\ id \in StreamIDs /\ streams_[id] # NoStream
         /\ mappings_[id] = streams_[id].mapping /\ mappings_[id] # NoMapping
         /\ streams_[id].mapping \in Mappings
         /\ isValid(streams_[id].mapping)
<1>1. id \in StreamIDs /\ streams_[id] # NoStream
  BY DEF open
<1>2. mappings_[id] = streams_[id].mapping /\ streams_[id].mapping \in Mappings
  BY <1>1, EntryFields DEF BooksInv, MapperAgrees
<1> QED BY <1>1, <1>2, MappingAssumption DEF AllValid

\* What a save writes can all be open at once: it is.
LEMMA WrittenSound ==
  ASSUME BooksInv, AllValid
  PROVE  Sound(written)
<1> SUFFICES ASSUME NEW a \in written, NEW b \in written
             PROVE  /\ isValid(a.mapping)
                    /\ a.id = b.id => a = b
                    /\ a # b => deviceChannels(a.mapping) \cap deviceChannels(b.mapping) = {}
                    /\ \/ NoGrandmaster \in {a.sdp.ptpMaster, b.sdp.ptpMaster}
                       \/ a.sdp.ptpMaster = b.sdp.ptpMaster
  BY DEF Sound
<1>1. PICK i \in open : a = config(i)
  BY DEF written
<1>2. PICK j \in open : b = config(j)
  BY DEF written
<1>3. /\ a.id = i /\ a.mapping = streams_[i].mapping /\ a.sdp = streams_[i].sdp
      /\ b.id = j /\ b.mapping = streams_[j].mapping /\ b.sdp = streams_[j].sdp
  BY <1>1, <1>2 DEF config
<1>4. isValid(a.mapping)
  BY <1>3, OpenMapped
<1>5. a.id = b.id => a = b
  BY <1>1, <1>2, <1>3
<1>6. ASSUME a # b, NEW ch \in deviceChannels(a.mapping), ch \in deviceChannels(b.mapping)
      PROVE  FALSE
  <2>1. i # j
    BY <1>1, <1>2, <1>6
  <2>2. /\ i \in StreamIDs /\ j \in StreamIDs
        /\ ch \in deviceChannels(mappings_[i]) /\ ch \in deviceChannels(mappings_[j])
        /\ mappings_[i] # NoMapping /\ mappings_[j] # NoMapping
    BY <1>3, <1>6, OpenMapped
  <2>3. ch \in Channels
    BY <2>2 DEF BooksInv, MapperInv, MapperTypeOK
  <2>4. deviceChannelOwners_[ch] = i /\ deviceChannelOwners_[ch] = j
    BY <2>2, <2>3 DEF BooksInv, MapperInv, OwnersMatch
  <2> QED BY <2>1, <2>4
<1>7. \/ NoGrandmaster \in {a.sdp.ptpMaster, b.sdp.ptpMaster}
      \/ a.sdp.ptpMaster = b.sdp.ptpMaster
  <2>1. /\ a.sdp.ptpMaster \in {NoGrandmaster, activeGrandmaster_}
        /\ b.sdp.ptpMaster \in {NoGrandmaster, activeGrandmaster_}
    BY <1>3 DEF BooksInv, ClockAgrees
  <2> QED BY <2>1
<1> QED BY <1>4, <1>5, <1>6, <1>7

\* The receivers of what a save writes are the receivers that are open.
LEMMA WrittenFits ==
  ASSUME BooksInv, RxWithin
  PROVE  Fits(written)
<1> DEFINE rx == openIn(streams_, FALSE)
           receivers == {cfg \in written : cfg.isTransmit = FALSE}
<1>1. /\ \A cfg \in receivers : \E id \in rx : cfg = config(id)
      /\ \A id \in rx : config(id) \in receivers
  BY DEF written, openIn, open, config
<1>2. \A id \in rx : config(id).id = id /\ config(id).sdp = streams_[id].sdp
  BY DEF config
<1>3. widths(receivers) = channelsIn(streams_, rx)
  <2>1. ASSUME NEW x \in widths(receivers) PROVE x \in channelsIn(streams_, rx)
    <3>1. PICK cfg \in receivers : x \in {cfg.id} \X (1..cfg.sdp.numChannels)
      BY DEF widths
    <3>2. PICK id \in rx : cfg = config(id)
      BY <1>1
    <3>3. x \in {id} \X (1..streams_[id].sdp.numChannels)
      BY <1>2, <3>1, <3>2
    <3> HIDE DEF rx
    <3> QED BY <3>3 DEF channelsIn
  <2>2. ASSUME NEW x \in channelsIn(streams_, rx) PROVE x \in widths(receivers)
    <3>1. PICK id \in rx : x \in {id} \X (1..streams_[id].sdp.numChannels)
      BY DEF channelsIn
    <3>2. config(id) \in receivers /\ x \in {config(id).id} \X (1..config(id).sdp.numChannels)
      BY <1>1, <1>2, <3>1
    <3> HIDE DEF receivers
    <3> QED BY <3>2 DEF widths
  <2> HIDE DEF rx, receivers
  <2> QED BY <2>1, <2>2
<1>4. IsFiniteSet(rx) /\ \A i \in rx : streams_[i].sdp.numChannels \in Nat
  BY OpenFinite DEF BooksInv
<1>5. IsFiniteSet(channelsIn(streams_, rx))
  BY <1>4, ChannelsFinite
<1>6. rxChannelsInUse_ = Cardinality(channelsIn(streams_, rx))
  BY CountersOfTable DEF BooksInv
<1> QED BY <1>3, <1>5, <1>6 DEF Fits, RxWithin

-----------------------------------------------------------------------------
(* The device's limit on receive channels *)

\* A transmitter does not count, and a receiver is admitted.
LEMMA CountWithin ==
  ASSUME EntriesTyped, RxWithin, NEW sdp \in Sessions, NEW isTransmit,
         isTransmit \/ canAddStream(sdp, FALSE), addCount(isTransmit, sdp.numChannels)
  PROVE  RxWithin'
<1>1. sdp.numChannels \in Nat /\ rxChannelsInUse_ \in Int
  BY SessionWidth DEF EntriesTyped
<1>2. CASE isTransmit
  BY <1>2 DEF addCount, RxWithin, within
<1>3. CASE ~isTransmit
  <2>1. rxChannelsInUse_' = rxChannelsInUse_ + sdp.numChannels
    BY <1>3 DEF addCount
  <2>2. within(usableRxChannelCount_, sdp.numChannels + rxChannelsInUse_)
    BY <1>3 DEF canAddStream
  <2>3. sdp.numChannels + rxChannelsInUse_ = rxChannelsInUse_ + sdp.numChannels
    BY <1>1
  <2> QED BY <2>1, <2>2, <2>3 DEF RxWithin
<1> QED BY <1>2, <1>3

LEMMA AdmittedWithin ==
  ASSUME EntriesTyped, RxWithin, NEW id, NEW sdp \in Sessions, NEW start, NEW routes
  PROVE  /\ admitted(id, sdp, start, routes, FALSE) => RxWithin'
         /\ admitted(id, sdp, start, routes, TRUE) => RxWithin'
<1>1. ASSUME admitted(id, sdp, start, routes, FALSE) PROVE RxWithin'
  <2>1. canAddStream(sdp, FALSE) /\ addCount(FALSE, sdp.numChannels)
    BY <1>1, Zenon DEF admitted, store
  <2> QED BY <2>1, CountWithin
<1>2. ASSUME admitted(id, sdp, start, routes, TRUE) PROVE RxWithin'
  <2>1. addCount(TRUE, sdp.numChannels)
    BY <1>2, Zenon DEF admitted, store
  <2> QED BY <2>1, CountWithin
<1> QED BY <1>1, <1>2

\* A removal makes room.
LEMMA RemovedWithin ==
  ASSUME EntriesTyped, RxWithin, NEW c, NEW id \in StreamIDs, NEW then, removed(c, id, then)
  PROVE  RxWithin'
<1>1. CASE streams_[id] = NoStream
  BY <1>1 DEF removed, managerVars, RxWithin, within
<1>2. CASE streams_[id] # NoStream
  <2>1. PICK n \in Nat : n = streams_[id].sdp.numChannels
    BY <1>2, EntryFields
  <2>2. rxChannelsInUse_' \in {rxChannelsInUse_, rxChannelsInUse_ + (-n)}
    BY <1>2, <2>1 DEF removed, erase, addCount
  <2>3. rxChannelsInUse_ \in Int /\ usableRxChannelCount_ \in Nat
    BY LimitAssumption DEF EntriesTyped
  <2>4. rxChannelsInUse_' \in Int /\ rxChannelsInUse_' =< rxChannelsInUse_
    BY <2>1, <2>2, <2>3
  <2> QED BY <2>3, <2>4 DEF RxWithin, within
<1> QED BY <1>1, <1>2

LEMMA WithinNextInv == ManagerInv /\ RxWithin /\ [Next]_vars => RxWithin'
<1> SUFFICES ASSUME ManagerInv, RxWithin, [Next]_vars PROVE RxWithin'
  OBVIOUS
<1>1. EntriesTyped
  BY DEF ManagerInv, BooksInv
<1>2. ASSUME UNCHANGED rxChannelsInUse_ PROVE RxWithin'
  BY <1>2 DEF RxWithin, within
<1>3. ASSUME NEW c \in Clients,
             \/ CallAddDefault(c) \/ CallAdd(c) \/ CallRemove(c) \/ CallUpdate(c)
             \/ CallTxFlows(c) \/ CallFollow(c) \/ Save(c) \/ UpdateMapping(c)
      PROVE  RxWithin'
  BY <1>2, <1>3 DEF CallAddDefault, CallAdd, CallRemove, CallUpdate, CallTxFlows, CallFollow,
                    Call, Save, UpdateMapping, managerVars, countVars
<1>4. ASSUME NEW c \in Clients, AddStream(c) PROVE RxWithin'
  <2> DEFINE s == Head(job[c])
  <2>1. s \in AddSteps
    BY <1>4, HeadTyped, StepOfKind DEF AddStream, at, ManagerInv
  <2>2. s.sdp \in Sessions
    BY <2>1 DEF AddSteps, Sessions
  <2>3. PICK id \in StreamIDs : \/ admitted(id, s.sdp, s.start, s.routes, FALSE)
                                \/ UNCHANGED rxChannelsInUse_
    BY <1>4 DEF AddStream, freshIDs, rejected, managerVars
  <2> HIDE DEF s
  <2> QED BY <1>1, <1>2, <2>2, <2>3, AdmittedWithin
<1>5. ASSUME NEW c \in Clients, TxFlow(c) PROVE RxWithin'
  <2> DEFINE s == Head(job[c])
             n == IF s.left < kPerFlow THEN s.left ELSE kPerFlow
  <2>1. s \in FlowSteps
    BY <1>5, HeadTyped, StepOfKind DEF TxFlow, at, ManagerInv
  <2>2. n \in 1..kPerFlow
    BY <2>1, LimitAssumption DEF FlowSteps
  <2>3. txSession(n) \in Sessions
    BY <2>2 DEF Sessions
  <2>4. \/ \E id \in StreamIDs : admitted(id, txSession(n), s.start, {}, TRUE)
        \/ UNCHANGED rxChannelsInUse_
    BY <1>5 DEF TxFlow, freshIDs, rejected, managerVars
  <2> HIDE DEF n, s
  <2> QED BY <1>1, <1>2, <2>3, <2>4, AdmittedWithin
<1>6. ASSUME NEW c \in Clients, RemoveStream(c) PROVE RxWithin'
  <2>1. Head(job[c]) \in RemoveSteps
    BY <1>6, HeadTyped, StepOfKind DEF RemoveStream, at, ManagerInv
  <2>2. PICK id \in StreamIDs : removed(c, id, <<>>)
    BY <1>6, <2>1 DEF RemoveStream, RemoveSteps
  <2> QED BY <1>1, <2>2, RemovedWithin
<1>7. ASSUME NEW c \in Clients, FollowNext(c) PROVE RxWithin'
  <2>1. Head(job[c]) \in FollowSteps
    BY <1>7, HeadTyped, StepOfKind DEF FollowNext, at, ManagerInv
  <2>2. UNCHANGED rxChannelsInUse_ \/ \E id \in StreamIDs : \E then : removed(c, id, then)
    BY <1>7, <2>1 DEF FollowNext, FollowSteps, managerVars
  <2> QED BY <1>1, <1>2, <2>2, RemovedWithin
<1>8. ASSUME NEW c \in Clients, Rollback(c) PROVE RxWithin'
  <2>1. Head(job[c]) \in RollbackSteps
    BY <1>8, HeadTyped, StepOfKind DEF Rollback, at, ManagerInv
  <2>2. UNCHANGED rxChannelsInUse_ \/ \E id \in StreamIDs : \E then : removed(c, id, then)
    BY <1>8, <2>1 DEF Rollback, RollbackSteps, managerVars
  <2> QED BY <1>1, <1>2, <2>2, RemovedWithin
<1>9. CASE RemoveAllStreams \/ Crash
  <2>1. rxChannelsInUse_' = 0
    BY <1>9 DEF RemoveAllStreams, Crash
  <2> QED BY <2>1, LimitAssumption DEF RxWithin, within
<1>10. CASE SetIOActive \/ Start \/ Boot \/ LoadDone \/ UNCHANGED vars
  <2>1. UNCHANGED rxChannelsInUse_
    BY <1>10 DEF SetIOActive, Start, Boot, LoadDone, vars, managerVars, countVars
  <2> QED BY <1>2, <2>1
<1>11. CASE LoadOne
  <2>1. PICK cfg \in toLoad :
          IF restorable(cfg)
          THEN store(cfg.id, cfg.sdp, cfg.mapping, cfg.isTransmit, FALSE)
          ELSE UNCHANGED <<mapperVars, managerVars>>
    BY <1>11 DEF LoadOne
  <2>2. cfg.sdp \in Sessions
    BY DEF ManagerInv, FileTyped, Configs, Configurations
  <2>3. CASE restorable(cfg)
    <3>1. canAddStream(cfg.sdp, FALSE) /\ addCount(cfg.isTransmit, cfg.sdp.numChannels)
      BY <2>1, <2>3, Zenon DEF restorable, store
    <3> QED BY <1>1, <2>2, <3>1, CountWithin
  <2>4. CASE ~restorable(cfg)
    BY <1>2, <2>1, <2>4 DEF managerVars
  <2> QED BY <2>3, <2>4
<1> QED BY <1>3, <1>4, <1>5, <1>6, <1>7, <1>8, <1>9, <1>10, <1>11 DEF Next, ClientNext

\* A receiver that is mapped in full and is not open can be restored, whatever was
\* before it.
LEMMA WholeIsRestorable ==
  ASSUME ManagerInv, RestoreInv, undisturbed, profileTakes(FALSE), NEW cfg \in toLoad,
         cfg.isTransmit = FALSE, streams_[cfg.id] = NoStream
  PROVE  restorable(cfg)
<1>1. /\ cfg.id \in StreamIDs /\ cfg.sdp \in Sessions /\ cfg.mapping \in Mappings
      /\ cfg.isTransmit \in BOOLEAN /\ cfg.mapping.streamID = cfg.id
  BY DEF ManagerInv, FileTyped, Configs, Configurations
<1>2. /\ cfg \in disk /\ Sound(disk) /\ Fits(disk) /\ \A id \in open : config(id) \in disk
      /\ Cardinality(deviceChannels(cfg.mapping)) >= cfg.sdp.numChannels
  BY DEF RestoreInv, FileSound, LoadedFromFile, undisturbed
<1>3. \A id \in open : /\ config(id).id = id /\ config(id).mapping = streams_[id].mapping
                       /\ config(id).sdp = streams_[id].sdp
                       /\ config(id).isTransmit = streams_[id].isTransmit
  BY DEF config
<1>4. \A id \in open : id # cfg.id /\ config(id) # cfg
  BY <1>3 DEF open
<1>5. isValid(cfg.mapping)
  BY <1>2 DEF Sound
<1>6. deviceChannels(cfg.mapping) \subseteq Channels
  BY <1>1, <1>5, ValidInDevice
<1>7. \A ch \in deviceChannels(cfg.mapping) : deviceChannelOwners_[ch] = NullID
  <2> SUFFICES ASSUME NEW ch \in deviceChannels(cfg.mapping), deviceChannelOwners_[ch] # NullID
               PROVE  FALSE
    OBVIOUS
  <2>1. PICK id \in StreamIDs : deviceChannelOwners_[ch] = id
    BY <1>6 DEF ManagerInv, BooksInv, MapperInv, MapperTypeOK
  <2>2. mappings_[id] # NoMapping /\ ch \in deviceChannels(mappings_[id])
    BY <1>6, <2>1 DEF ManagerInv, BooksInv, MapperInv, OwnersMatch
  <2>3. id \in open /\ mappings_[id] = streams_[id].mapping
    BY <2>2 DEF ManagerInv, BooksInv, MapperAgrees, open
  <2>4. deviceChannels(streams_[id].mapping) \cap deviceChannels(cfg.mapping) = {}
    BY <1>2, <1>3, <1>4, <2>3 DEF Sound
  <2> QED BY <2>2, <2>3, <2>4
<1>8. canAddMapping(cfg.mapping)
  BY <1>5, <1>7 DEF canAddMapping, isOverlapWithStream
<1>9. cfg.sdp.numChannels =< getAvailableChannelCount
  <2>0. Cardinality(deviceChannels(cfg.mapping)) >= cfg.sdp.numChannels
    BY <1>2
  <2> DEFINE free == {ch \in Channels : deviceChannelOwners_[ch] = NullID}
  <2>1. deviceChannels(cfg.mapping) \subseteq free
    BY <1>6, <1>7
  <2>2. IsFiniteSet(Channels)
    BY ChannelAssumption, FS_Interval DEF Channels
  <2>3. IsFiniteSet(free)
    BY <2>2, FS_Subset
  <2>4. /\ Cardinality(deviceChannels(cfg.mapping)) =< Cardinality(free)
        /\ Cardinality(deviceChannels(cfg.mapping)) \in Nat /\ Cardinality(free) \in Nat
    BY <2>1, <2>3, FS_Subset, FS_CardinalityType
  <2>5. cfg.sdp.numChannels \in Nat
    BY <1>1, SessionWidth
  <2>6. \A a, b, c \in Nat : a >= b /\ a =< c => b =< c
    OBVIOUS
  <2> HIDE DEF free
  <2> QED BY <2>0, <2>4, <2>5, <2>6 DEF getAvailableChannelCount, free
<1>10. \/ cfg.sdp.ptpMaster = NoGrandmaster
       \/ activeGrandmaster_ \in {NoGrandmaster, cfg.sdp.ptpMaster}
  <2> SUFFICES ASSUME activeGrandmaster_ # NoGrandmaster, cfg.sdp.ptpMaster # NoGrandmaster
               PROVE  activeGrandmaster_ = cfg.sdp.ptpMaster
    OBVIOUS
  <2>1. PICK id \in open : streams_[id].sdp.ptpMaster = activeGrandmaster_
    BY DEF ManagerInv, BooksInv, ClockAgrees
  <2> QED BY <1>2, <1>3, <2>1 DEF Sound
<1>11. ASSUME NEW limit \in Nat, within(limit, Cardinality(widths(saved(FALSE))))
       PROVE  within(limit, cfg.sdp.numChannels + rxChannelsInUse_)
  <2> DEFINE rx == openIn(streams_, FALSE)
             n == cfg.sdp.numChannels
             A == channelsIn(streams_, rx)
             B == {cfg.id} \X (1..n)
             all == widths(saved(FALSE))
  <2>1. n \in Nat
    BY <1>1, SessionWidth
  <2>2. IsFiniteSet(all)
    BY <1>2 DEF Fits, saved
  <2>3. A \subseteq all
    <3> SUFFICES ASSUME NEW x \in A PROVE x \in all
      OBVIOUS
    <3>1. PICK id \in rx : x \in {id} \X (1..streams_[id].sdp.numChannels)
      BY DEF channelsIn
    <3>2. id \in open /\ streams_[id].isTransmit = FALSE
      BY DEF openIn, open
    <3>3. config(id) \in saved(FALSE)
      BY <1>2, <1>3, <3>2 DEF saved
    <3>4. x \in {config(id).id} \X (1..config(id).sdp.numChannels)
      BY <1>3, <3>1, <3>2
    <3> QED BY <3>3, <3>4 DEF widths
  <2>4. B \subseteq all
    <3>1. cfg \in saved(FALSE)
      BY <1>2 DEF saved
    <3> QED BY <3>1 DEF widths
  <2>5. A \cap B = {}
    <3>1. cfg.id \notin rx
      BY <1>4 DEF openIn, open
    <3>2. ASSUME NEW x \in A PROVE x \notin B
      <4>1. PICK id \in rx : x \in {id} \X (1..streams_[id].sdp.numChannels)
        BY DEF channelsIn
      <4>2. x[1] = id /\ id # cfg.id
        BY <3>1, <4>1
      <4> QED BY <4>2
    <3> QED BY <3>2
  <2>6. IsFiniteSet(B) /\ Cardinality(B) = n
    <3>1. IsFiniteSet({cfg.id}) /\ Cardinality({cfg.id}) = 1
      BY FS_Singleton
    <3>2. IsFiniteSet(1..n) /\ Cardinality(1..n) = n
      <4>1. PICK k \in Nat : k = n
        BY <2>1
      <4>2. IsFiniteSet(1..k) /\ Cardinality(1..k) = IF 1 > k THEN 0 ELSE k - 1 + 1
        BY FS_Interval
      <4> QED BY <4>1, <4>2
    <3>3. IsFiniteSet(B) /\ Cardinality(B) = Cardinality({cfg.id}) * Cardinality(1..n)
      BY <3>1, <3>2, FS_Product
    <3> QED BY <2>1, <3>1, <3>2, <3>3
  <2>7. rxChannelsInUse_ = Cardinality(A)
    BY CountersOfTable DEF ManagerInv, BooksInv
  <2> HIDE DEF A, B, all, n
  <2>8. IsFiniteSet(A)
    BY <2>2, <2>3, FS_Subset
  <2>9. /\ Cardinality(A \cup B) = Cardinality(A) + Cardinality(B) - Cardinality(A \cap B)
        /\ Cardinality(A) \in Nat /\ Cardinality(A \cap B) = 0
    BY <2>5, <2>6, <2>8, FS_Union, FS_CardinalityType, FS_EmptySet
  <2>10. /\ Cardinality(A \cup B) =< Cardinality(all)
         /\ Cardinality(A \cup B) \in Nat /\ Cardinality(all) \in Nat
    <3>1. A \cup B \subseteq all
      BY <2>3, <2>4
    <3> QED BY <2>2, <3>1, FS_Subset, FS_CardinalityType
  <2>11. \A a, b, u, z \in Nat : u = a + b - 0 /\ u =< z => b + a =< z
    OBVIOUS
  <2>12. n + rxChannelsInUse_ =< Cardinality(all)
    BY <2>1, <2>6, <2>7, <2>9, <2>10, <2>11
  <2>13. n + rxChannelsInUse_ \in Nat
    BY <2>1, <2>7, <2>9
  <2>14. \A x, y \in Nat : x =< y /\ y =< limit => x =< limit
    OBVIOUS
  <2>15. limit > 0 => Cardinality(all) =< limit
    BY <1>11 DEF within, all
  <2>16. limit > 0 => n + rxChannelsInUse_ =< limit
    BY <2>10, <2>12, <2>13, <2>14, <2>15
  <2> QED BY <2>16 DEF within, n
<1>12. within(usableRxChannelCount_, cfg.sdp.numChannels + rxChannelsInUse_)
  <2>1. within(usableRxChannelCount_, Cardinality(widths(saved(FALSE))))
    BY <1>2 DEF Fits, saved
  <2> QED BY <1>11, <2>1, LimitAssumption
<1>13. within(profile.maxTotalChannels, cfg.sdp.numChannels + rxChannelsInUse_)
  <2>1. profile.maxTotalChannels \in Nat
    BY LimitAssumption DEF ManagerInv, FileTyped
  <2>2. within(profile.maxTotalChannels, Cardinality(widths(saved(FALSE))))
    BY DEF profileTakes
  <2> QED BY <1>11, <2>1, <2>2
<1>14. directionAllowed(FALSE)
  BY DEF profileTakes
<1>15. canAddStream(cfg.sdp, FALSE)
  BY <1>9, <1>10, <1>12, <1>13, <1>14 DEF canAddStream
<1> QED BY <1>8, <1>15 DEF restorable

\* A step of loadSavedStreams() opens the stream it takes, or leaves all as it was.
LEMMA LoadOneOpens ==
  ASSUME ManagerInv, LoadOne
  PROVE  \E cfg \in toLoad :
           /\ toLoad' = toLoad \ {cfg}
           /\ IF restorable(cfg) THEN streams_'[cfg.id] # NoStream ELSE UNCHANGED streams_
<1>1. PICK cfg \in toLoad :
        /\ toLoad' = toLoad \ {cfg}
        /\ IF restorable(cfg)
           THEN store(cfg.id, cfg.sdp, cfg.mapping, cfg.isTransmit, FALSE)
           ELSE UNCHANGED <<mapperVars, managerVars>>
  BY DEF LoadOne
<1>2. cfg \in Configurations
  BY DEF ManagerInv, FileTyped, Configs
<1> DEFINE e == entry(cfg.sdp, cfg.mapping, cfg.isTransmit, FALSE)
<1>3. e \in Entries
  BY <1>2 DEF entry, Entries, Configurations
<1>4. CASE restorable(cfg)
  <2>1. streams_' = [streams_ EXCEPT ![cfg.id] = e]
    BY <1>1, <1>4 DEF store
  <2> HIDE DEF e
  <2>2. streams_'[cfg.id] = e
    BY <1>2, <2>1 DEF ManagerInv, BooksInv, EntriesTyped, Configurations
  <2> QED BY <1>1, <1>3, <1>4, <2>2, OfferAssumption
<1>5. CASE ~restorable(cfg)
  BY <1>1, <1>5 DEF managerVars
<1> QED BY <1>4, <1>5

LEMMA RestoreNextInv == ManagerInv /\ RestoreInv /\ [Next]_vars => RestoreInv'
<1> SUFFICES ASSUME ManagerInv, RestoreInv, [Next]_vars PROVE RestoreInv'
  OBVIOUS
<1>1. AllValid' /\ RxWithin'
  BY ManagerNextInv, StepKeepsValid, WithinNextInv DEF ManagerInv, BooksInv, RestoreInv
<1>2. ASSUME boot # "loading", boot' = boot, toLoad' = toLoad PROVE LoadedFromFile'
  BY <1>2 DEF RestoreInv, LoadedFromFile
<1>3. ASSUME UNCHANGED disk PROVE FileSound'
  BY <1>3 DEF RestoreInv, FileSound, Sound, Fits, widths, within, isValid, deviceChannels
<1>4. ASSUME NEW c \in Clients,
             \/ CallAddDefault(c) \/ CallAdd(c) \/ CallRemove(c) \/ CallUpdate(c)
             \/ CallTxFlows(c) \/ CallFollow(c)
      PROVE  boot # "loading" /\ UNCHANGED <<disk, boot, toLoad>>
  BY <1>4 DEF CallAddDefault, CallAdd, CallRemove, CallUpdate, CallTxFlows, CallFollow, Call,
              unlocked
<1>5. ASSUME NEW c \in Clients,
             \/ AddStream(c) \/ RemoveStream(c) \/ UpdateMapping(c) \/ FollowNext(c)
             \/ TxFlow(c) \/ Rollback(c)
      PROVE  boot # "loading" /\ UNCHANGED <<disk, boot, toLoad>>
  BY <1>5 DEF AddStream, RemoveStream, UpdateMapping, FollowNext, TxFlow, Rollback, at, unlocked
<1>6. ASSUME NEW c \in Clients, Save(c) PROVE FileSound' /\ LoadedFromFile'
  <2>1. /\ boot # "loading" /\ UNCHANGED <<boot, toLoad>>
        /\ disk' \in {disk, TornFile, written}
    BY <1>6 DEF Save, at, unlocked, written
  <2>2. CASE disk' = disk
    BY <1>2, <1>3, <2>1, <2>2
  <2>3. CASE disk' = TornFile
    BY <1>2, <2>1, <2>3 DEF FileSound
  <2>4. CASE disk' = written
    <3>1. Sound(written) /\ Fits(written)
      BY WrittenSound, WrittenFits DEF ManagerInv, RestoreInv
    <3>2. FileSound'
      BY <2>4, <3>1 DEF FileSound, Sound, Fits, widths, within, isValid, deviceChannels
    <3> QED BY <1>2, <2>1, <3>2
  <2> QED BY <2>1, <2>2, <2>3, <2>4
<1>7. CASE SetIOActive \/ RemoveAllStreams
  <2>1. boot # "loading" /\ UNCHANGED <<disk, boot, toLoad>>
    BY <1>7 DEF SetIOActive, RemoveAllStreams
  <2> QED BY <1>1, <1>2, <1>3, <2>1 DEF RestoreInv
<1>8. CASE Crash
  <2>1. toLoad' = {} /\ boot' = "off" /\ disk' \in {disk, TornFile}
    BY <1>8 DEF Crash
  <2>2. LoadedFromFile'
    BY <2>1 DEF LoadedFromFile
  <2>3. FileSound'
    <3>1. CASE disk' = disk
      BY <1>3, <3>1
    <3>2. CASE disk' = TornFile
      BY <3>2 DEF FileSound
    <3> QED BY <2>1, <3>1, <3>2
  <2> QED BY <1>1, <2>2, <2>3 DEF RestoreInv
<1>9. CASE Boot
  <2>1. LoadedFromFile'
    BY <1>9 DEF Boot, LoadedFromFile
  <2>2. FileSound'
    <3>1. CASE disk' = disk
      BY <1>3, <3>1
    <3>2. CASE disk' = NoFile
      BY <3>2 DEF FileSound
    <3> QED BY <1>9, <3>1, <3>2 DEF Boot
  <2> QED BY <1>1, <2>1, <2>2 DEF RestoreInv
<1>10. CASE LoadOne
  <2>1. \E cfg \in toLoad : toLoad' = toLoad \ {cfg}
    BY <1>10 DEF LoadOne
  <2>2. boot = "loading" /\ UNCHANGED <<boot, disk>>
    BY <1>10 DEF LoadOne
  <2>3. LoadedFromFile'
    BY <2>1, <2>2 DEF RestoreInv, LoadedFromFile
  <2> QED BY <1>1, <1>3, <2>2, <2>3 DEF RestoreInv
<1>11. CASE Start \/ LoadDone
  <2>1. toLoad' = {} /\ UNCHANGED disk
    BY <1>11 DEF Start, LoadDone, RestoreInv, LoadedFromFile
  <2>2. LoadedFromFile'
    BY <2>1 DEF LoadedFromFile
  <2> QED BY <1>1, <1>3, <2>1, <2>2 DEF RestoreInv
<1>12. CASE UNCHANGED vars
  <2>1. UNCHANGED <<boot, toLoad, disk>>
    BY <1>12 DEF vars
  <2>2. LoadedFromFile'
    BY <2>1 DEF RestoreInv, LoadedFromFile
  <2> QED BY <1>1, <1>3, <2>1, <2>2 DEF RestoreInv
<1>13. ASSUME NEW c \in Clients, ClientNext(c) PROVE RestoreInv'
  BY <1>1, <1>2, <1>3, <1>4, <1>5, <1>6, <1>13 DEF ClientNext, RestoreInv
<1> QED BY <1>7, <1>8, <1>9, <1>10, <1>11, <1>12, <1>13 DEF Next

\* loadSavedStreams() brings back every receive stream of a file that was not
\* overtaken and whose streams are mapped in full, when the profile takes them: in
\* whatever order it meets them, under any channel limits, and whatever was going on
\* when the driver stopped.
THEOREM RestartAlwaysRestores == Spec => RestartRestoresReceivers
<1>1. Init => RestoreInv
  <2> SUFFICES ASSUME Init PROVE RestoreInv
    OBVIOUS
  <2>1. AllValid
    BY DEF Init, MapperInit, AllValid
  <2>2. FileSound /\ LoadedFromFile
    BY DEF Init, FileSound, LoadedFromFile
  <2>3. RxWithin
    BY LimitAssumption DEF Init, RxWithin, within
  <2> QED BY <2>1, <2>2, <2>3 DEF RestoreInv
<1>2. ManagerInv /\ RestoreInv /\ [Next]_vars =>
        [undisturbed /\ profileTakes(FALSE) /\ boot' # "off" => opens(FALSE)]_vars
  <2> SUFFICES ASSUME ManagerInv, RestoreInv, Next, undisturbed, profileTakes(FALSE),
                      boot' # "off"
               PROVE  opens(FALSE)
    OBVIOUS
  <2>1. boot = "loading"
    BY DEF undisturbed
  <2>2. CASE LoadOne
    <3>1. PICK cfg \in toLoad :
            /\ toLoad' = toLoad \ {cfg}
            /\ IF restorable(cfg) THEN streams_'[cfg.id] # NoStream ELSE UNCHANGED streams_
      BY <2>2, LoadOneOpens
    <3>2. ASSUME cfg.isTransmit = FALSE PROVE streams_'[cfg.id] # NoStream
      <4>1. CASE streams_[cfg.id] # NoStream
        BY <3>1, <4>1
      <4>2. CASE streams_[cfg.id] = NoStream
        BY <3>1, <3>2, <4>2, WholeIsRestorable
      <4> QED BY <4>1, <4>2
    <3>3. toLoad \ toLoad' \subseteq {cfg}
      BY <3>1
    <3> QED BY <3>2, <3>3 DEF opens
  <2>3. CASE Crash
    BY <2>3 DEF Crash
  <2>4. CASE LoadDone
    BY <2>4 DEF LoadDone, undisturbed
  <2>5. ASSUME NEW c \in Clients, ClientNext(c) PROVE FALSE
    BY <2>1, <2>5 DEF ClientNext, CallAddDefault, CallAdd, CallRemove, CallUpdate, CallTxFlows,
                      CallFollow, Call, AddStream, RemoveStream, UpdateMapping, FollowNext,
                      TxFlow, Rollback, Save, at, unlocked
  <2>6. ~SetIOActive /\ ~RemoveAllStreams /\ ~Start /\ ~Boot
    BY <2>1 DEF SetIOActive, RemoveAllStreams, Start, Boot
  <2> QED BY <2>2, <2>3, <2>4, <2>5, <2>6 DEF Next
<1> QED BY <1>1, <1>2, ManagerInitInv, ManagerNextInv, RestoreNextInv, PTL
        DEF Spec, RestartRestoresReceivers
=============================================================================
