----------------------------- MODULE Documents -----------------------------
(***************************************************************************)
(* A session description on its way through the driver: heard and read     *)
(* (SessionDescription), checked against the profile (Profiles), played,   *)
(* written to streams.json (StreamFile), read back after a restart, and    *)
(* announced again.                                                        *)
(*                                                                         *)
(* The file is written in place: a crash leaves a prefix of it.  The       *)
(* profile may be another one after a restart.  How channels are found is  *)
(* ChannelMapper's business: each stream asks for a block of its own here. *)
(***************************************************************************)
EXTENDS StreamFile, Profiles

CONSTANTS
  HeardTexts,   \* the descriptions that are announced
  SentNames,    \* the names somebody gives a stream to be sent
  SentWidths,   \* and how many channels
  SentTo, SentFrom, \* the group it goes to, and the interface it is announced on
  RouteLists,   \* the routes a stream may be given
  OlderFiles,   \* files of older versions: <<text, the streams it stands for>>
  ActiveKinds,  \* the profiles selected
  deviceRate,   \* the rate of the device
  NoFileText,   \* no file
  MaxStreams,   \* bound: streams ever added
  MaxLosses     \* bound: crashes, and files of older versions brought in

VARIABLES
  playing,    \* the streams of the device
  heardAs,    \* history: what each was read from, <<>> for one created here
  activeKind, \* the profile in use
  streamText, \* streams.json
  backup,     \* streams.json.bak
  saving,     \* what is being written, or NoFileText
  alive,      \* the driver runs
  savedList,  \* history: the streams of the file written last
  added, losses
documentVars == <<playing, heardAs, activeKind, streamText, backup, saving, alive, savedList,
                  added, losses>>

stream(sdp, mapping, isTransmit) ==
  [sdp |-> sdp, mapping |-> mapping, isTransmit |-> isTransmit]

\* addStream() completes the mapping it is given: here a block of eight, with the routes
\* the caller gives.
mappingOf(id, sdp, routes) ==
  [streamID |-> id, streamChannelCount |-> sdp.numChannels, deviceChannelStart |-> 8 * (id - 1),
   deviceChannelCount |-> sdp.numChannels, routes |-> routes]

\* canAddStream(): the rate of the device, and the profile.  Its other conditions (channels
\* left, packet budget, the grandmaster, a PTP lock) depend on more than the document: see
\* StreamManager.  A few streams of eight channels that name one grandmaster meet them.
admissible(sdp, isTransmit) ==
  /\ isValid(sdp) /\ sdp.sampleRate = deviceRate
  /\ validate(forKind(activeKind), sdp, isTransmit)

\* mapper_.addMapping() refuses channels that another stream has.
deviceChannels(m) ==
  IF m.routes = <<>> THEN m.deviceChannelStart .. m.deviceChannelStart + m.deviceChannelCount - 1
                     ELSE {m.routes[i][2] : i \in DOMAIN m.routes}
mappable(m, streams) ==
  \A s \in streams : deviceChannels(s.mapping) \cap deviceChannels(m) = {}

\* saveAllStreamsInternal(): the order is that of the streams' ids.
savedConfigs(streams) ==
  LET order == SetToSortSeq({s.mapping.streamID : s \in streams}, <)
      of(id) == CHOOSE s \in streams : s.mapping.streamID = id
      saved(s) == [createConfig(s.sdp, s.mapping) EXCEPT !.isTransmit = s.isTransmit]
  IN  [i \in DOMAIN order |-> saved(of(order[i]))]

-----------------------------------------------------------------------------
add(sdp, isTransmit, from) ==
  /\ alive /\ saving = NoFileText /\ added < MaxStreams
  /\ admissible(sdp, isTransmit)
  /\ \E routes \in RouteLists :
       LET new == stream(sdp, mappingOf(added + 1, sdp, routes), isTransmit)
       IN  /\ mappingIsValid(new.mapping) /\ mappable(new.mapping, playing)
           /\ playing' = playing \cup {new}
           /\ saving' = toJSON(savedConfigs(playing \cup {new}))
  /\ heardAs' = Append(heardAs, from)
  /\ added' = added + 1
  /\ UNCHANGED <<activeKind, streamText, backup, alive, savedList, losses>>

\* A description is heard, read and received.
Receive == \E text \in HeardTexts : \E sdp \in parseString(text) : add(sdp, FALSE, text)

\* createTxStream().
Send ==
  \E name \in SentNames, channels \in SentWidths :
    add(announcedTxSession(name, SentTo, 5004, channels, deviceRate), TRUE, <<>>)

RemoveStream ==
  /\ alive /\ saving = NoFileText
  /\ \E s \in playing : /\ playing' = playing \ {s}
                        /\ saving' = toJSON(savedConfigs(playing \ {s}))
  /\ UNCHANGED <<heardAs, activeKind, streamText, backup, alive, savedList, added, losses>>

\* saveConfig(): the file is emptied and filled, and it is whole at the end.
SaveBegins ==
  /\ saving # NoFileText /\ streamText # saving
  /\ \E n \in 0 .. Len(saving) - 1 : streamText' = SubSeq(saving, 1, n)
  /\ savedList' = playing
  /\ UNCHANGED <<playing, heardAs, activeKind, backup, saving, alive, added, losses>>

SaveEnds ==
  /\ saving # NoFileText
  /\ streamText' = saving /\ saving' = NoFileText /\ savedList' = playing
  /\ UNCHANGED <<playing, heardAs, activeKind, backup, alive, added, losses>>

\* The driver ends, perhaps in the middle of a file; whatever profile is chosen
\* counts from the next start.
Ends ==
  /\ alive /\ losses < MaxLosses
  /\ alive' = FALSE /\ playing' = {} /\ saving' = NoFileText
  /\ activeKind' \in ActiveKinds
  /\ losses' = losses + 1
  /\ UNCHANGED <<heardAs, streamText, backup, savedList, added>>

\* A file of an older version, or one written by hand.
BringOlder ==
  /\ ~alive /\ losses < MaxLosses
  /\ \E older \in OlderFiles : streamText' = older[1] /\ savedList' = older[2]
  /\ losses' = losses + 1
  /\ UNCHANGED <<playing, heardAs, activeKind, backup, saving, alive, added>>

\* loadSavedStreams(), one after another: it asks of every stream, whatever its role, whether
\* it could be received, and passes over an id it has and channels that are taken.
restored(configs) ==
  LET loadable(c, streams) ==
        /\ c.enabled /\ configIsValid(c) /\ admissible(c.sdp, FALSE)
        /\ \A s \in streams : s.mapping.streamID # c.mapping.streamID
        /\ mappable(c.mapping, streams)
      load(streams, c) == IF loadable(c, streams)
                          THEN streams \cup {stream(c.sdp, c.mapping, c.isTransmit)} ELSE streams
  IN  FoldLeft(load, {}, configs)

\* loadConfig(): a text that is corrupt is put aside and removed.
Load ==
  /\ ~alive /\ alive' = TRUE
  /\ IF streamText = NoFileText
     THEN UNCHANGED <<playing, streamText, backup>>
     ELSE IF fromJSON(streamText) = {}
          THEN backup' = streamText /\ streamText' = NoFileText /\ UNCHANGED playing
          ELSE /\ \E configs \in fromJSON(streamText) : playing' = restored(configs)
               /\ UNCHANGED <<streamText, backup>>
  /\ UNCHANGED <<heardAs, activeKind, saving, savedList, added, losses>>

-----------------------------------------------------------------------------
DocumentsInit ==
  /\ playing = {} /\ heardAs = <<>> /\ activeKind \in ActiveKinds
  /\ streamText = NoFileText /\ backup = NoFileText /\ saving = NoFileText
  /\ alive = TRUE /\ savedList = {} /\ added = 0 /\ losses = 0

DocumentsNext ==
  \/ Receive \/ Send \/ RemoveStream \/ SaveBegins \/ SaveEnds \/ Ends \/ BringOlder \/ Load

DocumentsSpec == DocumentsInit /\ [][DocumentsNext]_documentVars

-----------------------------------------------------------------------------
(* Properties *)

\* What a receiver plays is the format its announcement selected: the port of
\* the m= line, and the encoding, rate and width of the rtpmap for that line's
\* payload type, whatever other formats are described and in whatever order,
\* and the packet time to the microsecond, also after restarts from the file.
FormatIsSelected ==
  \A s \in playing : \A id \in DOMAIN heardAs :
    (s.mapping.streamID = id /\ heardAs[id] # <<>>) =>
      LET lines == ToSet(heardAs[id])
          media == CHOOSE l \in lines : l.line = "m"
          formats == {l \in lines : l.line = "rtpmap" /\ l.payloadType = media.payloadType}
      IN  /\ s.sdp.port = media.port
          /\ \A l \in lines : l.line = "ptime" => s.sdp.ptimeUs = microseconds(l.ms)
          /\ formats # {} =>
               \E l \in formats : /\ <<s.sdp.encoding, s.sdp.sampleRate>> = <<l.encoding, l.rate>>
                                  /\ l.channels \in {Absent, s.sdp.numChannels}

\* A session this driver describes is read by this same parser as the session
\* it is: nothing generate() writes is refused, lost or rounded on the way
\* back, down to packet times of a fraction of a millisecond.  The clock is
\* excepted where it has no name, and so are a time to live of zero, which the text
\* does not carry, and a packet time that was rounded to zero (a=ptime:0.0004), which
\* is written as a=ptime:0 and refused.
AnnouncedReadsBack ==
  \A s \in playing :
    LET sent == announced(s.sdp, SentFrom)
        heard == parseString(generate(sent))
        clock == {"ptpDomain", "ptpMasterMAC"}
        named == s.sdp.ptpMasterMAC # Absent /\ ~s.sdp.ptpTraceable
    IN  s.sdp.ttl # 0 /\ s.sdp.ptimeUs # 0 =>
          /\ Cardinality(heard) = 1
          /\ \A h \in heard : \A k \in DOMAIN sent \ {"customAttributes"} :
               k \notin clock \/ named => h[k] = sent[k]

\* What a description says and what a stream is are the same, in both directions.
DescribedTruly == FormatIsSelected /\ AnnouncedReadsBack

\* The names the reader's counting of braces and brackets passes over.
plain(s) == marks[s.sdp.sessionName] = <<>>

persisted(s) ==
  stream([k \in sdpKeys |-> s.sdp[k]], s.mapping, s.isTransmit)

\* What the file was to list of one role and the profile now chosen admits in that role.
due(isTransmit) ==
  {persisted(s) : s \in {s \in savedList : /\ s.isTransmit = isTransmit
                                            /\ admissible(s.sdp, isTransmit)}}
played(streams, isTransmit) == {persisted(s) : s \in {s \in streams : s.isTransmit = isTransmit}}

restarts == ~alive /\ alive' /\ \A s \in savedList : plain(s)

\* After a restart the device plays what the file written last was to list, with
\* its role, format, channels and routes, or it plays nothing and keeps the file
\* aside: a file cut short is never read as a shorter list or with other values,
\* and no receiver the profile admits is lost from a whole file or from one of an older
\* version.  Nor is a transmitter, under a profile for both directions; under one
\* for a single direction it is judged as a receiver, see TransmittersReturn, and only
\* nothing that was not saved is played.  Names with a bracket or a brace in them are
\* the exception.
LoadedIsSaved ==
  [][restarts =>
       CASE streamText = NoFileText -> playing' = {}
         [] streamText' = NoFileText -> playing' = {} /\ backup' = streamText
         [] OTHER -> /\ played(playing', FALSE) = due(FALSE)
                     /\ played(playing', TRUE) \subseteq played(savedList, TRUE)
                     /\ forKind(activeKind).direction \notin {"transmitOnly", "receiveOnly"} =>
                          played(playing', TRUE) = due(TRUE)]_documentVars

\* Refuted: a transmitter the profile admits returns with the restart, the loss of which
\* TxSession.h:55-58 calls "a real bug".  Under a profile that only transmits, every one is
\* refused, being asked for as a receiver.
TransmittersReturn ==
  [][restarts /\ streamText' # NoFileText => due(TRUE) \subseteq played(playing', TRUE)]_documentVars
=============================================================================
