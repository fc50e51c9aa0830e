----------------------------- MODULE StreamFile -----------------------------
(***************************************************************************)
(* StreamConfigManager (aes67-core/NetworkEngine/StreamConfig.cpp): the    *)
(* streams of the device as the JSON text of streams.json, and read back   *)
(* by counting brackets and searching for keys (JsonFields.cpp).           *)
(*                                                                         *)
(* The text is a sequence of tokens.  A brace or a bracket is a token, the *)
(* keys of one object that hold plain values are one token with the record *)
(* of them, and the text of a name is one token per brace or bracket in    *)
(* it: nothing escapes those (JsonEscape.h), and the reader counts them.   *)
(* The times of creation and change are left out.                          *)
(***************************************************************************)
EXTENDS SessionDescription, FiniteSetsExt

CONSTANTS
  marks,          \* the braces and brackets in a name: [names -> Seq(STRING)]
  hostAddresses,  \* the address of each interface, and of Absent: the best one
  NoSuchAddress   \* what an interface that is not there resolves to

kMaxDeviceChannels == 128

emptyMapping ==
  [streamID |-> Absent, streamChannelCount |-> 0, deviceChannelStart |-> 0,
   deviceChannelCount |-> 0, routes |-> <<>>]

\* ChannelMapping::getValidationError() is empty.
mappingIsValid(m) ==
  /\ m.streamID # Absent /\ m.streamChannelCount # 0 /\ m.deviceChannelCount # 0
  /\ m.deviceChannelStart + m.deviceChannelCount =< kMaxDeviceChannels
  /\ \A i \in DOMAIN m.routes : /\ m.routes[i][1] < m.streamChannelCount
                                /\ m.routes[i][2] < kMaxDeviceChannels
  /\ \A i, j \in DOMAIN m.routes : m.routes[i][2] = m.routes[j][2] => i = j

\* PersistedStreamConfig::isValid().
configIsValid(c) == isValid(c.sdp) /\ mappingIsValid(c.mapping)

createConfig(sdp, mapping) ==
  [enabled |-> TRUE, isTransmit |-> FALSE, jitterBufferDepth |-> 0,
   networkInterface |-> Absent, sdp |-> sdp, mapping |-> mapping]

-----------------------------------------------------------------------------
(* Writing *)

token(t) == [t |-> t]
keys(values) == [t |-> "keys", values |-> values]
nameText(name) == [i \in DOMAIN marks[name] |-> token(marks[name][i])]

\* The keys the file has for a session: what a session knows beyond them (the
\* traceable clock, the custom attributes) is not written.
sdpKeys ==
  {"sessionName", "originAddress", "connectionAddress", "ttl", "port", "payloadType",
   "encoding", "sampleRate", "numChannels", "ptimeUs", "framecount", "sourceAddress",
   "ptpDomain", "ptpMasterMAC", "mediaClockType", "direction"}

sdpToJSON(sdp) ==
  <<token("sdp"), token("{")>> \o nameText(sdp.sessionName)
    \o <<keys([k \in sdpKeys |-> sdp[k]]), token("}")>>

\* The routes are laid out flat: stream channel, device channel, and so on.
mappingToJSON(m, name) ==
  <<token("mapping"), token("{")>> \o nameText(name)
    \o <<keys([k \in DOMAIN m |-> IF k = "routes" THEN FlattenSeq(m.routes) ELSE m[k]]),
         token("["), token("]"), token("}")>>

configToJSON(c) ==
  <<token("{"),
    keys([k \in {"enabled", "isTransmit", "jitterBufferDepth", "networkInterface"} |-> c[k]])>>
  \o sdpToJSON(c.sdp) \o mappingToJSON(c.mapping, c.sdp.sessionName) \o <<token("}")>>

toJSON(configs) ==
  <<token("{"), token("streams"), token("[")>>
    \o FlattenSeq([i \in DOMAIN configs |-> configToJSON(configs[i])])
    \o <<token("]"), token("}")>>

-----------------------------------------------------------------------------
(* Reading *)

count(text, t, i, j) == Cardinality({k \in i .. j : text[k].t = t})
depth(text, open, close, i, j) == count(text, open, i, j) - count(text, close, i, j)
least(S) == Min(S)

\* Where the array that opens at start may end: with every bracket closed.
bracketEnd(text, start) ==
  {j \in start .. Len(text) : text[j].t = "]" /\ depth(text, "[", "]", start, j) = 0}

\* The elements of the array: a closing brace at depth zero ends one.
streamObjects(text) ==
  LET ends == {j \in DOMAIN text : text[j].t = "}" /\ depth(text, "{", "}", 1, j) = 0}
      order == SetToSortSeq(ends, <)
  IN  [n \in DOMAIN order |->
         SubSeq(text, IF n = 1 THEN 1 ELSE order[n - 1] + 1, order[n])]

\* The keys found anywhere in a text, and the block of a key: all it has up to
\* the first closing brace, or nothing.
valuesIn(text) ==
  LET read(found, token_) == IF token_.t = "keys" THEN found @@ token_.values ELSE found
  IN  FoldLeft(read, [k \in {} |-> 0], text)
block(text, key) ==
  LET from == {i \in DOMAIN text : text[i].t = key}
      to == {j \in DOMAIN text : from # {} /\ j > least(from) /\ text[j].t = "}"}
  IN  IF to = {} THEN <<>> ELSE SubSeq(text, least(from), least(to))

\* narrowField(): a number its field cannot hold counts as not there.
fits(k, v) ==
  LET limit == [ttl |-> 255, port |-> 65535, payloadType |-> 255, numChannels |-> 65535]
  IN  k \in DOMAIN limit => v =< limit[k]

\* "ptime" is what files written before the packet time moved to microseconds
\* hold, in milliseconds.
sdpFromJSON(json) ==
  [k \in DOMAIN defaults |->
     CASE k \in sdpKeys \cap DOMAIN json /\ fits(k, json[k]) -> json[k]
       [] k = "ptimeUs" /\ "ptimeUs" \notin DOMAIN json /\ "ptime" \in DOMAIN json ->
            json.ptime * 1000
       [] OTHER -> defaults[k]]

\* A pair that is only half there is dropped.  "channelMap" is the older shape:
\* a device channel for each stream channel in order, -1 for one not carried.
mappingFromJSON(json) ==
  LET pair(i) == <<json.routes[2 * i - 1] % 65536, json.routes[2 * i] % 65536>>
      older == [i \in DOMAIN json.channelMap |-> <<i - 1, json.channelMap[i]>>]
      carried(route) == route[2] >= 0
  IN  [k \in DOMAIN emptyMapping |->
         CASE k = "routes" -> CASE "routes" \in DOMAIN json ->
                                     [i \in 1 .. Len(json.routes) \div 2 |-> pair(i)]
                                [] "channelMap" \in DOMAIN json -> SelectSeq(older, carried)
                                [] OTHER -> <<>>
           [] k \in DOMAIN json /\ k # "routes" -> json[k]
           [] OTHER -> emptyMapping[k]]

\* "auto", an empty text and no text at all ask for the best interface; a name
\* is resolved, and kept as it is when no interface has it.
interfaceFromJSON(json) ==
  LET spec == IF "networkInterface" \in DOMAIN json THEN json.networkInterface ELSE Absent
  IN  IF spec \in DOMAIN hostAddresses /\ hostAddresses[spec] # NoSuchAddress
      THEN hostAddresses[spec] ELSE spec

\* Mutant: the role is always taken from the announced direction.
roleFromJSON_inferred(json, sdp) == sdp.direction \in {"sendonly", "sendrecv"}

\* A file written before the role was has only the direction to go by.
roleFromJSON(json, sdp) ==
  IF "isTransmit" \in DOMAIN json THEN json.isTransmit
  ELSE sdp.direction \in {"sendonly", "sendrecv"}

\* configFromJSON(): the configuration, or nothing when it is not valid.
configFromJSON(text) ==
  LET json == valuesIn(text)
      sdp == sdpFromJSON(valuesIn(block(text, "sdp")))
      config ==
        [enabled |-> IF "enabled" \in DOMAIN json THEN json.enabled ELSE TRUE,
         isTransmit |-> roleFromJSON(json, sdp),
         jitterBufferDepth |-> IF "jitterBufferDepth" \in DOMAIN json
                               THEN json.jitterBufferDepth ELSE 0,
         networkInterface |-> interfaceFromJSON(json),
         sdp |-> sdp, mapping |-> mappingFromJSON(valuesIn(block(text, "mapping")))]
  IN  IF configIsValid(config) THEN <<config>> ELSE <<>>

\* fromJSON(): the set of the configurations, empty when the text is corrupt.
fromJSON(text) ==
  LET named == {i \in DOMAIN text : text[i].t = "streams"}
      opens == {i \in DOMAIN text : named # {} /\ i > least(named) /\ text[i].t = "["}
      ends == IF opens = {} THEN {} ELSE bracketEnd(text, least(opens))
      objects == streamObjects(SubSeq(text, least(opens) + 1, least(ends) - 1))
  IN  IF ends = {} THEN {}
      ELSE {FlattenSeq([i \in DOMAIN objects |-> configFromJSON(objects[i])])}
=============================================================================
