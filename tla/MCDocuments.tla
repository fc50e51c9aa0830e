---------------------------- MODULE MCDocuments ----------------------------
(***************************************************************************)
(* What is written down and read again, in two instances that share no     *)
(* variable: descriptions and the stream file, and the settings files the  *)
(* manager app writes and the driver reads.                                *)
(***************************************************************************)
EXTENDS Documents, Settings, TLC

MCMarks == [n \in {"plain", "open"} |-> IF n = "open" THEN <<"]">> ELSE <<>>]
MCHostAddresses == [n \in {Absent, "en0"} |-> IF n = "en0" THEN "10.0.0.7" ELSE "10.0.0.1"]

described(name, port, pt, formats, rest) ==
  <<[line |-> "v", version |-> 0], oLine("10.0.0.9", 1), sLine(name), cLine("239.69.0.1", 300),
    mLine(port, pt)>> \o formats \o rest
L24 == rtpmap(97, "L24", 48000, 8)
L16 == rtpmap(96, "L16", 48000, Absent)
MCHeardTexts ==
  {described("plain", 5004, 97, <<L24, L16>>, <<ptime(decimal(1, <<>>))>>),
   described("plain", 5006, 96, <<L24, L16>>,
             <<ptime(decimal(0, <<1, 2, 5>>)), tsRefclk("ptp", "mac", 3)>>),
   described("plain", 5004, 96, <<L16, L24>>,
             <<ptime(decimal(0, <<3, 3, 3>>)), tsRefclk("traceable", Absent, Absent),
               sourceFilter("10.0.0.9"), framecount(16)>>),
   described("open", 5004, 97, <<L24>>, <<attribute("sync-time", 0), ptime(decimal(0, <<0, 0, 0, 4>>))>>),
   described("plain", 70000, 97, <<L24>>, <<>>),
   described("plain", 5004, 97, <<rtpmap(97, "L24", 48000, 70000)>>, <<>>),
   described("plain", 5004, 97, <<L24>>, <<ptime(decimal(0, <<>>))>>)}

MCRouteLists == {<<>>, <<<<0, 5>>, <<1, 4>>>>}

olderSession ==
  [defaults EXCEPT !.sessionName = "plain", !.originAddress = "10.0.0.9",
     !.connectionAddress = "239.69.0.3", !.direction = "sendonly"]
olderMapping(routes) == [emptyMapping EXCEPT !.streamID = 9, !.streamChannelCount = 2, !.deviceChannelStart = 64,
                                             !.deviceChannelCount = 2, !.routes = routes]
\* Without a role, with a packet time in milliseconds, an older list of channels,
\* a port no port can be, and listed twice.
olderEntry ==
  <<token("{"), keys([enabled |-> TRUE]), token("sdp"), token("{"),
    keys([k \in (sdpKeys \ {"ptimeUs"}) \cup {"ptime"} |->
            CASE k = "ptime" -> 1 [] k = "port" -> 70000 [] OTHER -> olderSession[k]]),
    token("}"), token("mapping"), token("{"),
    keys([k \in (DOMAIN emptyMapping \ {"routes"}) \cup {"channelMap"} |->
            IF k = "channelMap" THEN <<70, -1>> ELSE olderMapping(<<>>)[k]]),
    token("["), token("]"), token("}"), token("}")>>
MCOlderFiles ==
  {<<<<token("{"), token("streams"), token("[")>> \o olderEntry \o olderEntry
       \o <<token("]"), token("}")>>,
     {stream(olderSession, olderMapping(<<<<0, 70>>>>), TRUE)}>>}

MCHandFiles ==
  {<<"profile", [profile |-> "dma"], TRUE>>, <<"profile", [profile |-> "none"], FALSE>>,
   <<"channels", [rxChannelCount |-> 12, txChannelCount |-> 64], FALSE>>,
   <<"channels", [txChannelCount |-> 128, txAux |-> TRUE], FALSE>>,
   <<"unit", [unitIndex |-> 7, chainUnitChannels |-> <<16>>], FALSE>>,
   <<"unit", [unitIndex |-> 3, playoutDelaySamples |-> 9600], FALSE>>,
   <<"unit", [unitIndex |-> Word + 2, chainUnitChannels |-> <<-16>>], FALSE>>,
   <<"unit", [playoutDelaySamples |-> Long], FALSE>>,
   <<"ptp", [logSyncInterval |-> 200, priority1 |-> 300], FALSE>>,
   <<"ptp", [logSyncInterval |-> Word, priority1 |-> Word], FALSE>>,
   <<"ptp", [ptpEnabled |-> TRUE, syncIntervalMs |-> 60], TRUE>>,
   <<"ptp", [syncIntervalMs |-> 1], FALSE>>}
MCStartFiles ==
  {<<>>,
   [active |-> FALSE, profile |-> "dolby-lan", unit |-> unitSettings(2, <<>>, 0),
    channels |-> [rx |-> selection(64, FALSE), tx |-> selection(120, TRUE)]]}
MCChains == {<<16>>, <<0, 32>>}

\* The sizes are the amplifiers' there are.
ASSUME MCChainsInRange == ChainsInRange

VARIABLE part

allVars == <<part, documentVars, settingsVars>>

\* The part that waits does so in one of its initial states.
MCInit ==
  /\ part \in {"documents", "settings"}
  /\ DocumentsInit /\ SettingsInit
  /\ part = "settings" => activeKind = "ravenna"
  /\ part = "documents" => \A f \in SettingsFiles : disk[f] = missing

MCNext ==
  /\ UNCHANGED part
  /\ \/ part = "documents" /\ DocumentsNext /\ UNCHANGED settingsVars
     \/ part = "settings" /\ SettingsNext /\ UNCHANGED documentVars

MCSpec == MCInit /\ [][MCNext]_allVars
=============================================================================
