------------------------------ MODULE Profiles ------------------------------
(***************************************************************************)
(* CompatibilityProfile (aes67-profiles): what each family of equipment    *)
(* accepts, the check of a stream against it, and the table of the same    *)
(* profiles the manager app keeps by hand (DriverManager.swift).  A kind   *)
(* is named by its text in the settings file.                              *)
(***************************************************************************)
EXTENDS Integers, Sequences, FiniteSets

CONSTANTS
  NoText,          \* an empty text
  PrefixAddresses  \* the addresses of 239.69.0.0/16

\* CompatibilityProfile{}: an empty set of rates, packet times or encodings
\* permits any.
anyProfile ==
  [kind |-> "aes67", allowedSampleRates |-> {}, allowedPtimesUs |-> {},
   allowedEncodings |-> {}, maxChannelsPerFlow |-> 8, requiredMulticastPrefix |-> NoText,
   domainIsFixed |-> FALSE, fixedDomain |-> 0, recommendedPtpDomain |-> -1,
   recommendedMulticastAddress |-> NoText, recommendedDscp |-> -1, direction |-> "any",
   ptpRole |-> "any", maxTotalChannels |-> 0, maxUnits |-> 1,
   useFixedMulticastWithPerFlowSourcePort |-> FALSE, usesLanAutoDetection |-> FALSE,
   requiresZeroRtpTimestampOffset |-> FALSE, usesSap |-> TRUE, usesDnsSdRtsp |-> FALSE,
   usesNmos |-> FALSE]

makeAES67Profile ==
  [anyProfile EXCEPT !.allowedSampleRates = {44100, 48000, 96000},
     !.allowedPtimesUs = {1000}, !.allowedEncodings = {"L16", "L24"},
     !.domainIsFixed = TRUE, !.usesDnsSdRtsp = TRUE]

makeRavennaProfile ==
  [anyProfile EXCEPT !.kind = "ravenna",
     !.allowedSampleRates = {44100, 48000, 88200, 96000, 176400, 192000, 352800, 384000},
     !.allowedEncodings = {"L16", "L24"}, !.maxChannelsPerFlow = 64,
     !.recommendedDscp = 46, !.recommendedPtpDomain = 0,
     !.usesDnsSdRtsp = TRUE, !.usesNmos = TRUE]

makeSt2110Profile(kind, ptimeUs) ==
  [anyProfile EXCEPT !.kind = kind, !.allowedSampleRates = {48000},
     !.allowedPtimesUs = {ptimeUs}, !.allowedEncodings = {"L16", "L24"},
     !.requiresZeroRtpTimestampOffset = TRUE, !.usesSap = FALSE, !.usesNmos = TRUE]

makeDanteProfile ==
  [anyProfile EXCEPT !.kind = "dante", !.allowedSampleRates = {48000},
     !.allowedPtimesUs = {1000}, !.allowedEncodings = {"L24"}, !.domainIsFixed = TRUE,
     !.recommendedDscp = 46, !.requiredMulticastPrefix = "239.69"]

makeDolbyProfile ==
  [anyProfile EXCEPT !.kind = "dolby", !.allowedSampleRates = {48000, 96000},
     !.allowedPtimesUs = {1000}, !.allowedEncodings = {"L16", "L24"},
     !.recommendedPtpDomain = 109, !.recommendedMulticastAddress = "239.81.83.67",
     !.recommendedDscp = 46, !.useFixedMulticastWithPerFlowSourcePort = TRUE,
     !.usesSap = FALSE]

\* An amplifier is fed by this driver and follows its clock; a processor feeds
\* it and leads.
makeDolbyModelProfile(kind, channels, direction, dscp) ==
  [makeDolbyProfile EXCEPT !.kind = kind, !.maxTotalChannels = channels,
     !.recommendedDscp = dscp, !.direction = direction,
     !.ptpRole = IF direction = "transmitOnly" THEN "forcedMaster" ELSE "forcedSlave",
     !.maxUnits = IF direction = "transmitOnly" THEN 3 ELSE 1]

allProfiles ==
  {makeAES67Profile, makeRavennaProfile, makeSt2110Profile("st2110-30", 1000),
   makeSt2110Profile("st2110-30-b", 125), makeDanteProfile, makeDolbyProfile,
   makeDolbyModelProfile("dolby-dac3202", 32, "transmitOnly", 46),
   makeDolbyModelProfile("dolby-dma16", 16, "transmitOnly", -1),
   makeDolbyModelProfile("dolby-dma24", 24, "transmitOnly", -1),
   makeDolbyModelProfile("dolby-dma32", 32, "transmitOnly", -1),
   makeDolbyModelProfile("dolby-cp850", 64, "receiveOnly", 46),
   makeDolbyModelProfile("dolby-cp950", 16, "receiveOnly", 46),
   makeDolbyModelProfile("dolby-cp950a", 64, "receiveOnly", 46),
   [makeDolbyProfile EXCEPT !.kind = "dolby-lan", !.maxUnits = 3,
      !.usesLanAutoDetection = TRUE]}

kinds == {p.kind : p \in allProfiles}
forKind(kind) == CHOOSE p \in allProfiles : p.kind = kind

formerKinds == {"cp850", "cp950", "dac3202", "dma"}

\* The former ids of the single models are the profile that discovers them;
\* a text nobody knows is the baseline.
kindFromString(text) ==
  CASE text \in kinds -> text
    [] text \in formerKinds -> "dolby-lan"
    [] OTHER -> "aes67"

addressHasPrefix(address, prefix) == prefix = "239.69" /\ address \in PrefixAddresses

\* validate(): a packet time of zero and a domain of -1 say nothing, and what
\* says nothing is not held against a stream.
validate(p, stream, isTransmit) ==
  /\ p.direction # IF isTransmit THEN "receiveOnly" ELSE "transmitOnly"
  /\ p.allowedSampleRates = {} \/ stream.sampleRate \in p.allowedSampleRates
  /\ p.allowedPtimesUs = {} \/ stream.ptimeUs = 0 \/ stream.ptimeUs \in p.allowedPtimesUs
  /\ p.allowedEncodings = {} \/ stream.encoding \in p.allowedEncodings
  /\ stream.numChannels =< p.maxChannelsPerFlow
  /\ \/ p.requiredMulticastPrefix = NoText
     \/ addressHasPrefix(stream.connectionAddress, p.requiredMulticastPrefix)
  /\ ~p.domainIsFixed \/ stream.ptpDomain \in {-1, p.fixedDomain}

-----------------------------------------------------------------------------
(* The app's table: what its windows show of a profile *)

option(id, recommendedPtpDomain, dscp, rates, ptimes, encodings, prefix) ==
  [kind |-> id, domainIsFixed |-> FALSE, fixedDomain |-> 0,
   recommendedPtpDomain |-> recommendedPtpDomain, direction |-> "any",
   maxTotalChannels |-> 0, ptpRole |-> "any", maxUnits |-> 1,
   recommendedMulticastAddress |-> NoText, recommendedDscp |-> dscp,
   allowedSampleRates |-> rates, allowedPtimesUs |-> ptimes, allowedEncodings |-> encodings,
   useFixedMulticastWithPerFlowSourcePort |-> FALSE, requiredMulticastPrefix |-> prefix,
   usesLanAutoDetection |-> FALSE]

compatibilityProfilesGeneric ==
  {[option("aes67", -1, -1, {44100, 48000, 96000}, {1000}, {"L16", "L24"}, NoText) EXCEPT
      !.domainIsFixed = TRUE],
   option("ravenna", 0, 46, {44100, 48000, 88200, 96000, 176400, 192000, 352800, 384000}, {},
          {"L16", "L24"}, NoText),
   option("st2110-30", -1, -1, {48000}, {1000}, {"L16", "L24"}, NoText),
   option("st2110-30-b", -1, -1, {48000}, {125}, {"L16", "L24"}, NoText),
   [option("dante", -1, 46, {48000}, {1000}, {"L24"}, "239.69") EXCEPT !.domainIsFixed = TRUE]}

dolbyOption(id) ==
  [option(id, 109, 46, {48000, 96000}, {1000}, {"L16", "L24"}, NoText) EXCEPT
     !.recommendedMulticastAddress = "239.81.83.67",
     !.useFixedMulticastWithPerFlowSourcePort = TRUE]

dolbyModelProfile(id, channels, direction, dscp) ==
  [dolbyOption(id) EXCEPT !.maxTotalChannels = channels, !.recommendedDscp = dscp,
     !.direction = direction,
     !.ptpRole = IF direction = "transmitOnly" THEN "forcedMaster" ELSE "forcedSlave",
     !.maxUnits = IF direction = "transmitOnly" THEN 3 ELSE 1]

dolbyModelProfiles ==
  {dolbyModelProfile("dolby-dac3202", 32, "transmitOnly", 46),
   dolbyModelProfile("dolby-dma16", 16, "transmitOnly", -1),
   dolbyModelProfile("dolby-dma24", 24, "transmitOnly", -1),
   dolbyModelProfile("dolby-dma32", 32, "transmitOnly", -1),
   dolbyModelProfile("dolby-cp850", 64, "receiveOnly", 46),
   dolbyModelProfile("dolby-cp950", 16, "receiveOnly", 46),
   dolbyModelProfile("dolby-cp950a", 64, "receiveOnly", 46)}

dolbyLANProfile ==
  [dolbyOption("dolby-lan") EXCEPT !.maxUnits = 3, !.usesLanAutoDetection = TRUE]

compatibilityProfiles ==
  compatibilityProfilesGeneric \cup {dolbyOption("dolby"), dolbyLANProfile}
    \cup dolbyModelProfiles

\* activeCompatibilityProfile: the option with the id, or the first.
optionFor(id) ==
  CHOOSE o \in compatibilityProfiles :
    o.kind = IF \E p \in compatibilityProfiles : p.kind = id THEN id ELSE "aes67"
=============================================================================
