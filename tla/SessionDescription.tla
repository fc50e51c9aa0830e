------------------------- MODULE SessionDescription -------------------------
(***************************************************************************)
(* SDPParser (aes67-core/Driver/SDPParser.cpp): a session description is   *)
(* read line by line into an SDPSession and written back as lines.         *)
(*                                                                         *)
(* A line is a record of its letter (or, for a=, of its attribute) and the *)
(* values it carries; Malformed marks a line of a known kind with too few  *)
(* parts or text where a number belongs.  Reading a line answers a set:    *)
(* the session with the line's values in it, or nothing when the line      *)
(* refuses the whole description.  The fields nothing tells apart (the     *)
(* user name, the network and address types, the media type, the           *)
(* transport, the session times) are left out.                             *)
(***************************************************************************)
EXTENDS Integers, Sequences, SequencesExt

CONSTANTS
  Absent,     \* an empty text, or a value a line leaves out
  MulticastAddresses,  \* the addresses that are groups
  Malformed   \* in place of a part that is missing or is not a number

\* SDPSession{}: what a description that says nothing describes.
defaults ==
  [sessionName |-> Absent, originAddress |-> Absent, connectionAddress |-> Absent,
   ttl |-> 32, port |-> 5004, payloadType |-> 97, encoding |-> "L24",
   sampleRate |-> 48000, numChannels |-> 2, ptimeUs |-> 1000, framecount |-> 0,
   sourceAddress |-> Absent, ptpDomain |-> 0, ptpMasterMAC |-> Absent,
   ptpTraceable |-> FALSE, mediaClockType |-> "direct=0", direction |-> "recvonly",
   customAttributes |-> [k \in {} |-> Absent]]

isValid(s) ==
  /\ s.sessionName # Absent /\ s.connectionAddress # Absent
  /\ s.port # 0 /\ s.sampleRate # 0 /\ s.numChannels # 0
  /\ s.encoding \in {"L16", "L24", "AM824"}

-----------------------------------------------------------------------------
(* Numbers as text *)

\* A decimal count of milliseconds: the digits before and after the point.
decimal(whole, digits) == [whole |-> whole, digits |-> digits]

\* Mutant: a packet time is written as a whole number of milliseconds.
formatPTimeMs_whole(us) == decimal(us \div 1000, <<>>)

\* formatPTimeMs(): three decimals, and then without the zeros at their end.
formatPTimeMs(us) ==
  LET three == <<(us \div 100) % 10, (us \div 10) % 10, us % 10>>
      kept == {n \in 0 .. 3 : \A i \in n + 1 .. 3 : three[i] = 0}
  IN  decimal(us \div 1000, SubSeq(three, 1, CHOOSE n \in kept : \A m \in kept : n =< m))

\* lround(ms * 1000), of up to four decimals.
microseconds(d) ==
  LET digit(i) == IF i \in DOMAIN d.digits THEN d.digits[i] ELSE 0
  IN  1000 * d.whole + 100 * digit(1) + 10 * digit(2) + digit(3)
        + IF digit(4) >= 5 THEN 1 ELSE 0

hasFraction(d) == \E i \in DOMAIN d.digits : d.digits[i] > 0

-----------------------------------------------------------------------------
(* Reading *)

parseOriginLine(l, s) ==
  IF Malformed \in {l.address, l.id} \/ l.address = Absent THEN {}
  ELSE {[s EXCEPT !.originAddress = l.address]}

\* stoi() into a uint8_t: the time to live is reduced modulo its width, and
\* what is not a number is the default.
parseConnectionLine(l, s) ==
  IF l.address = Malformed THEN {}
  ELSE {[s EXCEPT !.connectionAddress = l.address,
                  !.ttl = CASE l.ttl = Absent -> @
                            [] l.ttl = Malformed -> 32
                            [] OTHER -> l.ttl % 256]}

parseMediaLine(l, s) ==
  IF l.port \in 0 .. 65535 /\ l.payloadType \in 0 .. 127
  THEN {[s EXCEPT !.port = l.port, !.payloadType = l.payloadType]}
  ELSE {}

\* The line is validated first and only then asked whether it is for the
\* payload type the m= line selected.
parseRTPMapAttribute(l, s) ==
  CASE l.payloadType = Malformed \/ l.rate = Malformed -> {}
    [] l.channels # Absent /\ l.channels \notin 1 .. 65535 -> {}
    [] l.payloadType # s.payloadType -> {s}
    [] OTHER -> {[s EXCEPT !.encoding = l.encoding, !.sampleRate = l.rate,
                           !.numChannels = IF l.channels = Absent THEN @ ELSE l.channels]}

parsePTimeAttribute(l, s) ==
  IF \/ l.ms = Malformed
     \/ l.ms.whole = 0 /\ ~hasFraction(l.ms)
     \/ l.ms.whole > 1000
     \/ l.ms.whole = 1000 /\ hasFraction(l.ms)
  THEN {} ELSE {[s EXCEPT !.ptimeUs = microseconds(l.ms)]}

parseFrameCountAttribute(l, s) ==
  IF l.count = Malformed THEN {} ELSE {[s EXCEPT !.framecount = l.count]}

parseSourceFilterAttribute(l, s) ==
  IF l.source = Malformed THEN {} ELSE {[s EXCEPT !.sourceAddress = l.source]}

\* The traceable form, the two forms that name a grandmaster and a domain, the
\* form without a domain, and one this parser does not know, which it passes
\* over.  A domain that is not a number leaves the one there was.
parsePTPRefClockAttribute(l, s) ==
  CASE l.form = "traceable" -> {[s EXCEPT !.ptpTraceable = TRUE, !.ptpMasterMAC = Absent]}
    [] l.form = "ptp" -> {[s EXCEPT !.ptpMasterMAC = l.mac,
                                    !.ptpDomain = IF l.domain \in {Absent, Malformed}
                                                  THEN @ ELSE l.domain]}
    [] OTHER -> {s}

parseAttributeLine(l, s) ==
  CASE l.line = "rtpmap" -> parseRTPMapAttribute(l, s)
    [] l.line = "ptime" -> parsePTimeAttribute(l, s)
    [] l.line = "framecount" -> parseFrameCountAttribute(l, s)
    [] l.line = "source-filter" -> parseSourceFilterAttribute(l, s)
    [] l.line = "ts-refclk" -> parsePTPRefClockAttribute(l, s)
    [] l.line = "mediaclk" -> {[s EXCEPT !.mediaClockType = l.value]}
    [] l.line = "direction" -> {[s EXCEPT !.direction = l.value]}
    [] OTHER -> {[s EXCEPT !.customAttributes = (l.line :> l.value) @@ @]}

parseLine(l, s) ==
  CASE l.line = "v" -> IF l.version = 0 THEN {s} ELSE {}
    [] l.line = "o" -> parseOriginLine(l, s)
    [] l.line = "s" -> {[s EXCEPT !.sessionName = l.name]}
    [] l.line = "c" -> parseConnectionLine(l, s)
    [] l.line = "m" -> parseMediaLine(l, s)
    [] OTHER -> parseAttributeLine(l, s)

\* parseString(): line after line, and then the whole has to be valid.
parseString(text) ==
  LET next(sessions, l) == UNION {parseLine(l, s) : s \in sessions}
  IN  {s \in FoldLeft(next, {defaults}, text) : isValid(s)}

-----------------------------------------------------------------------------
(* Writing *)

oLine(address, id) == [line |-> "o", address |-> address, id |-> id]
sLine(name) == [line |-> "s", name |-> name]
cLine(address, ttl) == [line |-> "c", address |-> address, ttl |-> ttl]
mLine(port, pt) == [line |-> "m", port |-> port, payloadType |-> pt]
rtpmap(pt, encoding, rate, channels) ==
  [line |-> "rtpmap", payloadType |-> pt, encoding |-> encoding, rate |-> rate,
   channels |-> channels]
ptime(ms) == [line |-> "ptime", ms |-> ms]
framecount(n) == [line |-> "framecount", count |-> n]
sourceFilter(source) == [line |-> "source-filter", source |-> source]
tsRefclk(form, mac, domain) ==
  [line |-> "ts-refclk", form |-> form, mac |-> mac, domain |-> domain]
attribute(key, value) == [line |-> key, value |-> value]

generateConnectionLine(s) ==
  cLine(s.connectionAddress, IF s.ttl # 0 THEN s.ttl ELSE Absent)

optional(condition, l) == IF condition THEN <<l>> ELSE <<>>

\* A grandmaster is named with its domain or not at all, and the domain is
\* written a second time as clock-domain unless the session already carries one.
generateAttributes(s) ==
  LET named == ~s.ptpTraceable /\ s.ptpDomain >= 0 /\ s.ptpMasterMAC # Absent
      custom == SetToSeq(DOMAIN s.customAttributes)
  IN  <<rtpmap(s.payloadType, s.encoding, s.sampleRate, s.numChannels),
        ptime(formatPTimeMs(s.ptimeUs))>>
      \o optional(s.framecount > 0, framecount(s.framecount))
      \o <<attribute("direction", s.direction)>>
      \o optional(s.sourceAddress # Absent, sourceFilter(s.sourceAddress))
      \o optional(s.ptpTraceable, tsRefclk("traceable", Absent, Absent))
      \o optional(named, tsRefclk("ptp", s.ptpMasterMAC, s.ptpDomain))
      \o optional(s.ptpDomain >= 0 /\ "clock-domain" \notin DOMAIN s.customAttributes,
                  attribute("clock-domain", s.ptpDomain))
      \o optional(s.mediaClockType # Absent, attribute("mediaclk", s.mediaClockType))
      \o [i \in DOMAIN custom |-> attribute(custom[i], s.customAttributes[custom[i]])]

\* generate(): the connection line goes out twice, for the readers that look
\* at one level only.
generate(s) ==
  <<[line |-> "v", version |-> 0], oLine(s.originAddress, 1), sLine(s.sessionName),
    generateConnectionLine(s), mLine(s.port, s.payloadType), generateConnectionLine(s)>>
  \o generateAttributes(s)

-----------------------------------------------------------------------------
(* Sessions this program makes itself *)

\* announcedTxSession(): the direction is left to say recvonly, which is what
\* the session is to whoever reads it.
announcedTxSession(name, multicast, port, channels, rate) ==
  [defaults EXCEPT !.sessionName = name, !.connectionAddress = multicast, !.port = port,
     !.numChannels = channels, !.sampleRate = rate]

\* nameOwnSource(): a multicast session that names no source names the address
\* it originates at.
nameOwnSource(s) ==
  IF s.sourceAddress = Absent /\ s.connectionAddress \in MulticastAddresses
  THEN [s EXCEPT !.sourceAddress = s.originAddress] ELSE s

\* What the announcer, and the RTSP server, say of a session: it originates at
\* the interface it is announced on, unless it says where.
announced(s, interface) ==
  nameOwnSource([s EXCEPT !.originAddress = IF @ = Absent THEN interface ELSE @])
=============================================================================
