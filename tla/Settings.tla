------------------------------ MODULE Settings ------------------------------
(***************************************************************************)
(* The settings files the manager app (DriverManager.swift) writes and the *)
(* driver reads once, when Core Audio constructs it.                       *)
(*                                                                         *)
(* The app changes what it shows and then copies the file into place       *)
(* behind an administrator prompt, which may be refused; a copy cut short  *)
(* leaves a torn file.  The app reads a file as JSON, all of it or none;   *)
(* the driver searches it for keys and takes the ones that are there       *)
(* (JsonFields.cpp).  A file is the function of its keys, and whether it   *)
(* is whole; one that is missing has no keys.  Settings only carried along *)
(* (the clock source's name, clock class and accuracy, the other           *)
(* intervals, the delay mechanism) take the path of those kept here.       *)
(***************************************************************************)
EXTENDS Profiles, FiniteSetsExt

CONSTANTS
  Counts,      \* the channel counts somebody selects
  ProfileIds,  \* the profiles somebody selects
  Chains,      \* the sizes of the units before this one
  HandFiles,   \* the files somebody may leave there: <<name, keys, written by
               \* an older version of the app>>
  StartFiles,  \* the files an earlier use of the app may have left
  Word, Long,  \* how many values a uint32_t and an unsigned long have: 2^32 and 2^64,
               \* of which TLC, without room for them, gets smaller ones
  MaxTorn,     \* bound: keys in a copy that is cut short
  MaxEdits,    \* bound: settings changed
  MaxFaults,   \* bound: refused prompts, losses of power, files left by hand
  MaxIds       \* bound: node ids ever generated

VARIABLES
  disk,       \* the files, by name
  shown,      \* what the app's windows show, or Off
  job,        \* the privileged copy under way, or NoJob
  readback,   \* the flags to be read back a second after their script
  installed,  \* the driver bundle is in place
  registered, \* the PTP daemon is registered
  up,         \* Core Audio has constructed the plug-in
  running,    \* the settings the device runs with, or Off: nothing published
  stored,     \* the node id in the host's storage, 0 for none
  ids,        \* node ids generated so far
  standing,   \* history: per file, is it whole and the app's, is it what the
              \* app shows, has the plug-in been constructed since
  edits, faults
settingsVars == <<disk, shown, job, readback, installed, registered, up, running, stored,
                  ids, standing, edits, faults>>

Off == [off |-> TRUE]
NoJob == [file |-> "none"]
SettingsFiles == {"channels", "unit", "profile", "ptp", "active", "discovery"}
file(whole, o) == [whole |-> whole, keys |-> o]
missing == file(FALSE, <<>>)
field(o, k, default) == IF k \in DOMAIN o THEN o[k] ELSE default

\* The app: a number that is no Int is not there.
signed(n, values) == -values =< 2 * n /\ 2 * n < values
SwiftInts == {n \in Int : signed(n, Long)}
swiftField(o, k, default) ==
  IF k \in DOMAIN o /\ o[k] \in SwiftInts THEN o[k] ELSE default

\* The driver: \d+ does not match a minus sign; what does not fit is not there.
unsignedAt(o, k) == k \in DOMAIN o /\ o[k] >= 0
extractUInt32Field(o, k, default) ==
  IF unsignedAt(o, k) /\ o[k] < Word THEN o[k] ELSE default
extractIntField(o, k, default) ==
  IF k \in DOMAIN o /\ signed(o[k], Word) THEN o[k] ELSE default

-----------------------------------------------------------------------------
(* Channel counts: DeviceChannelSettings.cpp and its copy in the app *)

kChannelGroupSize == 8
maxChannels == 128
allowedChannelCounts == {kChannelGroupSize * n : n \in 1 .. maxChannels \div kChannelGroupSize}
selection(n, aux) == [count |-> n, aux |-> aux]
auxFits(n) == n + kChannelGroupSize =< maxChannels
totalChannelCount(s) ==
  Min({s.count + IF s.aux THEN kChannelGroupSize ELSE 0, maxChannels})
selectionIsValid(s) == s.count \in allowedChannelCounts /\ (s.aux => auxFits(s.count))

\* The app: each field on its own.
loadDeviceChannelSettings(o) ==
  LET read(k, aux) ==
        LET n == IF field(o, k, 128) \in allowedChannelCounts THEN field(o, k, 128) ELSE 128
        IN  selection(n, field(o, aux, FALSE) /\ auxFits(n))
  IN  [rx |-> read("rxChannelCount", "rxAux"), tx |-> read("txChannelCount", "txAux")]

\* saveDeviceChannelSettings() first drops an auxiliary group that does not
\* fit: the driver would refuse the whole file.
consistent(c) ==
  [s \in {"rx", "tx"} |-> selection(c[s].count, c[s].aux /\ auxFits(c[s].count))]

saveDeviceChannelSettings(c) ==
  [rxChannelCount |-> c.rx.count, rxAux |-> c.rx.aux,
   txChannelCount |-> c.tx.count, txAux |-> c.tx.aux]

\* The driver: the whole file or the defaults.
parsedChannels(o) ==
  [rx |-> selection(extractUInt32Field(o, "rxChannelCount", 128), field(o, "rxAux", FALSE)),
   tx |-> selection(extractUInt32Field(o, "txChannelCount", 128), field(o, "txAux", FALSE))]
channelsAreValid(o) ==
  selectionIsValid(parsedChannels(o).rx) /\ selectionIsValid(parsedChannels(o).tx)
loadChannels(o) ==
  IF channelsAreValid(o) THEN parsedChannels(o)
  ELSE [rx |-> selection(128, FALSE), tx |-> selection(128, FALSE)]

-----------------------------------------------------------------------------
(* The amplifier unit and the playout delay: AmplifierUnitSettings.cpp *)

kMaxSamples == 4800
unitSettings(unit, chain, delay) ==
  [unitIndex |-> unit, chainUnitChannels |-> chain, playoutDelaySamples |-> delay]
orZero(delay) == IF delay \in 0 .. kMaxSamples THEN delay ELSE 0

\* The app: each on its own, and the chain whole or not at all.
loadAmplifierUnit(o) ==
  LET unit == field(o, "unitIndex", 1)
      chain == field(o, "chainUnitChannels", <<>>)
  IN  unitSettings(IF unit \in 1 .. 3 THEN unit ELSE 1,
                   IF \A i \in DOMAIN chain : chain[i] \in SwiftInts THEN chain ELSE <<>>,
                   orZero(field(o, "playoutDelaySamples", 0)))

\* The driver: stoul() and a cast to 32 bits, of the digits only.  A unit index out of
\* range takes the chain with it; the delay is read apart.
stoul(o, k, default) == IF unsignedAt(o, k) THEN o[k] % Word ELSE default
magnitude(n) == IF n < 0 THEN -n ELSE n
digits(chain) == [i \in DOMAIN chain |-> magnitude(chain[i]) % Word]
loadUnit(o) ==
  LET unit == stoul(o, "unitIndex", 1)
      delay == orZero(stoul(o, "playoutDelaySamples", 0))
  IN  IF unit \in 1 .. 3
      THEN unitSettings(unit, digits(field(o, "chainUnitChannels", <<>>)), delay)
      ELSE unitSettings(1, <<>>, delay)

\* Digits of more than an unsigned long: nothing on the way catches what stoul() throws
\* but Create(), which then has no driver to return.
stoulThrows(o) ==
  \/ \E k \in {"unitIndex", "playoutDelaySamples"} : unsignedAt(o, k) /\ o[k] >= Long
  \/ \E i \in DOMAIN field(o, "chainUnitChannels", <<>>) :
       magnitude(o.chainUnitChannels[i]) >= Long

\* The flows of eight channels that the units before this one take, a chain having three:
\* flowOffsetForUnit() in 32 bits, and the app's txSourcePorts() in its own 64.
channelsOf(chain, fallback, i) ==
  IF i \in DOMAIN chain /\ chain[i] > 0 THEN chain[i] ELSE fallback
flowOffsetForUnit(chain, fallback, unit) ==
  LET flows(i) == IF i < unit THEN ((channelsOf(chain, fallback, i) + 7) % Word) \div 8 ELSE 0
  IN  (flows(1) + flows(2)) % Word
txSourcePortOffset(chain, fallback, unit) ==
  LET flows(i) == IF i < unit THEN (channelsOf(chain, fallback, i) + 7) \div 8 ELSE 0
  IN  flows(1) + flows(2)

clampedUnit(unit, maxUnits) == Min({unit, maxUnits})

-----------------------------------------------------------------------------
(* PTP: PTPMasterSettings.cpp, PTPIntervals.h, PTPSettingsMapping.cpp *)

\* lround(log2(ms / 1000)): the greatest n with ms^2 >= 10^6 * 2^(2n - 1), which is -10
\* for one millisecond and 21 for the greatest int.  (The comparison with 707 spares TLC
\* the powers it has no room for.)
msToLogInterval(ms) ==
  LET reached(n) == IF n > 0 THEN ms >= 707 * 2 ^ n /\ ms * ms >= 1000000 * 2 ^ (2 * n - 1)
                             ELSE ms * ms > (1000000 - 1) \div 2 ^ (1 - 2 * n)
      nearest == Max({-10} \cup {n \in -9 .. 21 : reached(n)})
  IN  IF ms =< 0 THEN 0 ELSE nearest

\* Mutant: the exponent is narrowed to eight bits instead of being clamped.
clampLog_narrows(v) == ((v + 128) % 256) - 128

clampLog(v) == Max({-9, Min({v, 21})})

\* migrateLogInterval(): the exponent's key wins over the milliseconds.
migrateLogInterval(o, current) ==
  LET has(k) == k \in DOMAIN o /\ signed(o[k], Word)
  IN  IF has("logSyncInterval") THEN clampLog(o.logSyncInterval)
      ELSE IF has("syncIntervalMs") THEN msToLogInterval(o.syncIntervalMs)
      ELSE current

\* ptpLogIntervalToNanoseconds() # 0.
hasPeriod(logInterval) == logInterval \in -9 .. 21

loadPTPMasterSettings(o) ==
  [masterCapable |-> field(o, "masterCapable", FALSE),
   ptpEnabled |-> field(o, "ptpEnabled", FALSE),
   requireLock |-> field(o, "requireLock", FALSE),
   priority1 |-> swiftField(o, "priority1", 128),
   syncIntervalMs |-> swiftField(o, "syncIntervalMs", 125)]

\* PTPMasterSettingsManager::load(), and applyPTPSettings() of it: a priority
\* is eight bits wide.
loadPTP(o) ==
  [masterCapable |-> field(o, "masterCapable", FALSE),
   ptpEnabled |-> field(o, "ptpEnabled", FALSE),
   requireLock |-> field(o, "requireLock", FALSE),
   priority1 |-> extractIntField(o, "priority1", 128) % 256,
   logSyncInterval |-> migrateLogInterval(o, -3)]

-----------------------------------------------------------------------------
(* What the app reads and what the device runs with *)

loadCompatibilityProfile(o) ==
  LET raw == field(o, "profile", "aes67")
      id == IF raw \in {"cp850", "cp950", "dac3202", "dma"} THEN "dolby-lan" ELSE raw
  IN  IF \E p \in compatibilityProfiles : p.kind = id THEN id ELSE "aes67"

\* What the app takes from a file, by its name; a file that is not whole is not
\* JSON, and is as good as none.
appLoad(f, d) ==
  LET o == IF d.whole THEN d.keys ELSE <<>>
  IN  CASE f = "channels" -> loadDeviceChannelSettings(o)
        [] f = "unit" -> loadAmplifierUnit(o)
        [] f = "profile" -> loadCompatibilityProfile(o)
        [] f = "ptp" -> loadPTPMasterSettings(o)
        [] f = "active" -> field(o, "active", TRUE)
        [] f = "discovery" -> field(o, "runEveryRoute", FALSE)

\* The keys the app writes of a setting.
appSave(f, v) ==
  CASE f = "channels" -> saveDeviceChannelSettings(v)
    [] f = "profile" -> [profile |-> v]
    [] f = "active" -> [active |-> v]
    [] f = "discovery" -> [runEveryRoute |-> v]
    [] OTHER -> v

\* AES67Device's constructor and Initialize(): what a device runs with, given
\* the files and the node id.
deviceSettings(d, id) ==
  LET channels == loadChannels(d["channels"].keys)
      profile == forKind(kindFromString(field(d["profile"].keys, "profile", "aes67")))
      unit == loadUnit(d["unit"].keys)
      every == field(d["discovery"].keys, "runEveryRoute", FALSE)
      tx == totalChannelCount(channels.tx)
  IN  [rx |-> totalChannelCount(channels.rx), tx |-> tx, profile |-> profile.kind,
       txFlowPortOffset |-> flowOffsetForUnit(unit.chainUnitChannels, tx,
                                             clampedUnit(unit.unitIndex, profile.maxUnits)),
       playoutDelaySamples |-> unit.playoutDelaySamples, ptp |-> loadPTP(d["ptp"].keys),
       runSap |-> profile.usesSap \/ every, runDnsSdRtsp |-> profile.usesDnsSdRtsp \/ every,
       nodeId |-> IF profile.usesNmos \/ every THEN id ELSE 0]

-----------------------------------------------------------------------------
(* What files and settings are *)

\* What a reader finds under a key is of the type it looks for: it passes over
\* anything else.
readable(o, sizes) ==
  /\ \A k \in DOMAIN o : k \in {"rxAux", "txAux", "masterCapable", "ptpEnabled", "requireLock",
                                "active", "runEveryRoute"} => o[k] \in BOOLEAN
  /\ \A k \in DOMAIN o : k \in {"rxChannelCount", "txChannelCount", "unitIndex",
                                "playoutDelaySamples", "priority1", "syncIntervalMs",
                                "logSyncInterval"} => o[k] \in Int
  /\ \A k \in DOMAIN o : k = "chainUnitChannels" => o[k] \in Seq(sizes)

\* What the app can show of a setting, and save.
validSelections ==
  {s \in [count : allowedChannelCounts, aux : BOOLEAN] : s.aux => auxFits(s.count)}
showable(f, sizes) ==
  CASE f = "channels" -> [rx : validSelections, tx : validSelections]
    [] f = "unit" -> [unitIndex : 1 .. 3, chainUnitChannels : Seq(sizes \cap SwiftInts),
                      playoutDelaySamples : 0 .. kMaxSamples]
    [] f = "profile" -> {p.kind : p \in compatibilityProfiles}
    [] f = "ptp" -> [masterCapable : BOOLEAN, ptpEnabled : BOOLEAN, requireLock : BOOLEAN,
                     priority1 : SwiftInts, syncIntervalMs : SwiftInts]
    [] OTHER -> BOOLEAN

\* The numbers of a unit are as an app writes them.
asWritten(o) ==
  /\ field(o, "unitIndex", 1) \in 1 .. 3
  /\ field(o, "playoutDelaySamples", 0) \in 0 .. kMaxSamples
  /\ \A i \in DOMAIN field(o, "chainUnitChannels", <<>>) : o.chainUnitChannels[i] \in SwiftInts

\* The selectors offer what the app's tables have.  A file left by hand may hold any
\* values; one of an older version, channels and a unit that its app took to be valid.
ASSUME SettingsAssumption ==
  /\ {Word, Long} \subseteq Nat /\ 2 * kMaxSamples < Word /\ Word =< Long
  /\ Counts \subseteq allowedChannelCounts
  /\ ProfileIds \subseteq {p.kind : p \in compatibilityProfiles}
  /\ Chains \subseteq Seq(0 .. maxChannels)
  /\ \A left \in StartFiles : \A f \in DOMAIN left :
       f \in SettingsFiles => left[f] \in showable(f, 0 .. maxChannels)
  /\ \A h \in HandFiles : /\ h[1] \in SettingsFiles /\ readable(h[2], Int) /\ h[3] \in BOOLEAN
                          /\ h[1] = "channels" /\ h[3] => channelsAreValid(h[2])
                          /\ h[1] = "unit" /\ h[3] => asWritten(h[2])

\* No file left by hand says of a unit that it is wider than any device, below zero or
\* above: the sizes of the chain are the one number of a file that neither program checks.
ChainsInRange == \A h \in HandFiles : readable(h[2], -maxChannels .. maxChannels)

-----------------------------------------------------------------------------
(* The app *)

\* The app starts with what the files say; the discovery flag is read as its
\* own window opens.
launch(d) ==
  [f \in SettingsFiles \cup {"window"} |->
     IF f \in {"discovery", "window"} THEN FALSE ELSE appLoad(f, d[f])]

AppLaunch ==
  /\ shown = Off
  /\ shown' = launch(disk)
  /\ standing' = [f \in SettingsFiles |-> [standing[f] EXCEPT !.shows = f # "discovery"]]
  /\ UNCHANGED <<disk, job, readback, installed, registered, up, running, stored, ids, edits,
                 faults>>

AppQuit ==
  /\ shown # Off /\ job = NoJob
  /\ shown' = Off /\ readback' = {}
  /\ UNCHANGED <<disk, job, installed, registered, up, running, stored, ids, standing, edits,
                 faults>>

\* A script runs while the app waits for it: nothing else happens in its windows.
idle == shown # Off /\ job = NoJob

\* A setting is changed and writeConfigWithPrivileges() asked to save it.
edit(f, v) ==
  /\ idle /\ edits < MaxEdits
  /\ shown' = [shown EXCEPT ![f] = v]
  /\ job' = [file |-> f, keys |-> appSave(f, v), copying |-> FALSE]
  /\ standing' = [standing EXCEPT ![f].shows = FALSE]
  /\ edits' = edits + 1
  /\ UNCHANGED <<disk, readback, installed, registered, up, running, stored, ids, faults>>

\* The selectors are locked while the app believes the device active, and a
\* direction the profile rules out has none.
locked == shown["active"]
ruledOut(side) ==
  optionFor(shown["profile"]).direction = IF side = "rx" THEN "transmitOnly" ELSE "receiveOnly"

SelectChannels ==
  /\ idle /\ ~locked
  /\ \E side \in {"rx", "tx"} :
       /\ ~ruledOut(side)
       /\ \/ \E n \in Counts :
               edit("channels", consistent([shown["channels"] EXCEPT ![side].count = n]))
          \/ /\ auxFits(shown["channels"][side].count)
             /\ edit("channels",
                     consistent([shown["channels"] EXCEPT ![side].aux = ~@]))

\* ceilToAllowedChannelCount(): the next whole group, 128 at the most.
ceilToAllowedChannelCount(n) ==
  Min({c \in allowedChannelCounts : c >= n} \cup {maxChannels})

\* applyDetectedLayout(): what the amplifiers found and named add up to.  It is
\* not locked with the selectors.
ApplyDetectedLayout ==
  /\ idle
  /\ \E side \in {"rx", "tx"}, resolved \in {24, 136} :
       edit("channels", consistent([shown["channels"] EXCEPT
                                      ![side].count = ceilToAllowedChannelCount(resolved)]))

SelectProfile ==
  idle /\ ~locked /\ \E id \in ProfileIds : edit("profile", id)

\* The unit, the sizes of the units before it, and the delay, which is not locked.
SelectUnit ==
  /\ idle
  /\ LET units == optionFor(shown["profile"]).maxUnits
     IN  \/ /\ ~locked /\ units > 1
            /\ \/ \E unit \in 1 .. units : edit("unit", [shown["unit"] EXCEPT !.unitIndex = unit])
               \/ /\ shown["unit"].unitIndex > 1
                  /\ \E chain \in Chains :
                       edit("unit", [shown["unit"] EXCEPT !.chainUnitChannels = chain])
         \/ /\ ~ruledOut("rx")
            /\ edit("unit", [shown["unit"] EXCEPT !.playoutDelaySamples = kMaxSamples])

\* The switches of the PTP window; a profile that fixes the role sets it as the
\* window opens.
SelectPTP ==
  /\ idle
  /\ LET role == optionFor(shown["profile"]).ptpRole
         ptp == shown["ptp"]
     IN  \/ edit("ptp", [ptp EXCEPT !.ptpEnabled = ~@])
         \/ ptp.ptpEnabled /\ edit("ptp", [ptp EXCEPT !.requireLock = ~@])
         \/ role = "any" /\ edit("ptp", [ptp EXCEPT !.masterCapable = ~@])
         \/ /\ role # "any" /\ ptp.masterCapable # (role = "forcedMaster")
            /\ edit("ptp", [ptp EXCEPT !.masterCapable = (role = "forcedMaster")])

\* setDeviceActive() and setDiscoveryRunsEveryRoute(): the script writes the
\* flag and restarts Core Audio; the switch waits to read it back.
SetFlag(f) ==
  /\ idle /\ edits < MaxEdits
  /\ IF f = "active" THEN installed ELSE shown["window"]
  /\ job' = [file |-> f, keys |-> appSave(f, ~shown[f]), copying |-> FALSE]
  /\ edits' = edits + 1
  /\ UNCHANGED <<disk, shown, readback, installed, registered, up, running, stored, ids,
                 standing, faults>>

flags == {"active", "discovery"}

OpenSettings ==
  /\ idle
  /\ shown' = [shown EXCEPT !["window"] = TRUE,
                            !["discovery"] = appLoad("discovery", disk["discovery"])]
  /\ standing' = [standing EXCEPT !["discovery"].shows = TRUE]
  /\ UNCHANGED <<disk, job, readback, installed, registered, up, running, stored, ids, edits,
                 faults>>

ReadBack(f) ==
  /\ shown # Off /\ f \in readback
  /\ shown' = [shown EXCEPT ![f] = appLoad(f, disk[f])]
  /\ standing' = [standing EXCEPT ![f].shows = TRUE]
  /\ readback' = readback \ {f}
  /\ UNCHANGED <<disk, job, installed, registered, up, running, stored, ids, edits, faults>>

\* The prompt is refused: what is shown stays changed, a flag is read back.
Refused ==
  /\ job # NoJob /\ ~job.copying /\ faults < MaxFaults
  /\ job' = NoJob /\ faults' = faults + 1
  /\ readback' = readback \cup ({job.file} \cap flags)
  /\ UNCHANGED <<disk, shown, installed, registered, up, running, stored, ids, standing, edits>>

\* /bin/cp: the file is emptied and filled; then root owns it, and a flag's
\* script takes Core Audio down.
CopyBegins ==
  /\ job # NoJob /\ ~job.copying
  /\ \E written \in SUBSET DOMAIN job.keys :
       /\ Cardinality(written) =< MaxTorn
       /\ disk' = [disk EXCEPT ![job.file] = file(FALSE, [k \in written |-> job.keys[k]])]
  /\ job' = [job EXCEPT !.copying = TRUE]
  /\ standing' = [standing EXCEPT ![job.file].mine = FALSE, ![job.file].read = FALSE]
  /\ UNCHANGED <<shown, readback, installed, registered, up, running, stored, ids, edits,
                 faults>>

CopyEnds ==
  /\ job # NoJob /\ job.copying
  /\ disk' = [disk EXCEPT ![job.file] = file(TRUE, job.keys)]
  /\ job' = NoJob
  /\ standing' = [standing EXCEPT ![job.file] =
                    [mine |-> TRUE, shows |-> job.file \notin flags, read |-> FALSE]]
  /\ readback' = readback \cup ({job.file} \cap flags)
  /\ up' = (up /\ job.file \notin flags)
  /\ running' = IF job.file \in flags THEN Off ELSE running
  /\ UNCHANGED <<shown, installed, registered, stored, ids, edits, faults>>

\* installDriver() and uninstallDriver(): the daemon is registered after the
\* privileged script and only if it ran, and unregistered before it in any case.
Install ==
  /\ idle /\ ~installed
  /\ \/ installed' = TRUE /\ registered' = TRUE /\ up' = FALSE /\ running' = Off
        /\ faults' = faults
     \/ /\ faults < MaxFaults /\ faults' = faults + 1
        /\ UNCHANGED <<installed, registered, up, running>>
  /\ UNCHANGED <<disk, shown, job, readback, stored, ids, standing, edits>>

Uninstall ==
  /\ idle /\ installed /\ edits < MaxEdits
  /\ registered' = FALSE /\ edits' = edits + 1
  /\ \/ installed' = FALSE /\ up' = FALSE /\ running' = Off /\ faults' = faults
     \/ faults < MaxFaults /\ faults' = faults + 1 /\ UNCHANGED <<installed, up, running>>
  /\ UNCHANGED <<disk, shown, job, readback, stored, ids, standing>>

-----------------------------------------------------------------------------
(* The driver, and what happens around it *)

\* The id in the host's storage, 0 when there is none.
keptId(s) == s

\* AES67Plugin's constructor: a device that is not active is not published.
\* A new node id may fail to be stored.
DriverStarts ==
  /\ installed /\ ~up
  /\ LET active == field(disk["active"].keys, "active", TRUE)
         id == IF keptId(stored) # 0 THEN keptId(stored) ELSE ids + 1
         device == deviceSettings(disk, id)
         made == active /\ ~stoulThrows(disk["unit"].keys)
         new == made /\ device.nodeId = ids + 1
     IN  /\ new => ids < MaxIds
         /\ up' = TRUE
         /\ running' = IF made THEN device ELSE Off
         /\ ids' = IF new THEN ids + 1 ELSE ids
         /\ \/ stored' = IF new THEN id ELSE stored
            \/ new /\ UNCHANGED stored
  /\ standing' = [f \in SettingsFiles |-> [standing[f] EXCEPT !.read = TRUE]]
  /\ UNCHANGED <<disk, shown, job, readback, installed, registered, edits, faults>>

\* restartCoreAudio(), or Core Audio ending by itself.
CoreAudioEnds ==
  /\ up /\ up' = FALSE /\ running' = Off
  /\ UNCHANGED <<disk, shown, job, readback, installed, registered, stored, ids, standing,
                 edits, faults>>

PowerLoss ==
  /\ faults < MaxFaults /\ faults' = faults + 1
  /\ shown' = Off /\ job' = NoJob /\ readback' = {} /\ up' = FALSE /\ running' = Off
  /\ UNCHANGED <<disk, installed, registered, stored, ids, standing, edits>>

\* Somebody edits a file, or brings one of an older version.
HandEdit ==
  /\ job = NoJob /\ faults < MaxFaults /\ faults' = faults + 1
  /\ \E h \in HandFiles :
       /\ disk' = [disk EXCEPT ![h[1]] = file(TRUE, h[2])]
       /\ standing' = [standing EXCEPT ![h[1]] = [mine |-> h[3], shows |-> FALSE, read |-> FALSE]]
  /\ UNCHANGED <<shown, job, readback, installed, registered, up, running, stored, ids, edits>>

-----------------------------------------------------------------------------
\* Files the app left, or none: no file is as good as one it
\* wrote, since both sides take their defaults.
SettingsInit ==
  /\ \E left \in StartFiles :
       disk = [f \in SettingsFiles |->
                 IF f \in DOMAIN left THEN file(TRUE, appSave(f, left[f])) ELSE missing]
  /\ shown = Off /\ job = NoJob /\ readback = {}
  /\ installed = FALSE /\ registered = FALSE /\ up = FALSE /\ running = Off
  /\ stored = 0 /\ ids = 0
  /\ standing = [f \in SettingsFiles |-> [mine |-> TRUE, shows |-> FALSE, read |-> FALSE]]
  /\ edits = 0 /\ faults = 0

SettingsNext ==
  \/ AppLaunch \/ AppQuit
  \/ SelectChannels \/ ApplyDetectedLayout \/ SelectProfile \/ SelectUnit \/ SelectPTP
  \/ \E f \in flags : SetFlag(f) \/ ReadBack(f)
  \/ OpenSettings
  \/ Refused \/ CopyBegins \/ CopyEnds
  \/ Install \/ Uninstall
  \/ DriverStarts \/ CoreAudioEnds \/ PowerLoss \/ HandEdit

-----------------------------------------------------------------------------
(* Properties *)

\* Where the app says the source ports begin.
shownOffset ==
  txSourcePortOffset(shown["unit"].chainUnitChannels, totalChannelCount(shown["channels"].tx),
                     Min({shown["unit"].unitIndex, optionFor(shown["profile"]).maxUnits}))

applied(f) == standing[f] = [mine |-> TRUE, shows |-> TRUE, read |-> TRUE]

\* A setting whose file the app wrote to the end and still shows, and which the
\* driver was constructed after, is the one the device runs with: the channel
\* totals, every parameter the app's table has for the profile, the source
\* ports of the selected unit, the delay, the clock's switches and the
\* discovery routes.  It holds through any order of edits, profiles of one
\* unit and of several, restarts of both sides and files of older versions:
\* the two programs keep separate readers, tables and arithmetic.  Two numbers
\* the app passes on unchecked are excepted where only a file left by hand can
\* have brought them: the size of a unit that no unit has (see PortsAreShown), and
\* a priority of more than an int, for which the driver takes its default.
AppliedIsShown ==
  (shown # Off /\ running # Off) =>
    LET mine == optionFor(shown["profile"])
        chain == shown["unit"].chainUnitChannels
        priority1 == shown["ptp"].priority1
    IN  /\ applied("active") => shown["active"]
        /\ applied("channels") => /\ running.rx = totalChannelCount(shown["channels"].rx)
                                  /\ running.tx = totalChannelCount(shown["channels"].tx)
        /\ applied("profile") =>
             \A k \in DOMAIN mine : mine[k] = forKind(running.profile)[k]
        /\ applied("unit") => running.playoutDelaySamples = shown["unit"].playoutDelaySamples
        /\ /\ applied("unit") /\ applied("profile") /\ applied("channels")
           /\ \A i \in DOMAIN chain : chain[i] \in 0 .. maxChannels
           => running.txFlowPortOffset = shownOffset
        /\ applied("ptp") =>
             /\ \A k \in {"masterCapable", "ptpEnabled", "requireLock"} :
                  running.ptp[k] = shown["ptp"][k]
             /\ running.ptp.priority1 = (IF signed(priority1, Word) THEN priority1 ELSE 128) % 256
        /\ applied("discovery") /\ shown["discovery"] => running.runSap /\ running.nodeId # 0

\* Whatever a file holds (torn, edited by hand, out of range), the device that
\* is published can work: whole groups of channels that fit the buffers, a
\* delay the receivers can hold, source ports of at most two units of at most
\* sixteen flows below its own (where ChainsInRange), a priority of eight bits, and a
\* Sync period that is not zero.  A file that asks for one millisecond is the exception:
\* see AskedIsClamped.
SettingsUsable ==
  running # Off =>
    /\ {running.rx, running.tx} \subseteq allowedChannelCounts
    /\ running.playoutDelaySamples =< kMaxSamples
    /\ running.txFlowPortOffset =< 32
    /\ forKind(running.profile).maxUnits = 1 => running.txFlowPortOffset = 0
    /\ running.ptp.priority1 \in 0 .. 255
    /\ hasPeriod(running.ptp.logSyncInterval) \/ running.ptp.logSyncInterval = -10

\* The device runs with what the app shows, and with something that works.
SettingsHold == AppliedIsShown /\ SettingsUsable

\* Refuted, PTPMasterSettings.cpp:77: "The result is clamped to -9..21", so that no file
\* gives the master a period of zero.
AskedIsClamped == running # Off => hasPeriod(running.ptp.logSyncInterval)

\* Refuted, DriverManager.swift:1852-1853: "so the parameters window can show what will actually
\* go on the wire".  A size of -16 is no size to the app and 16 to the driver.
PortsAreShown ==
  (shown # Off /\ running # Off /\ \A f \in {"unit", "profile", "channels"} : applied(f)) =>
    running.txFlowPortOffset = shownOffset

SettingsSpec == SettingsInit /\ [][SettingsNext]_settingsVars
=============================================================================
