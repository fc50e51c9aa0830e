------------------------------ MODULE Discovery ------------------------------
(***************************************************************************)
(* One remote session, and how this machine's directory comes to list it.  *)
(* The remote is a driver like this one: its SAPAnnouncer repeats the body *)
(* of the session on both SAP groups and withdraws it, its RTSP server     *)
(* answers DESCRIBE, and mDNS registers it. Here the SAPListener keeps a   *)
(* list by message hash and calls back on what is new to it; the RTSP      *)
(* discovery has a browser thread, a queue and a worker that asks for the  *)
(* description. Both file into the SessionDirectory, by the session's      *)
(* identity, and the last one to file wins.                                *)
(*                                                                         *)
(* A body is the SDP in one of its versions: each has a hash of its own and*)
(* all have the same identity. A tick is kRefreshInterval (120 s): what    *)
(* takes seconds (a packet on its way, a DESCRIBE, an announcing round     *)
(* every 30 s) has happened by the next tick.                              *)
(***************************************************************************)
EXTENDS Integers, Sequences, FiniteSets, SequencesExt

CONSTANTS
  Bodies,          \* versions of the session's description, 1..n
  ListSize,        \* the listener's backstop (50 in the code)
  SessionTimeout,  \* kSessionTimeout (300 s) in whole ticks
  ServiceTimeout,  \* kServiceTimeout (600 s) in ticks
  MaxChanges,      \* bound: changes at the remote
  MaxFaults        \* bound: packets lost, DESCRIBEs that fail and times the
                   \* interface goes down and comes back

ASSUME DiscoveryAssumption ==
  /\ Bodies \subseteq Nat \ {0} /\ ListSize \in Nat \ {0}
  /\ {SessionTimeout, ServiceTimeout, MaxChanges, MaxFaults} \subseteq Nat

VARIABLES
  remote,      \* src (the body, 0 for none), announced, said (this tick), and
               \* whether it never crashed
  wire,        \* one queue per SAP group
  joined,      \* the listener's socket is a member of the groups
  heard,       \* discoveredStreams_, least recently seen first
  listener,    \* Waiting, the body it is telling the callbacks of, or Ended
  directory,   \* none, or the entry: body, age, sources
  service,     \* the browser's entry: none, or resolved and age
  queue,       \* the services waiting for the worker
  worker,      \* Waiting, the body its DESCRIBE brought back, or Ended
  refreshed,   \* the worker went through the services this tick
  phase,       \* "run", "rtsp", "sap" while it stops, "deleted"
  steady,      \* history: ticks since the remote or its registration changed, up to
               \* MaxFaults + 2
  goneFor,     \* history: ticks since the remote has no session
  changes, faults

history == <<steady, goneFor>>
bounds == <<changes, faults>>
sap == <<heard, listener>>
rtsp == <<service, queue, worker, refreshed>>
vars == <<remote, wire, joined, sap, directory, rtsp, phase, history, bounds>>

None == <<>>
Waiting == 0
Ended == -1
NotFound == 0
Groups == 1..2
\* buildPacket(): the message id is a hash of the description, which is taken not to
\* collide.
Announce(b) == [msgIdHash |-> b, payload |-> b, deletion |-> FALSE]
Delete(b) == [msgIdHash |-> b, payload |-> b, deletion |-> TRUE]
Stale == SessionTimeout + 1              \* ages count no further
Idle == [src |-> 0, announced |-> {}, said |-> FALSE, orderly |-> TRUE]

Init ==
  /\ remote = Idle
  /\ wire = [g \in Groups |-> <<>>] /\ joined = TRUE
  /\ heard = <<>> /\ listener = Waiting
  /\ directory = None
  /\ service = None /\ queue = <<>> /\ worker = Waiting /\ refreshed = FALSE
  /\ phase = "run"
  /\ steady = 0 /\ goneFor = Stale + 1
  /\ changes = 0 /\ faults = 0

(***************************************************************************)
(* The remote                                                              *)
(***************************************************************************)

quiet == \A g \in Groups : wire[g] = <<>>
send(packets) == wire' = [g \in Groups |-> wire[g] \o packets]
deletions(S) == [i \in 1..Cardinality(S) |-> Delete(SetToSeq(S)[i])]

Changed ==
  /\ changes < MaxChanges /\ changes' = changes + 1 /\ steady' = 0
  /\ UNCHANGED <<joined, sap, directory, rtsp, phase, faults>>

\* The stream the provider lists is edited, added or removed.
edit(b) ==
  /\ Changed
  /\ b # remote.src
  /\ remote' = [remote EXCEPT !.src = b]
  /\ goneFor' = IF b = 0 THEN 0 ELSE goneFor
  /\ UNCHANGED wire

\* Mutant: what is no longer listed is forgotten without a deletion.
withdrawn_silently(announced, current) == {}
withdrawn(announced, current) == announced \ current

\* refreshAndAnnounce(): the deletions, then everything there is.
refreshAndAnnounce ==
  /\ quiet
  /\ LET current == {remote.src} \ {0}
     IN /\ send(deletions(withdrawn(remote.announced, current))
                  \o (IF remote.src = 0 THEN <<>> ELSE <<Announce(remote.src)>>))
        /\ remote' = [remote EXCEPT !.announced = current, !.said = TRUE]
  /\ UNCHANGED <<joined, sap, directory, rtsp, phase, history, bounds>>

\* stop(): everything that is still announced is withdrawn.
announcerStop ==
  /\ Changed /\ quiet /\ remote.src # 0
  /\ send(deletions(withdrawn(remote.announced, {})))
  /\ remote' = [remote EXCEPT !.src = 0, !.announced = {}] /\ goneFor' = 0

\* The remote is switched off.
crash ==
  /\ Changed /\ remote.src # 0
  /\ remote' = [Idle EXCEPT !.said = remote.said, !.orderly = FALSE]
  /\ goneFor' = 0 /\ UNCHANGED wire

lose(g) ==
  /\ wire[g] # <<>> /\ faults < MaxFaults
  /\ wire' = [wire EXCEPT ![g] = Tail(@)] /\ faults' = faults + 1
  /\ UNCHANGED <<remote, joined, sap, directory, rtsp, phase, history, changes>>

\* The interface goes down and the kernel drops the memberships.
flap ==
  /\ joined /\ faults < MaxFaults
  /\ joined' = FALSE /\ faults' = faults + 1
  /\ UNCHANGED <<remote, wire, sap, directory, rtsp, phase, history, changes>>

(***************************************************************************)
(* The directory                                                           *)
(***************************************************************************)

\* offer(): a new entry, or a refresh that takes the description it is given.
offer(d, b, source) ==
  IF d = None THEN <<[body |-> b, age |-> 0, sources |-> {source}]>>
  ELSE <<[body |-> b, age |-> 0, sources |-> d[1].sources \cup {source}]>>

\* sessions(): what a reader is shown.
unswept(d) == IF d # None /\ d[1].age > SessionTimeout THEN None ELSE d

readSessions ==
  /\ directory # unswept(directory)
  /\ directory' = unswept(directory)
  /\ UNCHANGED <<remote, wire, joined, sap, rtsp, phase, history, bounds>>

(***************************************************************************)
(* SAPListener                                                             *)
(***************************************************************************)

\* Mutant: the memberships are not asked for again.
maybeRejoin_once(j) == j
maybeRejoin(j) == TRUE

\* parseAnnouncement(): of a deletion only the message id is read.
parseAnnouncement(p) ==
  [body |-> p.msgIdHash, isDeletion |-> p.deletion,
   sessionDescription |-> IF p.deletion THEN 0 ELSE p.payload]

\* sameSession(): the message id is what tells two announcements apart.
knows(b) == \E i \in DOMAIN heard : heard[i].body = b
placeOf(b) == CHOOSE i \in DOMAIN heard : heard[i].body = b
without(b) == IF knows(b) THEN RemoveAt(heard, placeOf(b)) ELSE heard
newest(b) == Append(without(b), [body |-> b, age |-> 0])

\* A list that is too long loses its least recently seen entry.
held(list) == IF Len(list) > ListSize THEN Tail(list) ELSE list

\* listenLoop(): one packet. Only what is new to the list is told, and a
\* deletion is not.
receive(g) ==
  /\ listener = Waiting /\ phase # "deleted" /\ wire[g] # <<>> /\ joined
  /\ LET a == parseAnnouncement(Head(wire[g]))
         isNew == ~a.isDeletion /\ ~knows(a.body)
     IN /\ heard' = IF a.isDeletion THEN without(a.body) ELSE held(newest(a.body))
        /\ listener' = IF isNew THEN a.sessionDescription ELSE Waiting
  /\ wire' = [wire EXCEPT ![g] = Tail(@)]
  /\ UNCHANGED <<remote, joined, directory, rtsp, phase, history, bounds>>

\* A packet for a group the socket is no longer in is not received.
missed(g) ==
  /\ wire[g] # <<>> /\ ~joined
  /\ wire' = [wire EXCEPT ![g] = Tail(@)]
  /\ UNCHANGED <<remote, joined, sap, directory, rtsp, phase, history, bounds>>

\* The loop wakes every second and re-issues the joins.
rejoin ==
  /\ listener = Waiting /\ ~joined
  /\ joined' = maybeRejoin(joined)
  /\ UNCHANGED <<remote, wire, sap, directory, rtsp, phase, history, bounds>>

\* The callback: the directory. The receive streams that are bound to the session
\* follow it too, which is StreamManager's part.
tell ==
  /\ listener \in Bodies
  /\ directory' = offer(directory, listener, "sap")
  /\ listener' = Waiting
  /\ UNCHANGED <<remote, wire, joined, heard, rtsp, phase, history, bounds>>

\* getDiscoveredStreams(), which only the monitor tool calls. The list is in the
\* order of its ages, so what has expired is at its head.
getDiscoveredStreams ==
  /\ \E n \in DOMAIN heard :
       /\ \A i \in DOMAIN heard : heard[i].age > SessionTimeout <=> i <= n
       /\ heard' = SubSeq(heard, n + 1, Len(heard))
  /\ UNCHANGED <<remote, wire, joined, listener, directory, rtsp, phase, history,
                 bounds>>

(***************************************************************************)
(* MDNSBrowser and RTSPSessionDiscovery                                    *)
(***************************************************************************)

sweptService(s) == IF s # None /\ s[1].age > ServiceTimeout THEN None ELSE s

enqueue(q) == IF q = <<>> THEN <<"service">> ELSE q

Browsing == phase = "run"

\* browseReply() with an instance, resolve() and store(): it is recorded whether
\* or not its host answers, and queued if it does. The responder may say so again.
browseAdd(resolved) ==
  /\ Browsing /\ remote.src # 0 /\ changes < MaxChanges /\ changes' = changes + 1
  /\ service' = <<[resolved |-> resolved, age |-> 0]>>
  /\ queue' = IF resolved THEN enqueue(queue) ELSE queue
  /\ steady' = IF service # None /\ service[1].resolved /\ resolved THEN steady ELSE 0
  /\ UNCHANGED <<remote, wire, joined, sap, directory, worker, refreshed, phase, goneFor, faults>>

\* A goodbye.
browseRemove ==
  /\ Browsing /\ service # None /\ remote.src = 0
  /\ service' = None /\ steady' = 0
  /\ UNCHANGED <<remote, wire, joined, sap, directory, queue, worker, refreshed, phase, goneFor,
                 bounds>>

\* What the remote's RTSP server answers DESCRIBE of the session with.
serve(src) == IF src = 0 THEN NotFound ELSE src

\* describe() up to the answer: connect, request and parse may each fail.
describe ==
  /\ worker = Waiting /\ queue # <<>> /\ phase = "run"
  /\ queue' = Tail(queue)
  /\ \/ serve(remote.src) # NotFound /\ worker' = serve(remote.src) /\ UNCHANGED faults
     \/ serve(remote.src) = NotFound /\ UNCHANGED <<worker, faults>>
     \/ faults < MaxFaults /\ faults' = faults + 1 /\ UNCHANGED worker
  /\ UNCHANGED <<remote, wire, joined, sap, directory, service, refreshed, phase, history,
                 changes>>

\* The worker files what it was answered, however long the answer took.
fileDescription ==
  /\ worker \in Bodies
  /\ directory' = offer(directory, worker, "rtsp") /\ worker' = Waiting
  /\ UNCHANGED <<remote, wire, joined, sap, service, queue, refreshed, phase, history, bounds>>

again(s) == s # None /\ s[1].resolved

\* The worker with nothing to do, every kRefreshInterval.
refresh ==
  /\ worker = Waiting /\ queue = <<>> /\ ~refreshed /\ phase = "run"
  /\ service' = sweptService(service)
  /\ queue' = IF again(service') THEN enqueue(queue) ELSE queue
  /\ steady' = IF service' = service THEN steady ELSE 0
  /\ refreshed' = TRUE
  /\ UNCHANGED <<remote, wire, joined, sap, directory, worker, phase, goneFor, bounds>>

(***************************************************************************)
(* aes67_discovery_stop()                                                  *)
(***************************************************************************)

\* RTSPSessionDiscovery::stop(): running_ is cleared, the browser joined.
stopRtsp ==
  /\ phase = "run" /\ phase' = "rtsp"
  /\ UNCHANGED <<remote, wire, joined, sap, directory, rtsp, history, bounds>>

\* The worker looks at running_ between two services.
workerEnds ==
  /\ phase = "rtsp" /\ worker = Waiting /\ worker' = Ended
  /\ UNCHANGED <<remote, wire, joined, sap, directory, service, queue, refreshed, phase, history,
                 bounds>>

joinedWorker == worker = Ended

stopSap ==
  /\ phase = "rtsp" /\ joinedWorker
  /\ phase' = "sap" /\ queue' = <<>>
  /\ UNCHANGED <<remote, wire, joined, sap, directory, service, worker, refreshed, history, bounds>>

listenerEnds ==
  /\ phase = "sap" /\ listener = Waiting /\ listener' = Ended
  /\ UNCHANGED <<remote, wire, joined, heard, directory, rtsp, phase, history, bounds>>

delete ==
  /\ phase = "sap" /\ listener = Ended /\ phase' = "deleted"
  /\ UNCHANGED <<remote, wire, joined, sap, directory, rtsp, history, bounds>>

-------------------------------------------------------------------------------

older(e) == [e EXCEPT !.age = IF @ = Stale THEN @ ELSE @ + 1]

\* A tick: what takes seconds is over.
tick ==
  /\ phase = "run" /\ quiet /\ joined
  /\ listener = Waiting /\ worker = Waiting /\ queue = <<>> /\ refreshed
  /\ remote.said \/ (remote.src = 0 /\ remote.announced = {})
  /\ heard' = [i \in DOMAIN heard |-> older(heard[i])]
  /\ directory' = [i \in DOMAIN directory |-> older(directory[i])]
  /\ service' = [i \in DOMAIN service |->
                   [service[i] EXCEPT !.age = IF @ > ServiceTimeout THEN @ ELSE @ + 1]]
  /\ refreshed' = FALSE /\ remote' = [remote EXCEPT !.said = FALSE]
  /\ steady' = IF steady > MaxFaults + 1 THEN steady ELSE steady + 1
  /\ goneFor' = IF remote.src # 0 \/ goneFor > Stale THEN goneFor ELSE goneFor + 1
  /\ UNCHANGED <<wire, joined, listener, queue, worker, phase, bounds>>

Remote ==
  \/ \E b \in Bodies \cup {0} : edit(b)
  \/ refreshAndAnnounce \/ announcerStop \/ crash \/ flap
  \/ \E g \in Groups : lose(g) \/ missed(g)
  \/ \E resolved \in BOOLEAN : browseAdd(resolved)
  \/ browseRemove

Local ==
  \/ \E g \in Groups : receive(g)
  \/ rejoin \/ tell \/ getDiscoveredStreams \/ readSessions
  \/ describe \/ fileDescription \/ refresh
  \/ stopRtsp \/ workerEnds \/ stopSap \/ listenerEnds \/ delete

Next == Remote \/ Local \/ tick

\* Every thread that has something to do does it in the end: the announcer's
\* rounds are on a timer, the listener and the worker wake every second.
Fairness ==
  /\ WF_vars(remote.said = FALSE /\ refreshAndAnnounce) /\ WF_vars(tick)
  /\ \A g \in Groups : WF_vars(receive(g)) /\ WF_vars(missed(g))
  /\ WF_vars(rejoin) /\ WF_vars(tell) /\ WF_vars(getDiscoveredStreams)
  /\ WF_vars(describe) /\ WF_vars(fileDescription) /\ WF_vars(refresh)

Spec == Init /\ [][Next]_vars /\ Fairness

-------------------------------------------------------------------------------

\* A remote that withdraws its session and loses no packet leaves nothing behind
\* in the listener's own list, though every packet comes twice and the two groups
\* overtake each other. The directory is not told of a withdrawal: there the session
\* stays until it is too old (GoneIsNotShown).
WithdrawnIsForgotten ==
  remote.orderly /\ faults = 0 /\ quiet /\ listener = Waiting =>
    \A i \in DOMAIN heard : heard[i].body \in remote.announced \cup {remote.src}

\* A session that has been gone for as long as the timeout is not shown to
\* anyone, whatever was still queued, being asked for or on its way.
GoneIsNotShown == remote.src = 0 /\ goneFor > SessionTimeout => unswept(directory) = None

\* While the browser lists a device as resolved, the directory has it with what it now
\* says, two rounds of questions after its last change and one more for every fault there
\* was: a DESCRIBE that fails is made up for, as long as the failures do not outlast the
\* timeout. It says nothing of a device the browser has dropped: its entry is kept for
\* ServiceTimeout after the responder last said it, registered or not, and such a device
\* is then asked no more and ages out (see AnnouncedIsListed).
StillThereIsListed ==
  phase = "run" /\ remote.src # 0 /\ service # None /\ service[1].resolved
    /\ steady >= faults + 2 /\ faults < SessionTimeout
  => unswept(directory) # None /\ directory[1].body = remote.src

\* The directory is deleted only when no thread can still file into it.
NoOneFilesLate == phase = "deleted" => listener = Ended /\ worker = Ended

\* What the listener lists and what the directory shows, each within the time it is given:
\* no withdrawn session in the listener's list, none in the directory that has been gone
\* for longer than the timeout, the session of a device the browser lists, and nothing
\* filed by a thread that outlives its directory.
DirectoryTells == WithdrawnIsForgotten /\ GoneIsNotShown /\ StillThereIsListed /\ NoOneFilesLate

\* A session that stays is heard for good, however the interface flapped and
\* whatever was lost, for as long as anybody listens.
HeardInTheEnd == <>[](phase = "run" /\ remote.src # 0 => knows(remote.src))

\* Refuted: every announcement reaches the directory; while the session is announced and
\* nothing is lost, a reader is shown it.
AnnouncedIsListed ==
  phase = "run" /\ steady >= 2 /\ remote.src # 0 /\ remote.orderly /\ faults = 0
    => unswept(directory) # None
================================================================================
