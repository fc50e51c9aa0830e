----------------------------- MODULE Registration -----------------------------
(***************************************************************************)
(* Telling an NMOS registry what this host is and carries, and keeping it  *)
(* told. Two clients exist and a host runs one of them: the Mac driver's   *)
(* NMOSRegistrationClient, with a heartbeat thread, a sync thread and      *)
(* streams that come and go under both; and the RAVENNA daemon's           *)
(* RegistrationClient, one thread that registers everything at once.       *)
(*                                                                         *)
(* A registry is external: it holds the node, its device (with the list of *)
(* streams the device names) and one resource per stream (the source, flow *)
(* and sender, or the receiver, that are posted one after the other). It   *)
(* refuses what hangs from something it does not hold, answers 200 without *)
(* taking the new content when it already holds the id, and forgets all    *)
(* that is under a node it drops.                                          *)
(***************************************************************************)
EXTENDS Naturals, Sequences, SequencesExt, FiniteSets

CONSTANTS
  Registries,     \* 1..n, in the order of their priority
  Streams,
  MaxFaults,      \* bound: requests or answers lost, registries stopped, ...
  MaxChanges      \* bound: streams added or removed

\* What is posted besides the streams.
Node == "node"
Device == "device"

ASSUME RegistrationAssumption ==
  /\ IsFiniteSet(Registries) /\ Registries # {} /\ Registries = 1..Cardinality(Registries)
  /\ IsFiniteSet(Streams) /\ {MaxFaults, MaxChanges} \subseteq Nat
  /\ {Node, Device} \cap Streams = {}

VARIABLES
  client,         \* which client this host runs
  reg,            \* the registries
  known,          \* those the RegistryBrowser has heard; never forgotten
  cur,            \* registry_, or the RAVENNA client's active; 0 is none
  registered,     \* registered_
  streams,        \* what the host carries
  requested,      \* nmosSyncRequested_
  pc,             \* the thread that posts: "idle", "posts" or "deletes"
  todo,           \* what it still has to post or delete
  snapshot,       \* the streams it read when it began
  published_,     \* the streams of the last sync
  postFailed,     \* history: a post of the last sync was not taken
  leftovers,      \* history: the registry may hold what no sync will put right
  seeking,        \* failOverTo(): the candidates still to be tried
  refused,        \* RAVENNA: registries tried and refused
  phase,          \* "starting", "running", "joining" (the sync thread),
                  \* "leaving" (heartbeats stopped), "gone", "without" a client
  faults, changes

hostVars == <<cur, registered, streams>>
syncVars == <<requested, pc, todo, snapshot, published_, postFailed>>
walkVars == <<seeking, refused>>
regVars == <<client, reg, known, hostVars, syncVars, leftovers, walkVars, phase, faults,
             changes>>

EmptyRegistry == [up |-> TRUE, node |-> FALSE, hasDev |-> FALSE, dev |-> {}, res |-> {}]
\* What an earlier run of this host that ended without a word has left.
StaleRegistry == [EmptyRegistry EXCEPT !.node = TRUE, !.hasDev = TRUE, !.dev = Streams,
                                       !.res = Streams]
first(S) == CHOOSE r \in S : \A k \in S : r <= k

RegistrationInit ==
  /\ client \in {"driver", "ravenna"}
  /\ reg \in [Registries -> {EmptyRegistry, StaleRegistry}]
  /\ known \in {{}, Registries}
  /\ cur = 0 /\ registered = FALSE
  /\ streams \in SUBSET Streams
  /\ requested = FALSE /\ pc = "idle" /\ todo = <<>> /\ snapshot = {} /\ published_ = {}
  /\ postFailed = FALSE /\ leftovers = FALSE
  /\ seeking = {} /\ refused = {} /\ phase = "starting" /\ faults = 0 /\ changes = 0

(***************************************************************************)
(* The registry, and one HTTP exchange with it. An exchange that fails was *)
(* lost on the way there or, the request having been taken, on the way     *)
(* back; at a registry that is down it always fails.                       *)
(***************************************************************************)

Fault == faults < MaxFaults /\ faults' = faults + 1

\* A resource is taken only under the one it names: a device under its node,
\* a stream under its device.
Accepts(g, x) == CASE x = Node -> TRUE [] x = Device -> g.node [] OTHER -> g.hasDev
Put(g, x, list) ==
  CASE x = Node -> [g EXCEPT !.node = TRUE]
    [] x = Device -> [g EXCEPT !.hasDev = TRUE, !.dev = list]
    [] OTHER -> [g EXCEPT !.res = @ \cup {x}]
Drop(g, x) ==
  CASE x = Node -> [EmptyRegistry EXCEPT !.up = g.up]
    [] x = Device -> [g EXCEPT !.hasDev = FALSE, !.dev = {}]
    [] OTHER -> [g EXCEPT !.res = @ \ {x}]

\* The exchanges with registry r that leave it as g, the last one answered; and
\* those of which one was not, which leave it as it was or as one of S.
Answered(r, g) == reg[r].up /\ reg' = [reg EXCEPT ![r] = g] /\ UNCHANGED faults
Unanswered(r, S) ==
  \/ ~reg[r].up /\ UNCHANGED <<reg, faults>>
  \/ reg[r].up /\ Fault /\ \E g \in S \cup {reg[r]} : reg' = [reg EXCEPT ![r] = g]

\* A registry stops, comes back empty, or drops a node that went quiet.
registryFails(r) ==
  /\ Fault
  /\ \/ reg[r].up /\ reg' = [reg EXCEPT ![r].up = FALSE]
     \/ reg[r].node /\ reg' = [reg EXCEPT ![r] = Drop(@, Node)]
  /\ UNCHANGED <<client, known, hostVars, syncVars, leftovers, walkVars, phase, changes>>

registryReturns(r) ==
  /\ ~reg[r].up
  /\ reg' = [reg EXCEPT ![r] = EmptyRegistry]
  /\ UNCHANGED <<client, known, hostVars, syncVars, leftovers, walkVars, phase, faults, changes>>

\* RegistryBrowser::service(): an advertisement is heard, and kept for good.
browse(r) ==
  /\ r \notin known
  /\ known' = known \cup {r}
  /\ UNCHANGED <<client, reg, hostVars, syncVars, leftovers, walkVars, phase, faults, changes>>

(***************************************************************************)
(* The driver                                                              *)
(***************************************************************************)

\* requestNMOSSync(), from a stream callback or from the heartbeat thread.
requestNMOSSync == requested' = (requested \/ phase = "running")

streamChanges(s) ==
  /\ client = "driver" /\ phase \in {"starting", "running", "without"}
  /\ changes < MaxChanges /\ changes' = changes + 1
  /\ streams' = IF s \in streams THEN streams \ {s} ELSE streams \cup {s}
  /\ requestNMOSSync
  /\ UNCHANGED <<client, reg, known, cur, registered, pc, todo, snapshot, published_,
                 postFailed, leftovers, walkVars, phase, faults>>

\* postNode(): a registry that already holds the node is made to forget it
\* before it is posted again, so what hung from it goes too.
postNode(r) ==
  \/ /\ Answered(r, [EmptyRegistry EXCEPT !.node = TRUE])
     /\ registered' = TRUE
  \/ /\ Unanswered(r, {Put(Drop(reg[r], Node), Node, {})}
                        \cup (IF reg[r].node THEN {Drop(reg[r], Node)} ELSE {}))
     /\ registered' = FALSE

\* discoverRegistry() and registerWith() what it found first, once. Without
\* one the device goes on with no client; with it the two threads start and a
\* first sync is requested.
registerWith ==
  /\ client = "driver" /\ phase = "starting"
  /\ \/ /\ known = {} /\ registered' = FALSE /\ cur' = 0 /\ UNCHANGED <<reg, faults>>
     \/ /\ known # {} /\ postNode(first(known))
        /\ cur' = IF registered' THEN first(known) ELSE 0
  /\ phase' = IF registered' THEN "running" ELSE "without"
  /\ requested' = registered'
  /\ UNCHANGED <<client, known, streams, pc, todo, snapshot, published_, postFailed,
                 leftovers, walkVars, changes>>

\* heartbeat() at r: 200; 404, answered by registering from nothing and asking
\* the sync thread for the rest; or no answer.
beat(r) ==
  \/ /\ reg[r].node /\ Answered(r, reg[r])
     /\ registered' = TRUE /\ UNCHANGED requested
  \/ /\ ~reg[r].node /\ reg[r].up
     /\ postNode(r)
     /\ IF registered' THEN requestNMOSSync ELSE UNCHANGED requested
  \/ /\ Unanswered(r, {})
     /\ registered' = FALSE /\ UNCHANGED requested

\* What a beat at its own registry r leaves that no sync will put right: nothing
\* once the node is registered from nothing, and the node alone when that was
\* taken but its answer was lost.
leftBehind(r) ==
  IF registered' THEN reg[r].node /\ leftovers ELSE leftovers \/ reg'[r] # reg[r]

beating == client = "driver" /\ phase \in {"running", "joining"}

\* One turn of the heartbeat thread. A lost beat is enough to look elsewhere:
\* the candidates are those the browser knows, without the one that failed.
heartbeat ==
  /\ beating /\ seeking = {}
  /\ beat(cur)
  /\ leftovers' = leftBehind(cur)
  /\ seeking' = IF registered' THEN {} ELSE known \ {cur}
  /\ UNCHANGED <<client, known, cur, streams, pc, todo, snapshot, published_, postFailed,
                 refused, phase, changes>>

\* One candidate of failOverTo(): registry_ becomes the candidate before it is
\* asked and stays there when none of them answers. The sync thread is not
\* told unless the candidate had never heard of the node.
failOverTo ==
  /\ beating /\ seeking # {}
  /\ LET r == first(seeking)
     IN /\ cur' = r
        /\ beat(r)
        /\ leftovers' = (reg[r].node \/ ~registered')
        /\ seeking' = IF registered' THEN {} ELSE seeking \ {r}
  /\ UNCHANGED <<client, known, streams, pc, todo, snapshot, published_, postFailed,
                 refused, phase, changes>>

\* The sync thread takes the request, then reads the streams, then posts.
syncBegins ==
  /\ pc = "idle" /\ requested /\ phase = "running"
  /\ requested' = FALSE
  /\ snapshot' = streams
  /\ todo' = <<Device>> \o SetToSeq(streams)
  /\ pc' = "posts" /\ postFailed' = FALSE
  /\ UNCHANGED <<client, reg, known, hostVars, published_, leftovers, walkVars, phase, faults,
                 changes>>

\* postResource(): 201 takes it; 200 is a copy that may be stale, so it is
\* deleted and posted again; a refusal or a failure is only remembered.
postResource ==
  LET x == Head(todo)
      g == reg[cur]
  IN /\ client = "driver" /\ pc = "posts" /\ todo # <<>>
     /\ \/ Accepts(g, x) /\ Answered(cur, Put(g, x, snapshot)) /\ UNCHANGED postFailed
        \/ ~Accepts(g, x) /\ Answered(cur, g) /\ postFailed' = TRUE
        \/ /\ Unanswered(cur, {h \in {Drop(g, x), Put(g, x, snapshot)} : Accepts(g, x)})
           /\ postFailed' = TRUE
     /\ todo' = Tail(todo)
     /\ UNCHANGED <<client, known, hostVars, requested, pc, snapshot, published_, leftovers,
                    walkVars, phase, changes>>

\* The streams of the last sync that are not in this one are to be deleted.
syncPosted ==
  /\ client = "driver" /\ pc = "posts" /\ todo = <<>>
  /\ published_' = snapshot
  /\ todo' = SetToSeq(published_ \ snapshot)
  /\ pc' = "deletes"
  /\ UNCHANGED <<client, reg, known, hostVars, requested, snapshot, postFailed, leftovers,
                 walkVars, phase, faults, changes>>

\* deleteResource(): its answer is not looked at, and published_ has already
\* forgotten what was to be deleted.
deleteResource ==
  /\ pc = "deletes" /\ todo # <<>>
  /\ \/ Answered(cur, Drop(reg[cur], Head(todo))) /\ UNCHANGED leftovers
     \/ Unanswered(cur, {Drop(reg[cur], Head(todo))}) /\ leftovers' = TRUE
  /\ todo' = Tail(todo)
  /\ UNCHANGED <<client, known, hostVars, requested, pc, snapshot, published_, postFailed,
                 walkVars, phase, changes>>

\* Mutant: the request is taken when the sync is over.
syncEnds_takes ==
  /\ pc = "deletes" /\ todo = <<>>
  /\ pc' = "idle" /\ requested' = FALSE
  /\ UNCHANGED <<client, reg, known, hostVars, todo, snapshot, published_, postFailed,
                 leftovers, walkVars, phase, faults, changes>>

syncEnds ==
  /\ pc = "deletes" /\ todo = <<>>
  /\ pc' = "idle"
  /\ UNCHANGED <<client, reg, known, hostVars, requested, todo, snapshot, published_,
                 postFailed, leftovers, walkVars, phase, faults, changes>>

\* ~AES67Device(): the sync thread is told to end and joined, then the
\* heartbeats are stopped, then the host unregisters.
shutdown ==
  /\ client = "driver" /\ phase = "running"
  /\ phase' = "joining"
  /\ UNCHANGED <<client, reg, known, hostVars, syncVars, leftovers, walkVars, faults, changes>>

\* The sync thread has ended and the heartbeat thread is joined: it finishes
\* the candidates it is walking through.
stopHeartbeats ==
  /\ phase = "joining" /\ pc = "idle" /\ seeking = {}
  /\ phase' = "leaving"
  /\ UNCHANGED <<client, reg, known, hostVars, syncVars, leftovers, walkVars, faults, changes>>

\* unregister(): what was published, then the node.
unregister ==
  /\ phase = "leaving"
  /\ phase' = "gone" /\ registered' = FALSE /\ published_' = {}
  /\ \/ Answered(cur, Drop(reg[cur], Node)) /\ UNCHANGED leftovers
     \/ Unanswered(cur, {Drop(reg[cur], Node)}) /\ leftovers' = TRUE
  /\ UNCHANGED <<client, known, cur, streams, requested, pc, todo, snapshot, postFailed,
                 walkVars, changes>>

(***************************************************************************)
(* The RAVENNA daemon's client                                             *)
(***************************************************************************)

idleClient == client = "ravenna" /\ pc = "idle"

\* heartbeat(active): any answer but 200 is a registry to leave.
keepTold ==
  /\ idleClient /\ registered
  /\ \/ reg[cur].node /\ Answered(cur, reg[cur]) /\ UNCHANGED <<registered, refused>>
     \/ /\ (~reg[cur].node /\ Answered(cur, reg[cur])) \/ Unanswered(cur, {})
        /\ registered' = FALSE /\ refused' = refused \cup {cur}
  /\ UNCHANGED <<client, known, cur, streams, syncVars, leftovers, seeking, phase, changes>>

\* takeUp(): 200 counts as registered, 404 is a registry to register with, and
\* anything else is one to pass over.
takeUp ==
  /\ idleClient /\ ~registered /\ known \ refused # {}
  /\ LET r == first(known \ refused)
     IN \/ /\ reg[r].node /\ Answered(r, reg[r])
           /\ registered' = TRUE /\ cur' = r /\ UNCHANGED <<pc, todo, refused>>
        \/ /\ ~reg[r].node /\ Answered(r, reg[r])
           /\ cur' = r /\ pc' = "posts" /\ todo' = <<Node, Device>> \o SetToSeq(streams)
           /\ UNCHANGED <<registered, refused>>
        \/ /\ Unanswered(r, {})
           /\ refused' = refused \cup {r} /\ UNCHANGED <<cur, registered, pc, todo>>
  /\ UNCHANGED <<client, known, streams, requested, snapshot, published_, postFailed,
                 leftovers, seeking, phase, changes>>

\* One post of registerEverything(). Any failure gives the registry up where it
\* stands; the heartbeat after the last one is not looked at.
registerEverything ==
  LET x == Head(todo)
      g == reg[cur]
  IN /\ client = "ravenna" /\ pc = "posts"
     /\ \/ /\ Accepts(g, x)
           /\ Answered(cur, Put(IF x = Node THEN Drop(g, Node) ELSE g, x, streams))
           /\ todo' = Tail(todo)
           /\ pc' = IF todo' = <<>> THEN "idle" ELSE "posts"
           /\ registered' = (todo' = <<>>) /\ UNCHANGED refused
        \/ /\ \/ ~Accepts(g, x) /\ Answered(cur, g)
              \/ Unanswered(cur, {h \in {Put(g, x, streams)} : Accepts(g, x)})
           /\ todo' = <<>> /\ pc' = "idle"
           /\ refused' = refused \cup {cur} /\ UNCHANGED registered
     /\ UNCHANGED <<client, known, cur, streams, requested, snapshot, published_, postFailed,
                    leftovers, seeking, phase, changes>>

\* Mutant: the list of the refused is kept.
startOver_never == UNCHANGED regVars

\* Nothing is left to try: the list starts again after a wait.
startOver ==
  /\ idleClient /\ ~registered /\ refused # {} /\ known \subseteq refused
  /\ refused' = {}
  /\ UNCHANGED <<client, reg, known, hostVars, syncVars, leftovers, seeking, phase, faults,
                 changes>>

--------------------------------------------------------------------------------

RegistrationNext ==
  \/ \E r \in Registries : registryFails(r) \/ registryReturns(r) \/ browse(r)
  \/ \E s \in Streams : streamChanges(s)
  \/ registerWith \/ heartbeat \/ failOverTo
  \/ syncBegins \/ postResource \/ syncPosted \/ deleteResource \/ syncEnds
  \/ shutdown \/ stopHeartbeats \/ unregister
  \/ keepTold \/ takeUp \/ registerEverything \/ startOver

\* The threads go on; a registry that stopped is started again and every
\* registry is heard of in the end. Streams need not change and the driver
\* need not end.
RegistrationFairness ==
  /\ \A r \in Registries : WF_regVars(registryReturns(r)) /\ WF_regVars(browse(r))
  /\ WF_regVars(registerWith) /\ WF_regVars(heartbeat) /\ WF_regVars(failOverTo)
  /\ WF_regVars(syncBegins) /\ WF_regVars(postResource) /\ WF_regVars(syncPosted)
  /\ WF_regVars(deleteResource) /\ WF_regVars(syncEnds)
  /\ WF_regVars(stopHeartbeats) /\ WF_regVars(unregister)
  /\ WF_regVars(keepTold) /\ WF_regVars(takeUp) /\ WF_regVars(registerEverything)
  /\ WF_regVars(startOver)

RegistrationSpec == RegistrationInit /\ [][RegistrationNext]_regVars /\ RegistrationFairness

--------------------------------------------------------------------------------

\* A driver whose sync thread is at rest, with nothing requested and no request
\* of its own lost on the way, has told its registry exactly what it carries:
\* the device lists the streams and each is there. Streams that change while a
\* sync runs, a registry that forgets the node in the middle of one, and a
\* failover in the middle of one are all made good by the request they leave.
RegistryTells ==
  client = "driver" /\ phase = "running" /\ pc = "idle" /\ ~requested /\ seeking = {}
    /\ registered /\ ~postFailed /\ ~leftovers /\ reg[cur].up /\ reg[cur].node
  => reg[cur].hasDev /\ reg[cur].dev = streams /\ reg[cur].res = streams

\* A driver that has gone and whose last request was taken is in no registry's
\* list: nothing it left running puts the node back.
GoneIsGone == phase = "gone" /\ ~leftovers => ~reg[cur].node

\* The registry in use says what the driver carries, and nothing once it is gone.
RegistryAgrees == RegistryTells /\ GoneIsGone

\* Whatever registries stop, forget the node or lose an answer, a host with a
\* client that goes on running is registered again in the end.
NodeReturns ==
  []((client = "ravenna" \/ phase = "running")
       => <>((registered /\ reg[cur].node) \/ phase \in {"joining", "leaving", "gone"}))

\* Refuted: a RAVENNA daemon that counts itself registered has given the registry its
\* device and every stream, whatever an earlier run of it had left there.
RegisteredIsComplete ==
  client = "ravenna" /\ registered /\ reg[cur].node
  => reg[cur].hasDev /\ reg[cur].dev = streams /\ reg[cur].res = streams
================================================================================
