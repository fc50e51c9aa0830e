--------------------------- MODULE DriverConnection ---------------------------
(***************************************************************************)
(* The Mac driver under a controller: ConnectionAPIServer.cpp, which copies*)
(* the driver's live streams into the Connection API once before each      *)
(* request, and the two patchers of AES67Device.cpp that carry activations *)
(* out on the streams. One request carries out every promise that has come *)
(* due and then its own patches, with no copy in between. The streams are  *)
(* the StreamManager's: others add, remove and re-point them too, without  *)
(* the server's mutex, between the copy, the activations and the calls to  *)
(* the manager that one activation is made of.                             *)
(***************************************************************************)
EXTENDS ConnectionApi, FiniteSets

CONSTANTS
  MaxDriverRequests, \* bound: requests served
  MaxChanges,      \* bound: changes others make to the streams
  DriverRequests   \* what a request asks: a sequence of patches, each <<id, patch>>

\* One transmit stream, one receive stream, and the free receiver that lets a
\* controller subscribe a machine that takes nothing.
Sender == "sender"
Receiver == "receiver"
Free == "free"
Ids == {Sender, Receiver, Free}
Absent == <<>>

\* The patches that occur in requests.
DriverPatches == UNION {{a[k][2] : k \in DOMAIN a} : a \in DriverRequests}

ASSUME DriverAssumption ==
  /\ {MaxDriverRequests, MaxChanges} \subseteq Nat
  /\ DriverRequests \subseteq Seq(Ids \X DriverPatches)

VARIABLES
  streams,         \* what the driver has: Sender and Receiver -> none or a stream
  stopped,         \* stoppedSenders_: none, or the stream a controller stopped
  api,             \* the API's resources: Ids -> none or a resource
  seeded,          \* seeded_: what each looked like when it was copied
  pc,              \* "idle", "synced" after the copy, "handling" in api_.handle()
  dueNow,          \* what is left of the request: the promises that are due,
  asking,          \* and then its patches
  doing,           \* none, or the activation whose calls to the manager are under way
  touched,         \* history: streams moved, since their resource was last copied,
                   \* by other than its own activation
  driverRequests, changes

driverVars == <<streams, stopped, api, seeded, pc, dueNow, asking, doing, touched, driverRequests, changes>>

OwnPort == 1             \* the source port the sender was made with
Ephemeral == 0           \* the port the system picks when none is asked for
Stream(g, w, port) == <<[group |-> g, width |-> w, port |-> port]>>

DriverInit ==
  /\ streams = [id \in {Sender, Receiver} |->
                  Stream(1, 2, IF id = Sender THEN OwnPort ELSE Ephemeral)]
  /\ stopped = Absent
  /\ api = [id \in Ids |-> Absent] /\ seeded = [id \in Ids |-> Absent]
  /\ pc = "idle" /\ dueNow = <<>> /\ asking = <<>> /\ doing = <<>> /\ touched = {}
  /\ driverRequests = 0 /\ changes = 0

(***************************************************************************)
(* The server                                                              *)
(***************************************************************************)

present(x) ==
  IF x = Absent THEN Absent ELSE <<[enable |-> TRUE, group |-> x[1].group, width |-> x[1].width]>>

\* The senders that transmit, the receivers that take something, and the free
\* receiver, which takes nothing.
connectionSenders == [id \in {Sender} |-> present(streams[id])]
connectionReceivers ==
  [id \in {Receiver, Free} |->
     IF id = Free THEN <<[enable |-> FALSE, group |-> Null, width |-> 0]>>
     ELSE present(streams[id])]
listed(id) == IF id = Sender THEN connectionSenders[id] ELSE connectionReceivers[id]

fresh(id, x) ==
  Resource([enable |-> x.enable, file |-> IF id = Free THEN NoFile ELSE Sdp(x.group, x.width),
            group |-> IF id = Receiver THEN x.group ELSE Null, mode |-> "null"])

changed(id) == seeded[id] # listed(id)

\* Mutant: a resource the driver no longer lists is left in the API.
level_keeps(id) == IF listed(id) = Absent \/ ~changed(id) THEN api[id]
                   ELSE <<fresh(id, listed(id)[1])>>

\* syncResources() of one resource: what the driver changed is copied afresh,
\* with whatever was staged or promised on it, and what it no longer has goes.
level(id) ==
  IF listed(id) = Absent THEN Absent
  ELSE IF changed(id) THEN <<fresh(id, listed(id)[1])>> ELSE api[id]

syncResources ==
  /\ pc = "idle" /\ driverRequests < MaxDriverRequests
  /\ api' = [id \in Ids |-> level(id)]
  /\ seeded' = [id \in Ids |-> listed(id)]
  /\ touched' = {id \in touched : listed(id) # Absent /\ ~changed(id)}
  /\ pc' = "synced" /\ driverRequests' = driverRequests + 1
  /\ UNCHANGED <<streams, stopped, dueNow, asking, doing, changes>>

(***************************************************************************)
(* The driver's patchers: what each looks at, what it then asks of the     *)
(* manager, call by call, and whether it says the activation was taken.    *)
(***************************************************************************)

\* legOntoPatch(): the group fixed by hand is read from what is staged when the
\* activation is carried out, and goes before the one in the file.
target(x, chosen) ==
  IF x.staged.group \in Groups THEN x.staged.group
  ELSE IF chosen.file.kind = "sdp" THEN chosen.file.group ELSE Null

\* The calls still to make, the stream they are to leave, the sender to remember,
\* and whether the stream looked at is still the same one.
Plan(calls, want, park) == [calls |-> calls, want |-> want, park |-> park, intact |-> TRUE]
Taken == Plan("none", Absent, Absent)
NotTaken == Plan("refuse", Absent, Absent)

sourcePort(now) == now[1].port

\* applySenderConnectionPatch(): a sender that is switched off is remembered
\* with its port and started again from there; one that moves is closed and
\* opened anew.
applySenderConnectionPatch(x, chosen) ==
  LET now == streams[Sender]
      known == IF now = Absent THEN stopped ELSE now
      g == IF target(x, chosen) = Null THEN known[1].group ELSE target(x, chosen)
  IN IF known = Absent THEN NotTaken
     ELSE IF now = Absent
     THEN IF ~chosen.enable THEN Taken
          ELSE Plan("open", Stream(g, known[1].width, sourcePort(known)), Absent)
     ELSE IF ~chosen.enable THEN Plan("close", Absent, now)
     ELSE IF g = now[1].group THEN Taken
     ELSE Plan("closeThenOpen", Stream(g, now[1].width, sourcePort(now)), Absent)

\* applyConnectionPatch(): a receiver is closed or goes where sink-follow would
\* take it.
applyConnectionPatch(x, chosen) ==
  LET now == streams[Receiver]
      g == IF target(x, chosen) = Null THEN now[1].group ELSE target(x, chosen)
      w == IF chosen.file.kind = "sdp" THEN chosen.file.width ELSE now[1].width
  IN IF now = Absent THEN NotTaken
     ELSE IF ~chosen.enable THEN Plan("close", Absent, Absent)
     ELSE IF chosen.file.kind = "bad" THEN NotTaken
     ELSE Plan("repoint", Stream(g, w, Ephemeral), Absent)

\* subscribeSpareReceiver(): a new receive stream, which needs its description.
subscribeSpareReceiver(x, chosen) ==
  IF ~chosen.enable THEN Taken
  ELSE IF chosen.file.kind # "sdp" THEN NotTaken
  ELSE Plan("open", Stream(target(x, chosen), chosen.file.width, Ephemeral), Absent)

patcher(id, x, chosen) ==
  CASE id = Sender -> applySenderConnectionPatch(x, chosen)
    [] id = Receiver -> applyConnectionPatch(x, chosen)
    [] id = Free -> subscribeSpareReceiver(x, chosen)

\* The stream an activation is about: the free receiver's becomes the receiver's.
streamOf(id) == IF id = Free THEN Receiver ELSE id

\* A sender is activated on the file it has, which then describes it anew.
ownFile(id, x, s) == IF id = Sender THEN [s EXCEPT !.file = x.active.file] ELSE s
refiled(id, x) == IF id = Sender THEN [x EXCEPT !.staged.file = x.active.file] ELSE x

\* The activation ends and, if it was taken, is active.
ends(id, x, chosen, taken) ==
  /\ doing' = <<>>
  /\ api' = [api EXCEPT ![id] = <<IF taken THEN refiled(id, took(x, chosen)) ELSE x>>]

\* The activation of resource id begins, in the state x of it, with what is
\* chosen: at once, or with calls to make.
activate(id, x, s) ==
  LET chosen == resolved(ownFile(id, x, s))
      plan == patcher(id, x, chosen)
  IN /\ IF plan.calls \in {"none", "refuse"}
        THEN ends(id, x, chosen, plan.calls = "none")
        ELSE /\ doing' = <<[id |-> id, chosen |-> chosen, plan |-> plan]>>
             /\ api' = [api EXCEPT ![id] = <<x>>]
     /\ stopped' = IF plan.park = Absent THEN stopped ELSE plan.park
     /\ UNCHANGED <<streams, touched>>

Calling(d, calls) ==
  /\ doing # <<>> /\ d = doing[1] /\ d.plan.calls \in calls
  /\ UNCHANGED <<seeded, pc, dueNow, asking, driverRequests, changes>>

\* removeStream(): by the identity that was looked up; a receiver's is looked up
\* again just before, and one that is gone already is what was asked for.
removeStream ==
  \E d \in {doing[k] : k \in DOMAIN doing} :
    /\ Calling(d, {"close", "closeThenOpen"})
    /\ LET still == d.plan.intact \/ d.id = Receiver
       IN /\ streams' = IF still THEN [streams EXCEPT ![d.id] = Absent] ELSE streams
          /\ IF still /\ d.plan.calls = "closeThenOpen"
             THEN /\ doing' = <<[d EXCEPT !.plan.calls = "reopen"]>>
                  /\ UNCHANGED api
             ELSE ends(d.id, api[d.id][1], d.chosen, still)
    /\ UNCHANGED <<stopped, touched>>

\* createTxStream() or addStream(): h is what the sockets and the mapper answer.
\* The channels of a stream that is there are not to be had. A sender that was
\* stopped is not remembered any more.
openStream ==
  \E d \in {doing[k] : k \in DOMAIN doing}, h \in BOOLEAN :
    LET slot == streamOf(d.id)
        opened == h /\ streams[slot] = Absent
    IN /\ Calling(d, {"open", "reopen"})
       /\ streams' = IF opened THEN [streams EXCEPT ![slot] = d.plan.want] ELSE streams
       /\ stopped' = IF opened /\ d.id = Sender /\ d.plan.calls = "open" THEN Absent ELSE stopped
       /\ touched' = IF opened /\ d.id = Free THEN touched \cup {Receiver} ELSE touched
       /\ ends(d.id, api[d.id][1], d.chosen, opened)

\* updateReceiveStreamsFromAnnouncement(): a stream of another width, or one that
\* is already there, is not taken; one that cannot be opened leaves none.
repoint ==
  \E d \in {doing[k] : k \in DOMAIN doing}, h \in BOOLEAN :
    LET now == streams[Receiver]
        moves == now # Absent /\ now[1].width = d.plan.want[1].width
                 /\ now[1].group # d.plan.want[1].group
    IN /\ Calling(d, {"repoint"})
       /\ streams' = IF ~moves THEN streams
                     ELSE [streams EXCEPT ![Receiver] = IF h THEN d.plan.want ELSE Absent]
       /\ ends(d.id, api[d.id][1], d.chosen, moves /\ h)
       /\ UNCHANGED <<stopped, touched>>

(***************************************************************************)
(* Requests                                                                *)
(***************************************************************************)

\* applyDueActivations(): the promises whose time has come when the request is
\* served, the sender's first and the receivers' in the order of their ids.
waitingIds == {id \in Ids : api[id] # Absent /\ api[id][1].pending # NotWaiting}
Queues ==
  {q \in UNION {[1..n -> Ids] : n \in 0..3} :
     \A k \in DOMAIN q : (q[k] = Sender => k = 1) /\ \A j \in 1..(k - 1) : q[j] # q[k]}

\* api_.handle() begins: what is due, then what is asked. A request that asks
\* nothing is a GET.
handle ==
  /\ pc = "synced" /\ pc' = "handling"
  /\ \E q \in Queues : (\A k \in DOMAIN q : q[k] \in waitingIds) /\ dueNow' = q
  /\ asking' \in DriverRequests
  /\ UNCHANGED <<streams, stopped, api, seeded, doing, touched, driverRequests, changes>>

keepPromise(id) == activate(id, forgetPromise(api[id][1]), due(api[id][1]))

\* patchStagedSender() and patchStagedReceiver(); a resource the API does not have
\* is answered 404.
patch(id, p) ==
  LET x == api[id][1]
      s == IF id = Sender THEN stagedSender(x.staged, p, x.active.file)
           ELSE stagedReceiver(x.staged, p)
      v == verdict(s, p, id = Sender)
      only(y) == api' = [api EXCEPT ![id] = <<y>>] /\ UNCHANGED <<streams, stopped, doing, touched>>
  IN IF api[id] = Absent \/ v = "illegal" THEN UNCHANGED <<api, streams, stopped, doing, touched>>
     ELSE CASE v \in {"staged", "refused"} -> only(stage(x, s))
            [] v = "scheduled" -> only(promise(x, s))
            [] OTHER -> activate(id, stage(x, s), [s EXCEPT !.mode = "immediate"])

\* The next thing the request is to do; when there is none it is answered.
nextOfRequest ==
  /\ pc = "handling" /\ doing = <<>>
  /\ \/ /\ dueNow # <<>> /\ dueNow' = Tail(dueNow)
        /\ keepPromise(Head(dueNow))
        /\ UNCHANGED asking
     \/ /\ dueNow = <<>> /\ asking # <<>> /\ asking' = Tail(asking)
        /\ patch(Head(asking)[1], Head(asking)[2])
        /\ UNCHANGED dueNow
  /\ UNCHANGED <<seeded, pc, driverRequests, changes>>

answerRequest ==
  /\ pc = "handling" /\ doing = <<>> /\ dueNow = <<>> /\ asking = <<>>
  /\ pc' = "idle"
  /\ UNCHANGED <<streams, stopped, api, seeded, dueNow, asking, doing, touched,
                 driverRequests, changes>>

(***************************************************************************)
(* What others do to the streams                                           *)
(***************************************************************************)

\* A stream others move is not the one an activation has looked at.
Change(id, stream) ==
  /\ changes < MaxChanges /\ changes' = changes + 1
  /\ streams' = [streams EXCEPT ![id] = stream]
  /\ touched' = touched \cup {id}
  /\ doing' = [k \in DOMAIN doing |->
                 IF streamOf(doing[k].id) = id THEN [doing[k] EXCEPT !.plan.intact = FALSE]
                 ELSE doing[k]]
  /\ UNCHANGED <<stopped, api, seeded, pc, dueNow, asking, driverRequests>>

\* A stream is removed, added by hand, or followed to another group.
streamRemoved(id) == streams[id] # Absent /\ Change(id, Absent)
streamAdded(id) ==
  /\ streams[id] = Absent
  /\ Change(id, Stream(1, 2, IF id = Sender THEN OwnPort ELSE Ephemeral))
sinkFollows(g) ==
  LET now == streams[Receiver]
  IN /\ now # Absent /\ now[1].group # g
     /\ Change(Receiver, Stream(g, now[1].width, now[1].port))

-------------------------------------------------------------------------------

DriverNext ==
  \/ syncResources
  \/ handle \/ nextOfRequest \/ removeStream \/ openStream \/ repoint \/ answerRequest
  \/ \E id \in {Sender, Receiver} : streamRemoved(id) \/ streamAdded(id)
  \/ \E g \in Groups : sinkFollows(g)

DriverSpec == DriverInit /\ [][DriverNext]_driverVars

-------------------------------------------------------------------------------

\* When a request has been copied for, the API has a resource active exactly when
\* the driver has its stream, however the activations of the requests before it
\* ended: taken, refused half-way by the sockets, carried out late, or with others at
\* the streams between their calls. The exception is a stream that was moved, since
\* its resource was last copied, by other than its own activation: put back as it was,
\* it is not copied again, and what was activated in between stands.
OnIsOn ==
  pc = "synced" =>
    \A id \in {Sender, Receiver} \ touched :
      IF streams[id] = Absent THEN api[id] = Absent
      ELSE api[id] # Absent /\ api[id][1].active.enable

\* A sender keeps its source port, which is what a Dolby receiver knows a flow
\* by, however often a controller moves it, stops it or starts it again.
PortIsKept == \A x \in {streams[Sender], stopped} : x # Absent => x[1].port = OwnPort

\* The driver and what the API says of it agree.
DriverAgrees == OnIsOn /\ PortIsKept

\* Refuted: the exception is needed even where only controllers move the streams: one
\* request may switch a receiver off and subscribe the free one to the same stream.
OnIsOnAlone ==
  pc = "synced" /\ changes = 0 =>
    \A id \in {Sender, Receiver} :
      streams[id] # Absent => api[id] # Absent /\ api[id][1].active.enable

\* Refuted: a sender that a controller stopped can be patched on again: the API has it.
StoppedIsReachable ==
  pc = "synced" /\ stopped # Absent /\ streams[Sender] = Absent => api[Sender] # Absent
================================================================================
