-------------------------- MODULE RoutingController --------------------------
(***************************************************************************)
(* NmosController and the routing matrix it draws (RoutingMatrixView): a   *)
(* main-actor object that browses for nodes, reads them all in one pass at *)
(* a time, and turns clicks into PATCHes.  Between two awaits anything     *)
(* else may run: another click, a Bonjour change, the refresh timer.       *)
(*                                                                         *)
(* A node has one receiver and one sender, both named after the node.  A   *)
(* receiver takes one sender or nobody.  There is one fixed sink, a device *)
(* without a control protocol: a sender is addressed at it or it is not.   *)
(***************************************************************************)
EXTENDS Naturals, Sequences, FiniteSets

CONSTANTS
    Nodes,
    Nobody,            \* a receiver that takes nothing, a move from no sender
    MaxBrowseChanges,  \* bound: services that appear or go
    MaxClicks          \* bound: clicks on the matrix

VARIABLES
    announced,         \* the services on the link
    browsed,           \* browse changes whose handler has not run
    resolving,         \* services being resolved
    endpoints,         \* services resolved
    refreshing, refreshAgain,
    pass,              \* the pass under way: targets, known and what it has read
    nodesShown,        \* nodes: what the matrix is drawn from
    tasks,             \* clicks being carried out
    inFlight,          \* receivers and senders whose change is under way
    takes,             \* on the devices: what each receiver takes
    atSink,            \* on the devices: the senders addressed at the sink
    browseChanges, clicks

refreshVars == <<refreshing, refreshAgain, pass>>
deviceVars == <<takes, atSink>>
taskVars == <<tasks, inFlight>>
bonjourVars == <<announced, browsed, resolving, endpoints, browseChanges>>
controllerVars == <<bonjourVars, refreshVars, nodesShown, taskVars, deviceVars, clicks>>

NoPass == [targets |-> {}, known |-> <<>>, read |-> <<>>]

ControllerInit ==
    /\ announced = {} /\ browsed = <<>> /\ resolving = {} /\ endpoints = {}
    /\ refreshing = FALSE /\ refreshAgain = FALSE /\ pass = NoPass
    /\ nodesShown = <<>>
    /\ tasks = {} /\ inFlight = {}
    /\ takes = [n \in Nodes |-> Nobody]
    /\ atSink = {}
    /\ browseChanges = 0 /\ clicks = 0

newPass(targets, known) == [targets |-> targets, known |-> known, read |-> <<>>]

\* Mutant: a refresh asked for during a pass is dropped.
refresh_drops(targets) ==
    IF refreshing THEN UNCHANGED refreshVars
    ELSE refreshing' = TRUE /\ pass' = newPass(targets, nodesShown) /\ UNCHANGED refreshAgain

\* refresh(): one pass at a time; another is coalesced into a re-run.
refresh(targets) ==
    IF refreshing THEN refreshAgain' = TRUE /\ UNCHANGED <<refreshing, pass>>
    ELSE refreshing' = TRUE /\ pass' = newPass(targets, nodesShown) /\ UNCHANGED refreshAgain

(***************************************************************************)
(* Bonjour                                                                 *)
(***************************************************************************)

\* A service appears on the link or leaves it; the browser queues the change
\* with whether its results are now empty.
ServiceChanges(n) ==
    /\ browseChanges < MaxBrowseChanges
    /\ browseChanges' = browseChanges + 1
    /\ announced' = IF n \in announced THEN announced \ {n} ELSE announced \cup {n}
    /\ browsed' = Append(browsed, [node |-> n, added |-> n \notin announced,
                                   noneLeft |-> announced' = {}])
    /\ UNCHANGED <<resolving, endpoints, refreshVars, nodesShown, taskVars, deviceVars, clicks>>

withoutGone(shown, gone) == [n \in DOMAIN shown \ gone |-> shown[n]]

\* browseResultsChangedHandler: resolve(), or forget(), which does nothing for
\* a service that has no endpoint yet; then the empty list.
browseResultsChanged ==
    /\ browsed # <<>>
    /\ LET change == Head(browsed)
           gone   == IF ~change.added THEN endpoints \cap {change.node} ELSE {}
       IN  /\ resolving' = IF change.added THEN resolving \cup {change.node} ELSE resolving \ gone
           /\ endpoints' = endpoints \ gone
           /\ nodesShown' = IF change.noneLeft /\ endpoints' = {} THEN <<>>
                            ELSE withoutGone(nodesShown, gone)
    /\ browsed' = Tail(browsed)
    /\ UNCHANGED <<announced, browseChanges, refreshVars, taskVars, deviceVars, clicks>>

\* The connection opened to learn a host and port is ready, or fails.
serviceResolved(n) ==
    /\ n \in resolving
    /\ resolving' = resolving \ {n}
    /\ \/ endpoints' = endpoints \cup {n} /\ refresh(endpoints')
       \/ UNCHANGED <<endpoints, refreshVars>>
    /\ UNCHANGED <<announced, browsed, browseChanges, nodesShown, taskVars, deviceVars, clicks>>

(***************************************************************************)
(* Reading                                                                 *)
(***************************************************************************)

\* refreshTimer, and the Refresh button.
timerFires ==
    /\ refresh(endpoints)
    /\ UNCHANGED <<bonjourVars, nodesShown, taskVars, deviceVars, clicks>>

\* readNode(): what was known, marked unreachable, ...
unreachable(n) ==
    IF n \in DOMAIN pass.known THEN [pass.known[n] EXCEPT !.reachable = FALSE]
    ELSE [takes |-> Nobody, atSink |-> FALSE, reachable |-> FALSE, whole |-> FALSE]

\* ... or what the node answers: an `active` that cannot be read leaves the
\* default, which is a receiver that takes nothing and a sender going nowhere.
answers(n) ==
    {[takes     |-> IF receiverRead THEN takes[n] ELSE Nobody,
      atSink    |-> senderRead /\ n \in atSink,
      reachable |-> TRUE,
      whole     |-> receiverRead /\ senderRead] : receiverRead, senderRead \in BOOLEAN}

readNode(n) ==
    /\ refreshing
    /\ n \in pass.targets \ DOMAIN pass.read
    /\ \E node \in answers(n) \cup {unreachable(n)} :
          pass' = [pass EXCEPT !.read = [x \in DOMAIN @ \cup {n} |-> IF x = n THEN node ELSE @[x]]]
    /\ UNCHANGED <<refreshing, refreshAgain, bonjourVars, nodesShown, taskVars, deviceVars, clicks>>

\* The end of a pass: publish(), and the re-run that was asked for.
passEnds ==
    /\ refreshing
    /\ DOMAIN pass.read = pass.targets
    /\ nodesShown' = pass.read
    /\ refreshAgain' = FALSE
    /\ refreshing' = refreshAgain
    /\ pass' = IF refreshAgain THEN newPass(endpoints, nodesShown') ELSE NoPass
    /\ UNCHANGED <<bonjourVars, taskVars, deviceVars, clicks>>

(***************************************************************************)
(* Clicks                                                                  *)
(***************************************************************************)

Task(kind, node, arg, pc) ==
    [kind |-> kind, node |-> node, arg |-> arg, pc |-> pc, number |-> clicks]

receiverMark(n) == <<"receiver", n>>
senderMark(n) == <<"sender", n>>

Usable(n) == n \in DOMAIN nodesShown /\ nodesShown[n].reachable

Clicked(task, marks) ==
    /\ clicks < MaxClicks
    /\ clicks' = clicks + 1
    /\ tasks' = tasks \cup {task}
    /\ inFlight' = inFlight \cup marks
    /\ UNCHANGED <<bonjourVars, refreshVars, nodesShown, deviceVars>>

\* cell(): a crosspoint of two nodes that can be told.
clickCrosspoint(r, s) ==
    /\ Usable(r) /\ Usable(s)
    /\ receiverMark(r) \notin inFlight
    /\ IF nodesShown[r].takes = s
       THEN Clicked(Task("disconnect", r, Nobody, "patch"), {receiverMark(r)})
       ELSE Clicked(Task("connect", r, s, "file"), {receiverMark(r)})

\* senderFeeding(): one of the senders shown as addressed at the sink.
feedingSinks == {n \in DOMAIN nodesShown : nodesShown[n].atSink}

\* fixedSinkCell(): stop the feed, or move it here.
clickSink(s) ==
    /\ Usable(s)
    /\ senderMark(s) \notin inFlight
    /\ IF feedingSinks = {} THEN Clicked(Task("move", s, Nobody, "start"), {})
       ELSE \E feeding \in feedingSinks :
               IF feeding = s THEN Clicked(Task("stop", s, Nobody, "patch"), {senderMark(s)})
               ELSE Clicked(Task("move", s, feeding, "start"), {})

\* A task runs up to its next await: marks taken off before marks put on.
Goes(t, next, off, on) ==
    /\ tasks' = (tasks \ {t}) \cup next
    /\ inFlight' = (inFlight \ off) \cup on
    /\ UNCHANGED <<bonjourVars, nodesShown, clicks>>

\* The last lines of every task: refresh(), and the mark comes off, whoever
\* else put it on.
Ends(t, mark) == Goes(t, {}, {mark}, {}) /\ refresh(endpoints)

\* connect(): the transport file first, without which nothing is patched.
transportFile(t) ==
    /\ t \in tasks /\ t.pc = "file"
    /\ \/ Goes(t, {[t EXCEPT !.pc = "patch"]}, {}, {}) /\ UNCHANGED refreshVars
       \/ Ends(t, receiverMark(t.node))
    /\ UNCHANGED deviceVars

\* The PATCH of connect(), disconnect() and stop(): applied or not, whatever
\* the answer was; an error is shown and the task goes on to refresh().
sendPatch(t) ==
    /\ t \in tasks /\ t.pc = "patch"
    /\ \E applied \in BOOLEAN :
          /\ takes' = IF applied /\ t.kind # "stop" THEN [takes EXCEPT ![t.node] = t.arg] ELSE takes
          /\ atSink' = IF applied /\ t.kind = "stop" THEN atSink \ {t.node} ELSE atSink
    /\ Ends(t, IF t.kind = "stop" THEN senderMark(t.node) ELSE receiverMark(t.node))

\* sendTo() up to its await; a sender that is not shown any more is given up.
sendTo(t, off) ==
    IF t.node \in DOMAIN nodesShown
    THEN Goes(t, {[t EXCEPT !.pc = "send"]}, off, {senderMark(t.node)}) /\ UNCHANGED refreshVars
    ELSE Goes(t, {}, off, {}) /\ refresh(endpoints)

\* move(): the sender that had the feed, if it is still shown, is stopped ...
moveStarts(t) ==
    /\ t \in tasks /\ t.pc = "start"
    /\ IF t.arg \in DOMAIN nodesShown
       THEN Goes(t, {[t EXCEPT !.pc = "stop"]}, {}, {senderMark(t.arg)}) /\ UNCHANGED refreshVars
       ELSE sendTo(t, {})
    /\ UNCHANGED deviceVars

\* ... and its failure is only noted: ...
moveStops(t) ==
    /\ t \in tasks /\ t.pc = "stop"
    /\ atSink' \in {atSink, atSink \ {t.arg}}
    /\ UNCHANGED takes
    /\ sendTo(t, {senderMark(t.arg)})

\* ... the new one is sent there either way.
moveSends(t) ==
    /\ t \in tasks /\ t.pc = "send"
    /\ atSink' \in {atSink, atSink \cup {t.node}}
    /\ UNCHANGED takes
    /\ Ends(t, senderMark(t.node))

ControllerNext ==
    \/ \E n \in Nodes : ServiceChanges(n) \/ serviceResolved(n) \/ readNode(n) \/ clickSink(n)
    \/ \E r, s \in Nodes : clickCrosspoint(r, s)
    \/ browseResultsChanged \/ timerFires \/ passEnds
    \/ \E t \in tasks : transportFile(t) \/ sendPatch(t) \/ moveStarts(t) \/ moveStops(t) \/ moveSends(t)

ControllerSpec == ControllerInit /\ [][ControllerNext]_controllerVars

(***************************************************************************)
(* "after every PATCH the receiver's `active` is what is shown, not what   *)
(* was asked": when no task and no pass is under way, whatever is shown as *)
(* reachable and was read whole is what the device has, although passes    *)
(* read the nodes at different times and PATCHes overlap them.             *)
(***************************************************************************)
ShownIsActive ==
    ~refreshing /\ tasks = {} =>
        \A n \in DOMAIN nodesShown :
            nodesShown[n].reachable /\ nodesShown[n].whole =>
                nodesShown[n].takes = takes[n] /\ nodesShown[n].atSink = (n \in atSink)

(***************************************************************************)
(* Refuted:                                                                *)
(* "one sender per destination, because two on one address is a collision" *)
(* (RoutingMatrixView, helpText): what the ordering inside move() is for.  *)
(***************************************************************************)
OneSenderPerSink == Cardinality(atSink) <= 1
=============================================================================
