------------------------------- MODULE Patchbay -------------------------------
(***************************************************************************)
(* The RAVENNA daemon under a controller: the Connection API (IS-05) that  *)
(* points its receivers at streams and moves its sender, the routing that  *)
(* gives a receiver's stream its device channels (ReceiverRouting.cpp), and*)
(* the Channel Mapping API (IS-08, ChannelMappingApi.cpp) that moves the   *)
(* routes afterwards, all over one StreamChannelMapper. One HTTP thread    *)
(* serves both, so a request is one step; each API carries out the         *)
(* scheduled activations that have come due when it is next asked anything *)
(* and at no other time.                                                   *)
(***************************************************************************)
EXTENDS ConnectionApi, FiniteSets

CONSTANTS
  Receivers,       \* 1..n, in the order of their ids
  Channels,        \* device channels, 0..n
  Patches,         \* the PATCHes controllers send to a receiver
  SenderPatches,   \* and to the sender
  Bulks,           \* pairs of them in one request
  Grids,           \* the IS-08 actions they post
  MaxRequests      \* bound: requests served

ASSUME PatchbayAssumption ==
  /\ IsFiniteSet(Channels) /\ Channels = 0..(Cardinality(Channels) - 1)
  /\ IsFiniteSet(Receivers) /\ Receivers = 1..Cardinality(Receivers)
  /\ MaxRequests \in Nat
  /\ 1 \in Groups
  /\ \A p \in Patches \cup SenderPatches : FileInPatch(p)
  /\ \A b \in Bulks : {b[1], b[3]} \subseteq Receivers /\ FileInPatch(b[2]) /\ FileInPatch(b[4])

VARIABLES
  node,            \* the two APIs' resources and the matrix, see NodeInit
  grid,            \* IS-08's pending_: none, or the one action that waits
  asked,           \* history: the last grid that was taken, until a receiver moves
  requests

vars == <<node, grid, asked, requests>>

Unmapped == [width |-> 0, start |-> 0, routes |-> {}, file |-> NoFile]
Route(s, d) == [streamChannel |-> s, deviceChannel |-> d]
OwnFile == Sdp(1, 2)
DefaultWidth == 2        \* what AES67 has every receiver take: two channels
Silence == 0             \* a cell with no input

NodeInit ==
  [rx |-> [r \in Receivers |-> Resource(Idle)],
   tx |-> Resource([Idle EXCEPT !.file = OwnFile]), sdp |-> OwnFile,
   maps |-> [r \in Receivers |-> Unmapped],             \* of the mapper
   remembered |-> [r \in Receivers |-> {}],             \* rememberedRoutes
   dropped |-> {}]      \* history: who lost its stream to an activation then refused

Init ==
  /\ node = NodeInit /\ grid = <<>> /\ asked = <<>> /\ requests = 0

(***************************************************************************)
(* ReceiverRouting                                                         *)
(***************************************************************************)

connected(m) == m.width > 0

\* deviceChannels(): the routes, or the block when there are none.
deviceChannels(m) ==
  IF m.routes # {} THEN {x.deviceChannel : x \in m.routes}
  ELSE {c \in Channels : m.start <= c /\ c < m.start + m.width}

release(n, r) == [n EXCEPT !.maps[r] = Unmapped]

freeChannels(n) == Channels \ UNION {deviceChannels(n.maps[r]) : r \in Receivers}
freeBlocks(n, w) == {b \in Channels : b..(b + w - 1) \subseteq freeChannels(n)}

\* The grid a controller set before the stream came, as far as the stream has
\* channels for it.
rememberedFor(n, r, w) == {x \in n.remembered[r] : x.streamChannel < w}

\* Mutant: the remembered grid is laid over the block unchecked.
apply_unchecked(n, r, file, enable) ==
  IF ~enable THEN [ok |-> TRUE, n |-> release(n, r)]
  ELSE IF file.kind = "bad" THEN [ok |-> FALSE, n |-> n]
  ELSE LET w == IF file.kind = "none" THEN DefaultWidth ELSE file.width
           freed == release(n, r)
           blocks == freeBlocks(freed, w)
           placed == [width |-> w, start |-> CHOOSE b \in blocks : \A k \in blocks : b <= k,
                      routes |-> rememberedFor(n, r, w), file |-> file]
       IN IF blocks = {} THEN [ok |-> FALSE, n |-> freed]
          ELSE [ok |-> TRUE, n |-> [freed EXCEPT !.maps[r] = placed]]

\* apply(): a receiver takes a stream or lets go of one. What it held is
\* released before the new stream is placed, and stays released when there is
\* no room for the new one.
apply(n, r, file, enable) ==
  IF ~enable THEN [ok |-> TRUE, n |-> release(n, r)]
  ELSE IF file.kind = "bad" THEN [ok |-> FALSE, n |-> n]
  ELSE LET w == IF file.kind = "none" THEN DefaultWidth ELSE file.width
           freed == release(n, r)
           blocks == freeBlocks(freed, w)
           placed == [width |-> w, start |-> CHOOSE b \in blocks : \A k \in blocks : b <= k,
                      routes |-> rememberedFor(n, r, w), file |-> file]
       IN IF blocks = {} \/ ~(deviceChannels(placed) \subseteq freeChannels(freed))
          THEN [ok |-> FALSE, n |-> freed]
          ELSE [ok |-> TRUE, n |-> [freed EXCEPT !.maps[r] = placed]]

(***************************************************************************)
(* The Connection API                                                      *)
(***************************************************************************)

activateReceiver(n, r, s) ==
  LET chosen == resolved(s)
      host == apply(n, r, chosen.file, chosen.enable)
      lost == connected(n.maps[r]) /\ ~connected(host.n.maps[r])
  IN IF host.ok THEN [host.n EXCEPT !.rx[r] = took(@, chosen), !.dropped = @ \ {r}]
     ELSE [host.n EXCEPT !.dropped = IF lost THEN @ \cup {r} ELSE @]

\* The program gives the API nothing to ask when its sender is activated, so that
\* is always taken.
activateSender(n, s) ==
  LET chosen == resolved([s EXCEPT !.file = n.sdp])
  IN [n EXCEPT !.tx = [took(@, chosen) EXCEPT !.staged.file = chosen.file],
               !.sdp = chosen.file]

fireReceiver(n, r) == activateReceiver([n EXCEPT !.rx[r] = forgetPromise(@)], r, due(n.rx[r]))
fireSender(n) == activateSender([n EXCEPT !.tx = forgetPromise(@)], due(n.tx))

\* Who has a promise: receivers by their ids, and the sender, which comes first.
TheSender == 0
waiting(n) ==
  {r \in Receivers : n.rx[r].pending # NotWaiting}
    \cup (IF n.tx.pending # NotWaiting THEN {TheSender} ELSE {})

\* applyDueActivations(): the sender, then the receivers in the order of their
\* ids, whatever order their times come in.
applyDueActivations(n, D) ==
  LET fired[r \in 0..Cardinality(Receivers)] ==
        IF r = TheSender THEN (IF r \in D THEN fireSender(n) ELSE n)
        ELSE IF r \in D THEN fireReceiver(fired[r - 1], r) ELSE fired[r - 1]
  IN fired[Cardinality(Receivers)]

\* The staged state is stored before the request is found to be one that
\* cannot be activated.
patchStagedReceiver(n, r, p) ==
  LET s == stagedReceiver(n.rx[r].staged, p)
      stored == [n EXCEPT !.rx[r] = stage(@, s)]
  IN CASE verdict(s, p, FALSE) = "illegal" -> n
       [] verdict(s, p, FALSE) \in {"staged", "refused"} -> stored
       [] verdict(s, p, FALSE) = "scheduled" -> [n EXCEPT !.rx[r] = promise(@, s)]
       [] OTHER -> activateReceiver(stored, r, [s EXCEPT !.mode = "immediate"])

patchStagedSender(n, p) ==
  LET s == stagedSender(n.tx.staged, p, n.sdp)
      stored == [n EXCEPT !.tx = stage(@, s)]
  IN CASE verdict(s, p, TRUE) = "illegal" -> n
       [] verdict(s, p, TRUE) = "staged" -> stored
       [] verdict(s, p, TRUE) = "scheduled" -> [n EXCEPT !.tx = promise(@, s)]
       [] OTHER -> activateSender(stored, [s EXCEPT !.mode = "immediate"])

\* handle(): the due activations, then the request on what they left.
Due(n) == {applyDueActivations(n, D) : D \in SUBSET waiting(n)}

Served == requests < MaxRequests /\ requests' = requests + 1

\* What the history makes of a request that may have given receivers other channels.
matrixMoved ==
  /\ asked' = IF node'.maps = node.maps THEN asked ELSE <<>>
  /\ UNCHANGED grid

\* A GET, which is also how promises are kept.
get ==
  /\ Served
  /\ \E n \in Due(node) : node' = n
  /\ matrixMoved

patchReceiver(r, p) ==
  /\ Served
  /\ \E n \in Due(node) : node' = patchStagedReceiver(n, r, p)
  /\ matrixMoved

patchSender(p) ==
  /\ Served
  /\ \E n \in Due(node) : node' = patchStagedSender(n, p)
  /\ matrixMoved

\* patchInBulk(): the entries one after the other, each as if it were alone.
patchInBulk(r, p, s, q) ==
  /\ Served
  /\ \E n \in Due(node) :
       node' = patchStagedReceiver(patchStagedReceiver(n, r, p), s, q)
  /\ matrixMoved

(***************************************************************************)
(* The Channel Mapping API. A grid is a function from device channels to   *)
(* the input and the channel of it that is to feed them, or to silence.    *)
(***************************************************************************)

routesOf(m) ==
  IF m.routes # {} THEN m.routes
  ELSE {Route(c - m.start, c) : c \in deviceChannels(m)}

inputRoutes(n, r) == IF connected(n.maps[r]) THEN routesOf(n.maps[r]) ELSE n.remembered[r]
inputWidth(n, r) == IF connected(n.maps[r]) THEN n.maps[r].width ELSE Cardinality(Channels)

\* The routes of input r once every cell has been read.
regridded(n, r, cells) ==
  {x \in inputRoutes(n, r) : x.deviceChannel \notin DOMAIN cells}
    \cup {Route(cells[c].index, c) : c \in {d \in DOMAIN cells : cells[d].input = r}}

readable(n, cells) ==
  \A c \in DOMAIN cells :
    /\ c \in Channels
    /\ cells[c].input # Silence =>
         cells[c].input \in Receivers /\ cells[c].index < inputWidth(n, cells[c].input)

\* The matrix with the grid laid over it, and whether it takes it: every
\* mapping is taken out and put back, and one that overlaps another is refused.
laidOver(n, cells) ==
  [r \in Receivers |->
     IF connected(n.maps[r]) THEN [n.maps[r] EXCEPT !.routes = regridded(n, r, cells)]
     ELSE Unmapped]

disjoint(maps) ==
  \A r, s \in Receivers : r # s => deviceChannels(maps[r]) \cap deviceChannels(maps[s]) = {}

takesGrid(n, cells) == readable(n, cells) /\ disjoint(laidOver(n, cells))

\* applyAction(): all of the grid or none of it.
applyAction(n, cells) ==
  IF ~takesGrid(n, cells) THEN n
  ELSE [n EXCEPT !.maps = laidOver(n, cells),
                 !.remembered = [r \in Receivers |->
                    IF connected(n.maps[r]) THEN @[r] ELSE regridded(n, r, cells)]]

\* The promised grid is carried out first if it has come due.
gridDue == grid # <<>>
afterDue(isDue) == IF isDue THEN applyAction(node, grid[1]) ELSE node
askedAfterDue(isDue) == IF isDue /\ takesGrid(node, grid[1]) THEN grid ELSE asked

\* The dry run of postActivation().
promisable(n, cells) == takesGrid(n, cells)

getGrid ==
  /\ Served /\ gridDue
  /\ node' = afterDue(TRUE) /\ grid' = <<>> /\ asked' = askedAfterDue(TRUE)

\* postActivation(): a grid that waits locks the others out.
postActivation(cells, scheduled) ==
  /\ Served
  /\ \E isDue \in {FALSE, gridDue} :
       LET n == afterDue(isDue)
           free == isDue \/ grid = <<>>
       IN /\ node' = IF free /\ ~scheduled THEN applyAction(n, cells) ELSE n
          /\ grid' = IF ~free THEN grid
                     ELSE IF scheduled /\ promisable(n, cells) THEN <<cells>> ELSE <<>>
          /\ asked' = IF free /\ ~scheduled /\ takesGrid(n, cells) THEN <<cells>>
                      ELSE askedAfterDue(isDue)

deleteActivation ==
  /\ Served /\ gridDue
  /\ grid' = <<>>
  /\ UNCHANGED <<node, asked>>

-------------------------------------------------------------------------------

Next ==
  \/ get
  \/ \E r \in Receivers, p \in Patches : patchReceiver(r, p)
  \/ \E p \in SenderPatches : patchSender(p)
  \/ \E b \in Bulks : patchInBulk(b[1], b[2], b[3], b[4])
  \/ getGrid \/ deleteActivation
  \/ \E cells \in Grids, scheduled \in BOOLEAN : postActivation(cells, scheduled)

Spec == Init /\ [][Next]_vars

-------------------------------------------------------------------------------

\* No device channel is fed by two receivers, whatever mix of activations,
\* scheduled ones, remembered grids and refused grids led here.
OneFeed == disjoint(node.maps)

\* What the host carries is what /active says: a receiver has channels exactly when
\* it is active, and has them for the very stream that is; where the sender is active
\* its transport file says. The exception is a receiver whose stream was let go of for
\* an activation that then found no room: it is active and carries nothing.
HostAgrees ==
  /\ \A r \in Receivers :
       /\ connected(node.maps[r]) =>
            node.rx[r].active.enable /\ node.rx[r].active.file = node.maps[r].file
            /\ (node.maps[r].file.kind = "sdp" =>
                  node.rx[r].active.group = node.maps[r].file.group)
       /\ node.rx[r].active.enable /\ r \notin node.dropped => connected(node.maps[r])
  /\ node.tx.active.mode # "null" => node.tx.active.group = node.sdp.group

\* The two APIs and the matrix between them agree.
PatchbayAgrees == OneFeed /\ HostAgrees

\* Refuted: "What was active stays active" (applyDueActivations): a receiver that is
\* active carries its stream, also after an activation that was refused.
ActiveIsCarried ==
  \A r \in Receivers : node.rx[r].active.enable => connected(node.maps[r])

\* Refuted: a cell that was emptied by the last grid taken carries nothing, until a
\* receiver is activated.
EmptiedIsSilent ==
  asked # <<>> =>
    \A c \in DOMAIN asked[1] : asked[1][c].input = Silence =>
      \A r \in Receivers : c \notin deviceChannels(node.maps[r])
================================================================================
