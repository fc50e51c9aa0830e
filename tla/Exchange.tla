------------------------------ MODULE Exchange ------------------------------
(***************************************************************************)
(* One question, one answer, one connection: the four small TCP servers    *)
(* (RTSPServer and ConnectionAPIServer in the driver, RtspServer and       *)
(* HttpServer in the RAVENNA daemon) and the clients that ask them for a   *)
(* description (RTSPClient, HTTPClient, SDPFetcher).                       *)
(*                                                                         *)
(* Each server serves one connection at a time, so what one peer does      *)
(* decides when the next is answered and when stop() returns. A request    *)
(* arrives in pieces: its first line, the rest of its head, and the body   *)
(* the head declares. Connection 1 is a client of ours, which sends all of *)
(* it at once; connection 2 is anybody, a piece at a time or not at all.   *)
(*                                                                         *)
(* A tick is the time a server lets a peer be silent.                      *)
(***************************************************************************)
EXTENDS Integers, FiniteSets

CONSTANTS
  Kinds,        \* which of the servers: a subset of AllKinds
  Deadline,     \* kRequestDeadlineMs, in ticks
  MaxRequest,   \* kMaxRequestBytes, in pieces
  MaxEdits      \* bound: changes to what is published

AllKinds == {"RTSPServer", "ConnectionAPIServer", "RtspServer", "HttpServer"}

ASSUME ExchangeAssumption ==
  Kinds \subseteq AllKinds /\ {Deadline, MaxRequest, MaxEdits} \subseteq Nat

Threaded == {"RTSPServer", "ConnectionAPIServer"}
Http == {"ConnectionAPIServer", "HttpServer"}
Conns == {1, 2}
Asks == {"describe", "options", "other", "junk"}
Endless == MaxRequest + 1     \* a head that does not end within the limit

VARIABLES
  kind,
  published,   \* the version of the description the provider lists, 0 for none
  running, thread, listening,   \* running_, thread_ and the listening socket
  stopping,    \* stop() is waiting for the thread
  ended,       \* the object is destroyed, or the process terminated
  at,          \* the connection being served, 0 for none
  text,        \* pieces of its request read so far
  held,        \* ticks it has been served
  silent,      \* a recv() timed out
  out,         \* none, or the answer that is being sent
  peer,        \* per connection: its state, what it asks in how many pieces, how
               \* many of them it has sent, and whether it takes an answer: reads
               \* it, or has room for all of it
  answer,      \* what came over connection 1: the status, the version, how much
  result,      \* what the client of connection 1 makes of it
  since,       \* history: versions published since that client asked
  edits

life == <<running, thread, listening, stopping, ended>>
loop == <<at, text, held, silent, out>>
network == <<peer, answer, result, since>>
vars == <<kind, published, life, loop, network, edits>>

Nothing == [status |-> 0, body |-> 0, arrived |-> "nothing"]
NoBody == [version |-> 0, whole |-> FALSE]
Pending == [ok |-> FALSE, body |-> NoBody, done |-> FALSE]
Nobody == [state |-> "away", asks |-> "junk", head |-> 0, body |-> 0, sent |-> 0, takes |-> TRUE]

Init ==
  /\ kind \in Kinds /\ published \in 0..1
  /\ running = FALSE /\ thread = "none" /\ listening = FALSE
  /\ stopping = FALSE /\ ended = "no"
  /\ at = 0 /\ text = 0 /\ held = 0 /\ silent = FALSE /\ out = <<>>
  /\ peer = [c \in Conns |-> Nobody] /\ answer = Nothing
  /\ result = Pending /\ since = {} /\ edits = 0

(***************************************************************************)
(* start(), stop() and the destructor                                      *)
(***************************************************************************)

\* The port may be taken; nothing is then left open and nothing runs. A thread
\* object that is assigned while it still stands for a thread ends the process.
start(bound) ==
  /\ ended = "no" /\ ~running /\ ~stopping /\ at = 0
  /\ listening' = bound /\ running' = bound
  /\ thread' = IF bound /\ kind \in Threaded THEN "live" ELSE thread
  /\ ended' = IF bound /\ thread # "none" THEN "terminated" ELSE ended
  /\ UNCHANGED <<kind, published, stopping, loop, network, edits>>

\* Whether stop() closes a socket whose loop has already ended.
closesAnyway == kind # "RTSPServer"

\* stop() clears running_ and then waits for the thread. A server of the daemon has
\* none: the loop that services it stops it, between two connections.
stop ==
  /\ ended = "no" /\ ~stopping /\ (kind \in Threaded \/ at = 0)
  /\ running' = FALSE
  /\ stopping' = (running /\ kind \in Threaded)
  /\ listening' = IF kind \in Threaded /\ (running \/ ~closesAnyway) THEN listening ELSE FALSE
  /\ UNCHANGED <<kind, published, thread, ended, loop, network, edits>>

\* Join first, then close.
joined == thread = "returned"

closeListen ==
  /\ stopping /\ joined
  /\ stopping' = FALSE /\ listening' = FALSE
  /\ thread' = IF thread = "returned" THEN "none" ELSE thread
  /\ UNCHANGED <<kind, published, running, ended, loop, network, edits>>

\* run() looks at running_ between two connections.
returns ==
  /\ thread = "live" /\ ~running /\ at = 0 /\ thread' = "returned"
  /\ UNCHANGED <<kind, published, running, listening, stopping, ended, loop, network, edits>>

\* The descriptor is one select() cannot wait for: the loop clears running_ and
\* returns.
selectFails ==
  /\ thread = "live" /\ running /\ at = 0
  /\ thread' = "returned" /\ running' = FALSE
  /\ UNCHANGED <<kind, published, listening, stopping, ended, loop, network, edits>>

\* stop() has returned and the members go: a thread object that still stands for a
\* thread ends the process.
destroy ==
  /\ ended = "no" /\ ~running /\ ~stopping /\ at = 0 /\ (closesAnyway => ~listening)
  /\ ended' = IF thread = "none" THEN "destroyed" ELSE "terminated"
  /\ UNCHANGED <<kind, published, running, thread, listening, stopping, loop, network, edits>>

(***************************************************************************)
(* Serving one connection                                                  *)
(***************************************************************************)

\* Either server accepts what is queued; a daemon's does so when it is serviced.
accept(c) ==
  /\ ended = "no" /\ listening /\ at = 0 /\ peer[c].state = "queued"
  /\ kind \in Threaded => thread = "live"
  /\ at' = c /\ text' = 0 /\ held' = 0 /\ silent' = FALSE
  /\ peer' = [peer EXCEPT ![c].state = "served"]
  /\ UNCHANGED <<kind, published, life, out, answer, result, since, edits>>

headRead == text >= peer[at].head

\* The end of the head is the end of an RTSP request; Content-Length says where the
\* end of an HTTP one is.
complete == text >= peer[at].head + (IF kind \in Http THEN peer[at].body ELSE 0)

\* Every server but RTSPServer has a ceiling on the whole connection.
late == kind # "RTSPServer" /\ held >= Deadline

reading == at # 0 /\ out = <<>> /\ ~silent /\ ~complete /\ text < MaxRequest /\ ~late
unread == at # 0 /\ peer[at].sent > text

\* recv(): what has come by now, or comes just before the timeout.
receive(waited) ==
  /\ reading /\ unread
  /\ \E n \in text + 1..peer[at].sent : text' = n
  /\ held' = held + waited
  /\ UNCHANGED <<kind, published, life, at, silent, out, network, edits>>

\* Mutant: the loop waits for as long as the peer does.
timeout_never == FALSE /\ UNCHANGED vars
\* recv(): nothing came in time, or the peer hung up.
timeout ==
  /\ reading /\ ~unread
  /\ silent' = TRUE /\ held' = IF peer[at].state = "gone" THEN held ELSE held + 1
  /\ UNCHANGED <<kind, published, life, at, text, out, network, edits>>

\* Mutant: the list of streams is the one of when the server started.
provider_once == 1
\* The provider is asked for every request.
provider == published

reply(status, body) == [status |-> status, body |-> body, arrived |-> "whole"]

described == IF provider = 0 THEN reply(404, 0) ELSE reply(200, provider)
handled(asks) == CASE asks = "options" -> reply(200, 0)
                   [] asks = "other" -> reply(501, 0)
                   [] OTHER -> described

\* What each server answers to as much as it has read; Nothing is to hang up. The
\* RTSP servers make do with the first line, and one of them says nothing to what
\* is not RTSP.
answerRTSPServer(asks) == IF asks = "junk" THEN reply(400, 0) ELSE handled(asks)
answerRtspServer(asks) == IF asks = "junk" THEN Nothing ELSE handled(asks)

\* The HTTP servers want the whole head: less is 400 to the one, and to the other
\* a connection to close, as one that is late is.
answerHttpServer(asks) ==
  IF asks = "junk" \/ ~headRead THEN reply(400, 0) ELSE handled(asks)
answerConnectionAPIServer(asks) ==
  IF ~headRead \/ (late /\ ~silent /\ ~complete) THEN Nothing ELSE
  IF asks = "junk" THEN reply(400, 0) ELSE handled(asks)

respond(asks) ==
  IF text = 0 THEN Nothing ELSE
  CASE kind = "RTSPServer" -> answerRTSPServer(asks)
    [] kind = "RtspServer" -> answerRtspServer(asks)
    [] kind = "HttpServer" -> answerHttpServer(asks)
    [] OTHER -> answerConnectionAPIServer(asks)

\* The request is taken for what it is, and the answer is made.
serve ==
  /\ at # 0 /\ out = <<>> /\ ~reading
  /\ out' = <<respond(peer[at].asks)>>
  /\ UNCHANGED <<kind, published, life, at, text, held, silent, network, edits>>

\* send(): it waits, without a limit, for a peer that does not take what it is sent, and
\* fails once the peer is gone.
blocked ==
  out # <<>> /\ out[1] # Nothing /\ ~peer[at].takes /\ peer[at].state # "gone"

\* The answer and the close. Less than all of it arrives when the connection
\* breaks. What connection 2 is answered goes no further.
sendAnswer(arrived) ==
  /\ out # <<>> /\ ~blocked
  /\ out[1] = Nothing \/ at = 2 => arrived = "nothing"
  /\ answer' = IF at = 1 THEN [out[1] EXCEPT !.arrived = arrived] ELSE answer
  /\ peer' = [peer EXCEPT ![at] = [Nobody EXCEPT !.state = "closed"]]
  /\ at' = 0 /\ text' = 0 /\ held' = 0 /\ silent' = FALSE /\ out' = <<>>
  /\ UNCHANGED <<kind, published, life, result, since, edits>>

(***************************************************************************)
(* The peers                                                               *)
(***************************************************************************)

\* Connection 1: sendRequest() and perform() send the request in one go.
sendRequest(asks) ==
  /\ listening /\ peer[1].state = "away"
  /\ peer' = [peer EXCEPT ![1] = [state |-> "queued", asks |-> asks, head |-> 2,
                                  body |-> 0, sent |-> 2, takes |-> TRUE]]
  /\ since' = {published}
  /\ UNCHANGED <<kind, published, life, loop, answer, result, edits>>

\* Anybody's request. How it is read does not depend on whether its answer is taken.
Strangers ==
  [head : {2, Endless}, body : {0, 2}, takes : {TRUE}] \cup [head : {2}, body : {0}, takes : {FALSE}]

connect(head, body, takes) ==
  /\ listening /\ peer[2].state = "away"
  /\ peer' = [peer EXCEPT ![2] = [Nobody EXCEPT !.state = "queued", !.head = head,
                                  !.body = body, !.takes = takes]]
  /\ UNCHANGED <<kind, published, life, loop, answer, result, since, edits>>

send ==
  /\ peer[2].state \in {"queued", "served"} /\ peer[2].sent < peer[2].head + peer[2].body
  /\ peer' = [peer EXCEPT ![2].sent = @ + 1]
  /\ UNCHANGED <<kind, published, life, loop, answer, result, since, edits>>

hangUp ==
  /\ peer[2].state = "served" /\ peer' = [peer EXCEPT ![2].state = "gone"]
  /\ UNCHANGED <<kind, published, life, loop, answer, result, since, edits>>

\* The client's own timeout: recv() fails with nothing read.
giveUp ==
  /\ peer[1].state \in {"queued", "served"}
  /\ peer' = [peer EXCEPT ![1].state = IF @ = "served" THEN "gone" ELSE "closed"]
  /\ result' = [Pending EXCEPT !.done = TRUE]
  /\ UNCHANGED <<kind, published, life, loop, answer, since, edits>>

\* parseResponse() and the end of perform(): a body that is cut short is kept.
bodyOf(a) ==
  IF a.arrived \in {"cut", "whole"} /\ a.body # 0
  THEN [version |-> a.body, whole |-> a.arrived = "whole"] ELSE NoBody

\* describe() takes a 2xx whose body parses, which what is left of a cut one may.
describes(a, parsed) ==
  a.status = 200 /\ bodyOf(a) # NoBody /\ (bodyOf(a).whole \/ parsed)

\* fetchHTTP() looks at the status and at whether there is a body.
fetchesHTTP(a) == a.status = 200 /\ bodyOf(a) # NoBody

\* fetch(), by the scheme of the URL.
fetch(a, parsed) ==
  LET ok == IF kind \in Http THEN fetchesHTTP(a) ELSE describes(a, parsed)
  IN [ok |-> ok, body |-> IF ok THEN bodyOf(a) ELSE NoBody, done |-> TRUE]

readResponse(parsed) ==
  /\ peer[1].state = "closed" /\ ~result.done
  /\ result' = fetch(answer, parsed)
  /\ UNCHANGED <<kind, published, life, loop, peer, answer, since, edits>>

\* A stream is added, edited or removed.
edit(version) ==
  /\ edits < MaxEdits /\ version # published
  /\ published' = version /\ edits' = edits + 1
  /\ since' = IF peer[1].state \in {"queued", "served"} THEN since \cup {version} ELSE since
  /\ UNCHANGED <<kind, life, loop, peer, answer, result>>

-------------------------------------------------------------------------------

Server ==
  \/ \E bound \in BOOLEAN : start(bound)
  \/ stop \/ closeListen \/ returns \/ selectFails \/ destroy
  \/ \E c \in Conns : accept(c)
  \/ \E waited \in 0..1 : receive(waited)
  \/ timeout \/ serve
  \/ \E arrived \in {"nothing", "head", "cut", "whole"} : sendAnswer(arrived)

Peers ==
  \/ send \/ hangUp \/ giveUp
  \/ \E asks \in Asks : sendRequest(asks)
  \/ \E s \in Strangers : connect(s.head, s.body, s.takes)
  \/ \E parsed \in BOOLEAN : readResponse(parsed)
  \/ \E version \in 0..1 : edit(version)

Next == Server \/ Peers

\* A server's thread takes its steps: a recv() that gets nothing times out, and a send()
\* returns when the peer takes what it is sent or is gone. The peers owe nothing.
Fairness ==
  /\ WF_vars(closeListen) /\ WF_vars(returns)
  /\ \A waited \in 0..1 : WF_vars(receive(waited))
  /\ WF_vars(timeout) /\ WF_vars(serve)
  /\ \A a \in {"nothing", "whole"} : WF_vars(sendAnswer(a))

Spec == Init /\ [][Next]_vars /\ Fairness

-------------------------------------------------------------------------------

\* No peer has a server read its request, and everybody else wait, for longer than the
\* ceiling and one last silence; RTSPServer, which has none, for longer than the
\* longest request takes at a piece per silence. The answer is another matter: see blocked.
ReadBriefly == held <= 1 + (IF kind = "RTSPServer" THEN MaxRequest ELSE Deadline)

\* The listening socket is not closed while the loop may still accept on it.
NotClosedUnder == thread = "live" => listening

\* What a client takes for the session's description was published while it was
\* asking, however long it waited behind others. It may be the beginning of it only.
FetchedIsPublished == result.ok => result.body.version \in since

\* A request that stalls holds a server briefly, no client is served by a closed
\* socket, and what a client fetches is of a version that was true while it asked.
ServedTruly == ReadBriefly /\ NotClosedUnder /\ FetchedIsPublished

\* stop() returns whatever request is being read, unless a peer never takes its answer
\* and never hangs up: the servers set no limit on send().
StopReturns == <>[]blocked \/ (stopping ~> ~stopping)

\* Refuted: stop() returns, whoever is being served.
StopAlwaysReturns == stopping ~> ~stopping

\* Refuted: what a client takes for the session's description is all of it.
FetchedIsWhole == result.ok => result.body.whole

\* Refuted: losing the socket costs the feature and never the process the server runs in.
CostsOnlyTheFeature == ended # "terminated"
===============================================================================
