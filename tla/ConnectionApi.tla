---------------------------- MODULE ConnectionApi ----------------------------
(***************************************************************************)
(* The IS-05 Connection API (aes67-ravenna/Ravenna/ConnectionApi.cpp) as   *)
(* operators on one resource: what a PATCH stages, when it activates, and  *)
(* what becomes active. Both the RAVENNA daemon and the Mac driver serve   *)
(* it; what activating does to the host is theirs.                         *)
(*                                                                         *)
(* Of the transport parameters the model keeps the group a resource is on  *)
(* (multicast_ip of a receiver, destination_ip of a sender), which is the  *)
(* one the transport file also says; a file is its group and its width.    *)
(***************************************************************************)
EXTENDS Integers, Sequences

CONSTANT Groups          \* multicast groups, positive numbers

ASSUME GroupAssumption == Groups \subseteq Nat \ {0}

Null == 0                \* not fixed by the controller; no address
AutoChosen == -1         \* "auto": the device is to choose
Keep == -2               \* a PATCH that does not name the parameter

NoFile == [kind |-> "none", group |-> Null, width |-> 0]
BadFile == [kind |-> "bad", group |-> Null, width |-> 0]      \* not an SDP
Sdp(g, w) == [kind |-> "sdp", group |-> g, width |-> w]
Files == [kind : {"none", "bad", "sdp"}, group : Groups \cup {Null}, width : Nat]

\* ConnectionState
Idle == [enable |-> FALSE, file |-> NoFile, group |-> Null, mode |-> "null"]
\* PendingActivation: none, or the state that is promised
NotWaiting == <<>>

Resource(s) == [staged |-> s, active |-> s, pending |-> NotWaiting]

\* A PATCH, as a controller writes it. One that is not legal names something
\* the API does not have or gives a value of the wrong type.
Patch(enable, file, group, mode) ==
  [legal |-> TRUE, enable |-> enable, file |-> file, group |-> group, mode |-> mode]
\* The transport file a PATCH brings, if it brings one. What is parsed as an SDP has a
\* channel (SDPParser).
SomeFile(f) == f \in Files /\ (f.kind = "sdp" => f.width > 0)
FileInPatch(p) == p.file = <<>> \/ SomeFile(p.file[1])
IllegalPatch == [Patch("keep", <<>>, Keep, "none") EXCEPT !.legal = FALSE]

-----------------------------------------------------------------------------

\* transportParamsFromSdp(), the controller's values laid over it, and
\* resolveAutoLeg(): the group a resource with this state is on.
legGroup(s) ==
  IF s.group \in Groups THEN s.group
  ELSE IF s.file.kind = "sdp" THEN s.file.group ELSE Null

\* followSdpToLeg(): the file says what the leg says.
followSdpToLeg(file, g) ==
  IF file.kind = "sdp" /\ g # Null THEN [file EXCEPT !.group = g] ELSE file

\* What activateReceiver() and activateSender() hand to the host and, when it
\* takes it, store.
resolved(s) ==
  LET g == legGroup(s) IN [s EXCEPT !.group = g, !.file = followSdpToLeg(@, g)]

\* A new file replaces the group fixed by hand; what the same PATCH names in
\* transport_params is laid over it afterwards (applyTransportParams()).
withParams(s, p) == IF p.group = Keep THEN s ELSE [s EXCEPT !.group = p.group]
withFile(s, p) ==
  IF p.file = <<>> THEN s ELSE [s EXCEPT !.file = p.file[1], !.group = Null]
withEnable(s, p) == IF p.enable = "keep" THEN s ELSE [s EXCEPT !.enable = (p.enable = "on")]

\* The staged state a receiver's PATCH makes; a sender's file is its own.
stagedReceiver(s, p) == withParams(withFile(withEnable(s, p), p), p)
stagedSender(s, p, sdp) == [withParams(withEnable(s, p), p) EXCEPT !.file = sdp]

\* A receiver can be enabled onto a file or onto a group.
addressed(s) == s.file.kind # "none" \/ s.group \in Groups

\* readActivation() and what patchStagedReceiver() or patchStagedSender() makes
\* of it: the request is refused, staged, promised for later or done now.
verdict(s, p, forSender) ==
  CASE ~p.legal -> "illegal"
    [] p.legal /\ p.mode = "none" -> "staged"
    [] p.legal /\ p.mode # "none" /\ ~forSender /\ s.enable /\ ~addressed(s) -> "refused"
    [] OTHER -> p.mode

stage(x, s) == [x EXCEPT !.staged = s]
promise(x, s) ==
  LET promised == [s EXCEPT !.mode = "scheduled"]
  IN [x EXCEPT !.staged = promised, !.pending = <<promised>>]

\* applyDueActivations(): the promise is forgotten before it is carried out.
due(x) == x.pending[1]
forgetPromise(x) == [x EXCEPT !.pending = NotWaiting]

\* The host took it: it is active, and nothing staged is waiting any more.
took(x, s) == [x EXCEPT !.active = s, !.staged.mode = "null"]
=============================================================================
