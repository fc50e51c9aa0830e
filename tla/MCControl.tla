----------------------------- MODULE MCControl -----------------------------
(***************************************************************************)
(* What controllers ask of devices and what is seen of them, in four       *)
(* instances that share no variable: the RAVENNA node's two APIs, the      *)
(* driver's API, the manager's own controller, and the driver's observer   *)
(* of PTP clocks.                                                          *)
(***************************************************************************)
EXTENDS Patchbay, DriverConnection, RoutingController, PeerObserver, TLC

Narrow == <<Sdp(1, 1)>>
Wide == <<Sdp(2, 2)>>

MCPatches ==
  {Patch("on", Narrow, Keep, "immediate"), Patch("on", Wide, Keep, "scheduled"),
   Patch("on", Wide, 1, "immediate"), Patch("off", <<>>, Keep, "immediate"),
   Patch("on", <<NoFile>>, 2, "immediate"), Patch("keep", <<>>, AutoChosen, "scheduled"),
   Patch("on", <<BadFile>>, Keep, "immediate"), Patch("on", <<>>, Keep, "none"),
   IllegalPatch}

MCSenderPatches ==
  {Patch("on", <<>>, 2, "immediate"), Patch("off", <<>>, AutoChosen, "scheduled"),
   Patch("keep", <<>>, Keep, "none"), IllegalPatch}

MCBulks ==
  {<<1, Patch("on", Wide, Keep, "immediate"), 2, Patch("on", Narrow, Keep, "immediate")>>,
   <<2, Patch("on", Wide, Keep, "immediate"), 1, Patch("off", <<>>, Keep, "immediate")>>}

Cell(r, i) == [input |-> r, index |-> i]
MCGrids ==
  {(0 :> Cell(2, 0)), (0 :> Cell(1, 1)), (0 :> Cell(Silence, 0)),
   (2 :> Cell(1, 0)) @@ (0 :> Cell(2, 1))}

MCDriverSenderPatches ==
  {Patch("off", <<>>, Keep, "immediate"), Patch("on", <<>>, 2, "immediate"),
   Patch("on", <<>>, 1, "scheduled"), Patch("keep", <<>>, AutoChosen, "none")}
MCReceiverPatches ==
  {Patch("on", <<Sdp(2, 2)>>, Keep, "immediate"), Patch("on", <<Sdp(2, 1)>>, Keep, "immediate"),
   Patch("off", <<>>, Keep, "immediate"), Patch("on", <<>>, 2, "scheduled"),
   Patch("on", <<NoFile>>, Keep, "immediate"), Patch("keep", <<>>, 1, "none"),
   Patch("on", <<BadFile>>, Keep, "immediate"), IllegalPatch}

\* A GET, every patch on its own, and pairs of them in one request.
MCDriverRequests ==
  {<<>>} \cup {<< <<Sender, p>> >> : p \in MCDriverSenderPatches}
    \cup {<< <<id, p>> >> : id \in {Receiver, Free}, p \in MCReceiverPatches}
    \cup {<< <<Sender, Patch("off", <<>>, Keep, "immediate")>>,
             <<Sender, Patch("on", <<>>, 2, "immediate")>> >>,
          << <<Receiver, Patch("off", <<>>, Keep, "immediate")>>,
             <<Free, Patch("on", <<Sdp(1, 2)>>, Keep, "immediate")>> >>}

VARIABLE part

allVars == <<part, vars, driverVars, controllerVars, peerVars>>

MCInit ==
  /\ part \in {"patchbay", "driver", "controller", "peers"}
  /\ Init /\ DriverInit /\ ControllerInit /\ PeerInit

MCNext ==
  /\ UNCHANGED part
  /\ \/ part = "patchbay" /\ Next
        /\ UNCHANGED <<driverVars, controllerVars, peerVars>>
     \/ part = "driver" /\ DriverNext
        /\ UNCHANGED <<vars, controllerVars, peerVars>>
     \/ part = "controller" /\ ControllerNext
        /\ UNCHANGED <<vars, driverVars, peerVars>>
     \/ part = "peers" /\ PeerNext
        /\ UNCHANGED <<vars, driverVars, controllerVars>>

MCSpec == MCInit /\ [][MCNext]_allVars
=============================================================================
