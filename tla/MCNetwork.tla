----------------------------- MODULE MCNetwork -----------------------------
(***************************************************************************)
(* What the driver learns from the network by listening, in two instances  *)
(* that share no variable: sessions, and the receivers of its own streams. *)
(***************************************************************************)
EXTENDS Discovery, ReceiverMonitor

VARIABLE part

allVars == <<part, vars, monitorVars>>

MCInit == part \in {"discovery", "reporters"} /\ Init /\ MonitorInit

MCNext ==
  /\ UNCHANGED part
  /\ \/ part = "discovery" /\ Next /\ UNCHANGED monitorVars
     \/ part = "reporters" /\ MonitorNext /\ UNCHANGED vars

Discovering(A) == part = "discovery" /\ A

\* Fairness where discovery is the part; a monitor that was never started has
\* no thread.
MCFairness ==
  /\ WF_vars(Discovering(remote.said = FALSE /\ refreshAndAnnounce)) /\ WF_vars(Discovering(tick))
  /\ \A g \in Groups : WF_vars(Discovering(receive(g))) /\ WF_vars(Discovering(missed(g)))
  /\ WF_vars(Discovering(rejoin)) /\ WF_vars(Discovering(tell))
  /\ WF_vars(Discovering(getDiscoveredStreams)) /\ WF_vars(Discovering(describe))
  /\ WF_vars(Discovering(fileDescription)) /\ WF_vars(Discovering(refresh))
  /\ MonitorFairness

MCSpec == MCInit /\ [][MCNext]_allVars /\ MCFairness

\* After an interface flap both the announcements of sessions and the reports of
\* receivers are heard again (MulticastRejoiner, RTCPMonitor::reconcile).
ListensOn == HeardInTheEnd /\ ListenedAgain
=============================================================================
