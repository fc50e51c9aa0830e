------------------------------ MODULE MCClock ------------------------------
(***************************************************************************)
(* Who gives the time and how it reaches the driver, in three instances    *)
(* that share no variable: the election among hosts, the peer-delay        *)
(* exchange, and the service that carries a slave's state to the driver.   *)
(***************************************************************************)
EXTENDS Election, PeerDelay, ClockService

\* Two Macs between the two datasets of the Linux grandmaster; the one that leads
\* may lose its reference and then is the worst of all, or find it again.
MCHosts == {"a", "b"}
MCRanks == [h \in MCHosts |-> IF h = "a" THEN {2, 5} ELSE {3}]

ASSUME FarApartAssumption == RequestsFarApart

VARIABLE part

allVars == <<part, vars, peerDelayVars, serviceVars>>

MCInit ==
  /\ part \in {"election", "peerDelay", "service"}
  /\ Init /\ PeerDelayInit /\ ServiceInit
  /\ part # "election" => rank["a"] = 2 /\ ~gmUp /\ \A h \in Hosts : ~running[h]

MCNext ==
  /\ UNCHANGED part
  /\ \/ part = "election" /\ Next /\ UNCHANGED <<peerDelayVars, serviceVars>>
     \/ part = "peerDelay" /\ PeerDelayNext /\ UNCHANGED <<vars, serviceVars>>
     \/ part = "service" /\ ServiceNext /\ UNCHANGED <<vars, peerDelayVars>>

\* Fairness and ServiceFairness, each where its part is the one that moves.
MCFairness ==
  /\ WF_vars(part = "election" /\ Tick) /\ WF_vars(part = "election" /\ gmTurn)
  /\ \A h \in Hosts : /\ WF_vars(part = "election" /\ transmitThread(h))
                      /\ WF_vars(part = "election" /\ sendTiming(h))
                      /\ WF_vars(part = "election" /\ monitorThread(h))
  /\ WF_serviceVars(part = "service" /\ Heartbeat) /\ WF_serviceVars(part = "service" /\ publish)
  /\ WF_serviceVars(part = "service" /\ connectOnce) /\ WF_serviceVars(part = "service" /\ readStatus)
  /\ WF_serviceVars(part = "service" /\ readEnd) /\ WF_serviceVars(part = "service" /\ serviceLoop)

MCSpec == MCInit /\ [][MCNext]_allVars /\ MCFairness
=============================================================================
