--------------------------- MODULE MCRegistration ---------------------------
(***************************************************************************)
(* How this host is found, in two instances that share no variable: by     *)
(* telling a registry, and by announcing itself on the link.               *)
(***************************************************************************)
EXTENDS Registration, Advertiser

VARIABLE part

allVars == <<part, regVars, advertiserVars>>

\* Where the link is the part, the registry's is a driver that has not started.
MCInit ==
  /\ part \in {"registry", "link"}
  /\ RegistrationInit /\ AdvertiserInit
  /\ part = "link" => /\ client = "driver" /\ known = {} /\ streams = {}
                      /\ \A r \in Registries : reg[r] = EmptyRegistry
  /\ part = "registry" => program = "driver"

MCNext ==
  /\ UNCHANGED part
  /\ \/ part = "registry" /\ RegistrationNext /\ UNCHANGED advertiserVars
     \/ part = "link" /\ AdvertiserNext /\ UNCHANGED regVars

Registering(A) == part = "registry" /\ A

\* The fairness of Registration, where that is the part.
MCFairness ==
  /\ \A r \in Registries : /\ WF_regVars(Registering(registryReturns(r)))
                           /\ WF_regVars(Registering(browse(r)))
  /\ WF_regVars(Registering(registerWith)) /\ WF_regVars(Registering(heartbeat))
  /\ WF_regVars(Registering(failOverTo)) /\ WF_regVars(Registering(syncBegins))
  /\ WF_regVars(Registering(postResource)) /\ WF_regVars(Registering(syncPosted))
  /\ WF_regVars(Registering(deleteResource)) /\ WF_regVars(Registering(syncEnds))
  /\ WF_regVars(Registering(stopHeartbeats)) /\ WF_regVars(Registering(unregister))
  /\ WF_regVars(Registering(keepTold)) /\ WF_regVars(Registering(takeUp))
  /\ WF_regVars(Registering(registerEverything)) /\ WF_regVars(Registering(startOver))

MCSpec == MCInit /\ [][MCNext]_allVars /\ MCFairness
=============================================================================
