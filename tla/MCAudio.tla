------------------------------ MODULE MCAudio ------------------------------
(***************************************************************************)
(* The path of the samples in three instances that share no variable: one  *)
(* ring, one jitter buffer, and the device with its stream's thread.  A    *)
(* behaviour is one of the three; the other two rest.                      *)
(***************************************************************************)
EXTENDS RingBuffer, JitterBuffer, AudioDevice

VARIABLE part

allVars == <<part, vars, jbVars, audioVars>>

MCInit ==
  /\ part \in {"ring", "jitter", "device"}
  /\ Init /\ JBInit /\ AudioInit
  /\ part # "device" => dir = "in"

MCNext ==
  /\ UNCHANGED part
  /\ \/ part = "ring" /\ Next /\ UNCHANGED <<jbVars, audioVars>>
     \/ part = "jitter" /\ JBNext /\ UNCHANGED <<vars, audioVars>>
     \/ part = "device" /\ AudioNext /\ UNCHANGED <<vars, jbVars>>

\* A device without clients and streams has nothing to do.
MCSpec == MCInit /\ [][MCNext]_allVars /\ AudioFairness
=============================================================================
