----------------------------- MODULE MCReceiver -----------------------------
(***************************************************************************)
(* Two instances that share no variable: a receiver, and the pool of       *)
(* packets that receivers may share.                                       *)
(***************************************************************************)
EXTENDS RTPReceiver, PacketPool

VARIABLE part

allVars == <<part, vars, poolVars>>

MCInit == part \in {"receiver", "pool"} /\ Init /\ PoolInit

MCNext ==
  /\ UNCHANGED part
  /\ \/ part = "receiver" /\ Next /\ UNCHANGED poolVars
     \/ part = "pool" /\ PoolNext /\ UNCHANGED vars

Receiving(A) == part = "receiver" /\ A

\* The fairness of RTPReceiver, where that is the part.
MCFairness ==
  /\ WF_vars(Receiving(AddPacket \/ AddStep))
  /\ WF_vars(Receiving(ReceiveExits /\ ~running_))
  /\ WF_vars(Receiving(Consume))
  /\ WF_vars(Receiving(Joined))

MCSpec == MCInit /\ [][MCNext]_allVars /\ MCFairness
=============================================================================
