---------------------------- MODULE BoundedFifo ----------------------------
(***************************************************************************)
(* What a single-producer, single-consumer channel buffer promises: a      *)
(* bounded queue whose writer appends a batch of elements in one step and  *)
(* whose reader removes a batch in one step.  Elements are named by the    *)
(* position at which they were accepted, so "in order, none lost, none     *)
(* twice" is visible in the values themselves.                             *)
(*                                                                         *)
(* RingBuffer implements this specification.                               *)
(***************************************************************************)
EXTENDS Naturals, Sequences

CONSTANTS Capacity,     \* elements the queue can hold
          MaxElements   \* bound: elements ever accepted

VARIABLES queue,        \* accepted and not yet delivered, oldest first
          accepted,     \* how many elements were ever accepted
          received      \* the batch the last read returned

vars == <<queue, accepted, received>>

Batch(first, n) == [k \in 1..n |-> first + k - 1]

Init ==
  /\ queue = <<>>
  /\ accepted = 0
  /\ received = <<>>

Put(n) ==
  /\ Len(queue) + n =< Capacity
  /\ accepted + n =< MaxElements
  /\ queue' = queue \o Batch(accepted, n)
  /\ accepted' = accepted + n
  /\ UNCHANGED received

Take(n) ==
  /\ n =< Len(queue)
  /\ received' = SubSeq(queue, 1, n)
  /\ queue' = SubSeq(queue, n + 1, Len(queue))
  /\ UNCHANGED accepted

\* Everything not yet delivered is forgotten.
Clear ==
  /\ queue' = <<>>
  /\ UNCHANGED <<accepted, received>>

Next ==
  \/ \E n \in 1..Capacity : Put(n) \/ Take(n)
  \/ Clear

Spec == Init /\ [][Next]_vars
=============================================================================
