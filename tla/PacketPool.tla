------------------------------ MODULE PacketPool ------------------------------
(***************************************************************************)
(* LockFreePacketPool (aes67-core/NetworkEngine/RTP/LockFreePacketPool.h   *)
(* and .cpp): a fixed number of packets, taken and given back by any       *)
(* number of threads without a lock.  The free ones are a linked stack:    *)
(* its head is a pointer with a tag that counts the changes, replaced by   *)
(* compare and exchange.  A packet and its node are the same number here;  *)
(* 0 is the null pointer.                                                  *)
(*                                                                         *)
(* Every load, store and exchange of shared memory is a step of its own.   *)
(* acquire() reads the next pointer of a node that another thread may have *)
(* taken, and be writing, since the head was loaded: an aligned pointer is *)
(* read whole, as it was or as it will be.  What is in a packet is left    *)
(* out, and so is its clearing by the thread that gives it back.           *)
(***************************************************************************)
EXTENDS Integers, Sequences, FiniteSets

CONSTANTS
  totalCount_,
  Threads,
  CountMod,   \* 2^w, w the width of the counter
  MaxTag      \* bound: changes of the head

ASSUME PoolAssumption ==
  /\ totalCount_ \in Nat \ {0} /\ MaxTag \in Nat /\ totalCount_ =< MaxTag
  /\ IsFiniteSet(Threads)
  /\ CountMod \in Nat /\ CountMod > totalCount_ + Cardinality(Threads)

PoolPackets == 1..totalCount_
Null == 0
Pointers == PoolPackets \cup {Null}

VARIABLES
  freeListHead_,     \* [ptr, tag]
  next,              \* of each node
  inUseFlags_,
  availableCount_,
  step,              \* of each thread: "idle", or the step it takes next
  oldHead,           \* of each thread: the head as it last read it
  nextRead,          \* of each thread: oldHead.ptr->next as it read it
  mine,              \* of each thread: the packet it is taking or giving back
  held,              \* packets acquire() has returned, not yet given back
  stack              \* history: the free packets, the head one last

threadVars == <<step, oldHead, nextRead, mine>>
poolVars == <<freeListHead_, next, inUseFlags_, availableCount_, threadVars, held, stack>>

\* The constructor pushes the packets one after the other.
PoolInit ==
  /\ freeListHead_ = [ptr |-> totalCount_, tag |-> totalCount_]
  /\ next = [p \in PoolPackets |-> p - 1]
  /\ inUseFlags_ = [p \in PoolPackets |-> FALSE]
  /\ availableCount_ = totalCount_
  /\ step = [t \in Threads |-> "idle"]
  /\ oldHead = [t \in Threads |-> [ptr |-> Null, tag |-> 0]]
  /\ nextRead = [t \in Threads |-> Null]
  /\ mine = [t \in Threads |-> Null]
  /\ held = {}
  /\ stack = [p \in PoolPackets |-> p]

goTo(t, s) == step' = [step EXCEPT ![t] = s]

\* The head is loaded: when a call begins, and again by an exchange that fails.
loadHead(t) == oldHead' = [oldHead EXCEPT ![t] = freeListHead_]

-----------------------------------------------------------------------------
(* acquire() *)

\* With the pool empty it returns nullptr and changes nothing.
Acquire(t) ==
  /\ step[t] = "idle"
  /\ freeListHead_.ptr # Null
  /\ loadHead(t)
  /\ goTo(t, "readNext")
  /\ UNCHANGED <<freeListHead_, next, inUseFlags_, availableCount_, nextRead, mine, held, stack>>

ReadNext(t) ==
  /\ step[t] = "readNext"
  /\ nextRead' = [nextRead EXCEPT ![t] = next[oldHead[t].ptr]]
  /\ goTo(t, "pop")
  /\ UNCHANGED <<freeListHead_, next, inUseFlags_, availableCount_, oldHead, mine, held, stack>>

\* Mutant: the exchange compares the pointers and not the tags.
Pop_untagged(t) ==
  /\ step[t] = "pop" /\ freeListHead_.ptr = oldHead[t].ptr /\ freeListHead_.tag < MaxTag
  /\ freeListHead_' = [ptr |-> nextRead[t], tag |-> oldHead[t].tag + 1]
  /\ mine' = [mine EXCEPT ![t] = oldHead[t].ptr]
  /\ goTo(t, "mark")
  /\ stack' = SubSeq(stack, 1, Len(stack) - 1)
  /\ UNCHANGED <<next, inUseFlags_, availableCount_, oldHead, nextRead, held>>

Pop(t) ==
  /\ step[t] = "pop" /\ freeListHead_ = oldHead[t] /\ freeListHead_.tag < MaxTag
  /\ freeListHead_' = [ptr |-> nextRead[t], tag |-> oldHead[t].tag + 1]
  /\ mine' = [mine EXCEPT ![t] = oldHead[t].ptr]
  /\ goTo(t, "mark")
  /\ stack' = SubSeq(stack, 1, Len(stack) - 1)
  /\ UNCHANGED <<next, inUseFlags_, availableCount_, oldHead, nextRead, held>>

\* The exchange fails: the head has changed, or a weak exchange just does.
PopFails(t) ==
  /\ step[t] = "pop"
  /\ loadHead(t)
  /\ goTo(t, IF freeListHead_.ptr = Null THEN "idle" ELSE "readNext")
  /\ UNCHANGED <<freeListHead_, next, inUseFlags_, availableCount_, nextRead, mine, held, stack>>

MarkInUse(t) ==
  /\ step[t] = "mark"
  /\ inUseFlags_' = [inUseFlags_ EXCEPT ![mine[t]] = TRUE]
  /\ goTo(t, "subtract")
  /\ UNCHANGED <<freeListHead_, next, availableCount_, oldHead, nextRead, mine, held, stack>>

\* The count goes down, and the caller has the packet.
Subtract(t) ==
  /\ step[t] = "subtract"
  /\ availableCount_' = IF availableCount_ = 0 THEN CountMod - 1 ELSE availableCount_ - 1
  /\ held' = held \cup {mine[t]}
  /\ goTo(t, "idle")
  /\ UNCHANGED <<freeListHead_, next, inUseFlags_, oldHead, nextRead, mine, stack>>

-----------------------------------------------------------------------------
(* release() *)

\* A thread that has given a packet back may do so again, as may another one
\* at the same time, as long as no acquire() has taken the packet since.
mayRelease(p) == \A t \in Threads : step[t] \in {"mark", "subtract"} => mine[t] # p

\* The flag is cleared; when it was clear already the call changes nothing.
Release(t, p) ==
  /\ step[t] = "idle" /\ mayRelease(p)
  /\ inUseFlags_[p]
  /\ inUseFlags_' = [inUseFlags_ EXCEPT ![p] = FALSE]
  /\ mine' = [mine EXCEPT ![t] = p]
  /\ held' = held \ {p}
  /\ goTo(t, "load")
  /\ UNCHANGED <<freeListHead_, next, availableCount_, oldHead, nextRead, stack>>

LoadForPush(t) ==
  /\ step[t] = "load"
  /\ loadHead(t)
  /\ goTo(t, "writeNext")
  /\ UNCHANGED <<freeListHead_, next, inUseFlags_, availableCount_, nextRead, mine, held, stack>>

WriteNext(t) ==
  /\ step[t] = "writeNext"
  /\ next' = [next EXCEPT ![mine[t]] = oldHead[t].ptr]
  /\ goTo(t, "push")
  /\ UNCHANGED <<freeListHead_, inUseFlags_, availableCount_, oldHead, nextRead, mine, held,
                 stack>>

Push(t) ==
  /\ step[t] = "push" /\ freeListHead_ = oldHead[t] /\ freeListHead_.tag < MaxTag
  /\ freeListHead_' = [ptr |-> mine[t], tag |-> oldHead[t].tag + 1]
  /\ goTo(t, "add")
  /\ stack' = Append(stack, mine[t])
  /\ UNCHANGED <<next, inUseFlags_, availableCount_, oldHead, nextRead, mine, held>>

PushFails(t) ==
  /\ step[t] = "push"
  /\ loadHead(t)
  /\ goTo(t, "writeNext")
  /\ UNCHANGED <<freeListHead_, next, inUseFlags_, availableCount_, nextRead, mine, held, stack>>

Add(t) ==
  /\ step[t] = "add"
  /\ availableCount_' = IF availableCount_ = CountMod - 1 THEN 0 ELSE availableCount_ + 1
  /\ goTo(t, "idle")
  /\ UNCHANGED <<freeListHead_, next, inUseFlags_, oldHead, nextRead, mine, held, stack>>

PoolNext ==
  \E t \in Threads :
    \/ Acquire(t) \/ ReadNext(t) \/ Pop(t) \/ PopFails(t) \/ MarkInUse(t) \/ Subtract(t)
    \/ \E p \in PoolPackets : Release(t, p)
    \/ LoadForPush(t) \/ WriteNext(t) \/ Push(t) \/ PushFails(t) \/ Add(t)

PoolSpec == PoolInit /\ [][PoolNext]_poolVars

-----------------------------------------------------------------------------
(* Properties *)

Takers == {t \in Threads : step[t] \in {"mark", "subtract"}}
Givers == {t \in Threads : step[t] \in {"load", "writeNext", "push"}}
Movers == Takers \cup Givers
Adders == {t \in Threads : step[t] = "add"}

PoolTypeOK ==
  /\ freeListHead_ \in [ptr : Pointers, tag : 0..MaxTag]
  /\ next \in [PoolPackets -> Pointers] /\ inUseFlags_ \in [PoolPackets -> BOOLEAN]
  /\ availableCount_ \in 0..(CountMod - 1)
  /\ step \in [Threads -> {"idle", "readNext", "pop", "mark", "subtract", "load", "writeNext",
                           "push", "add"}]
  /\ oldHead \in [Threads -> [ptr : Pointers, tag : 0..MaxTag]]
  /\ nextRead \in [Threads -> Pointers] /\ mine \in [Threads -> Pointers]
  /\ held \subseteq PoolPackets /\ stack \in Seq(PoolPackets)

\* From the head, the next pointers lead through the free packets to the null
\* pointer, however many threads take and give back at once, and even when a
\* packet comes back to the head while a thread is about to take it.
ChainWhole ==
  /\ freeListHead_.ptr = IF stack = <<>> THEN Null ELSE stack[Len(stack)]
  /\ \A i \in 1..Len(stack) : next[stack[i]] = IF i = 1 THEN Null ELSE stack[i - 1]

\* Every packet is in one place: free, with one caller, or on its way.  None is
\* handed out twice, freed twice or lost.
OnePlace ==
  /\ \A i, j \in 1..Len(stack) : stack[i] = stack[j] => i = j
  /\ \A p \in held : \A i \in 1..Len(stack) : stack[i] # p
  /\ \A t \in Movers :
       /\ mine[t] \in PoolPackets \ held
       /\ \A i \in 1..Len(stack) : stack[i] # mine[t]
       /\ \A u \in Movers : mine[u] = mine[t] => u = t
  /\ \A p \in PoolPackets :
       \/ p \in held
       \/ \E i \in 1..Len(stack) : stack[i] = p
       \/ \E t \in Movers : mine[t] = p

\* The free packets, with the calls in flight as the count still has them, and
\* how a counter that cannot be negative shows a number.
settledCount == (Len(stack) + Cardinality(Takers)) - Cardinality(Adders)
unsigned(count) == IF count >= 0 THEN count ELSE count + CountMod

\* The count is that of the free packets but for the calls that have changed the
\* stack and not the count yet.  Meanwhile it may be below 0, where the unsigned
\* counter shows one of its largest values.
CountInFlight == availableCount_ = unsigned(settledCount)

\* The pool gives out every packet to one caller at a time and loses none.
PoolSafe == PoolTypeOK /\ ChainWhole /\ OnePlace /\ CountInFlight
=============================================================================
