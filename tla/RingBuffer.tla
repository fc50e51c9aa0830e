----------------------------- MODULE RingBuffer -----------------------------
(***************************************************************************)
(* SPSCRingBuffer (aes67-core/Shared/RingBuffer.hpp): the lock-free ring   *)
(* that carries one device channel between a network thread and the Core   *)
(* Audio thread.  One producer and one consumer share two atomic indices;  *)
(* the samples themselves are copied by plain memcpy.                      *)
(*                                                                         *)
(* A call of write() is BeginWrite (both indices loaded, the transfer      *)
(* clamped to the free space), one CopyElementIn per element, and EndWrite (the   *)
(* release store of the write index).  read() is the same on the other     *)
(* side.  A call that finds no room, or nothing to read, returns 0 and     *)
(* changes nothing, so it is a stuttering step.  Each index is stored by   *)
(* one thread only, so that thread's own relaxed load is the current       *)
(* value; the load of the other thread's index is the snapshot that        *)
(* BeginWrite and BeginRead keep as toWrite and toRead.  The acquire and   *)
(* release pairs on the indices make the interleaving of these steps the   *)
(* memory behaviour the code relies on.                                    *)
(*                                                                         *)
(* The n-th element ever accepted is represented by the number n.          *)
(***************************************************************************)
EXTENDS Integers, Sequences

CONSTANTS Capacity,     \* usable elements, the constructor's argument
          MaxElements   \* bound: elements ever accepted

ASSUME CapacityAssumption == Capacity \in Nat \ {0}
ASSUME MaxElementsAssumption == MaxElements \in Nat

VARIABLES
  buffer_,      \* the storage, capacity_ cells
  writeIndex_,  \* next cell the producer fills
  readIndex_,   \* next cell the consumer empties
  producerPc,   \* producer: "idle" or "copy"
  toWrite,      \* producer: elements this call of write() will transfer
  copiedIn,     \* producer: elements of it already copied
  consumerPc,   \* consumer: "idle" or "copy"
  toRead,       \* consumer: elements this call of read() will transfer
  data,         \* consumer: its destination, as filled so far
  received,     \* consumer: the batch the last completed read() returned
  accepted,     \* elements whose write() has completed
  delivered     \* elements whose read() has completed, or that a reset dropped

producerVars == <<producerPc, toWrite, copiedIn>>
consumerVars == <<consumerPc, toRead, data, received>>
vars == <<buffer_, writeIndex_, readIndex_, producerPc, toWrite, copiedIn,
          consumerPc, toRead, data, received, accepted, delivered>>

-----------------------------------------------------------------------------
(* Index arithmetic *)

\* One cell more than the usable capacity tells full from empty.
capacity_ == Capacity + 1

Cells == 0..(capacity_ - 1)

min(a, b) == IF a =< b THEN a ELSE b

\* A single conditional subtraction, not a modulo.
wrap(index) == IF index >= capacity_ THEN index - capacity_ ELSE index

getAvailableRead(readIdx, writeIdx) ==
  IF writeIdx >= readIdx THEN writeIdx - readIdx
                         ELSE capacity_ - readIdx + writeIdx

\* Mutant: the cell that tells full from empty is handed out too.
getAvailableWrite_noSentinel(writeIdx, readIdx) ==
  IF readIdx > writeIdx THEN readIdx - writeIdx
                        ELSE capacity_ - writeIdx + readIdx

getAvailableWrite(writeIdx, readIdx) ==
  IF readIdx > writeIdx THEN readIdx - writeIdx - 1
                        ELSE capacity_ - writeIdx + readIdx - 1

\* The cell of the k-th element (from 0) of a transfer of n elements starting
\* at cell idx: a first chunk up to the end of the storage, then a second one
\* from cell 0.
chunkCell(idx, n, k) ==
  LET firstChunk == min(n, capacity_ - idx)
  IN  IF k < firstChunk THEN idx + k ELSE k - firstChunk

-----------------------------------------------------------------------------
(* The specification *)

Init ==
  /\ buffer_ = [c \in Cells |-> 0]
  /\ writeIndex_ = 0 /\ readIndex_ = 0
  /\ producerPc = "idle" /\ toWrite = 0 /\ copiedIn = 0
  /\ consumerPc = "idle" /\ toRead = 0 /\ data = <<>> /\ received = <<>>
  /\ accepted = 0 /\ delivered = 0

BeginWrite(count) ==
  LET n == min(count, getAvailableWrite(writeIndex_, readIndex_)) IN
  /\ producerPc = "idle"
  /\ n > 0
  /\ accepted + n =< MaxElements
  /\ producerPc' = "copy" /\ toWrite' = n /\ copiedIn' = 0
  /\ UNCHANGED <<buffer_, writeIndex_, readIndex_, consumerVars, accepted, delivered>>

CopyElementIn ==
  /\ producerPc = "copy"
  /\ copiedIn < toWrite
  /\ buffer_' = [buffer_ EXCEPT
                   ![chunkCell(writeIndex_, toWrite, copiedIn)] = accepted + copiedIn]
  /\ copiedIn' = copiedIn + 1
  /\ UNCHANGED <<writeIndex_, readIndex_, producerPc, toWrite, consumerVars, accepted, delivered>>

\* Mutant: the index may be stored before the copy is complete.
EndWrite_early ==
  /\ producerPc = "copy"
  /\ writeIndex_' = wrap(writeIndex_ + toWrite)
  /\ accepted' = accepted + toWrite
  /\ producerPc' = "idle"
  /\ UNCHANGED <<buffer_, readIndex_, toWrite, copiedIn, consumerVars, delivered>>

EndWrite ==
  /\ producerPc = "copy"
  /\ copiedIn = toWrite
  /\ writeIndex_' = wrap(writeIndex_ + toWrite)
  /\ accepted' = accepted + toWrite
  /\ producerPc' = "idle"
  /\ UNCHANGED <<buffer_, readIndex_, toWrite, copiedIn, consumerVars, delivered>>

BeginRead(count) ==
  LET n == min(count, getAvailableRead(readIndex_, writeIndex_)) IN
  /\ consumerPc = "idle"
  /\ n > 0
  /\ consumerPc' = "copy" /\ toRead' = n /\ data' = <<>>
  /\ UNCHANGED <<buffer_, writeIndex_, readIndex_, producerVars, received, accepted, delivered>>

CopyElementOut ==
  /\ consumerPc = "copy"
  /\ Len(data) < toRead
  /\ data' = Append(data, buffer_[chunkCell(readIndex_, toRead, Len(data))])
  /\ UNCHANGED <<buffer_, writeIndex_, readIndex_, producerVars, consumerPc, toRead, received,
                 accepted, delivered>>

EndRead ==
  /\ consumerPc = "copy"
  /\ Len(data) = toRead
  /\ readIndex_' = wrap(readIndex_ + toRead)
  /\ delivered' = delivered + toRead
  /\ received' = data
  /\ consumerPc' = "idle"
  /\ UNCHANGED <<buffer_, writeIndex_, producerVars, toRead, data, accepted>>

\* reset() is documented as callable only while neither thread is inside a call.
ResetRing ==
  /\ producerPc = "idle" /\ consumerPc = "idle"
  /\ writeIndex_' = 0 /\ readIndex_' = 0
  /\ delivered' = accepted
  /\ UNCHANGED <<buffer_, producerVars, consumerVars, accepted>>

Next ==
  \/ \E count \in 1..capacity_ : BeginWrite(count) \/ BeginRead(count)
  \/ CopyElementIn \/ EndWrite
  \/ CopyElementOut \/ EndRead
  \/ ResetRing

Spec == Init /\ [][Next]_vars

-----------------------------------------------------------------------------
(* Properties *)

\* The indices stay inside the storage (what the single subtraction in wrap()
\* has to guarantee) and every local has its type.
TypeOK ==
  /\ buffer_ \in [Cells -> Nat]
  /\ writeIndex_ \in Cells /\ readIndex_ \in Cells
  /\ producerPc \in {"idle", "copy"} /\ consumerPc \in {"idle", "copy"}
  /\ toWrite \in 0..Capacity /\ copiedIn \in 0..toWrite
  /\ toRead \in 0..Capacity
  /\ data \in Seq(Nat) /\ Len(data) =< toRead
  /\ received \in Seq(Nat)
  /\ accepted \in Nat /\ delivered \in Nat

\* The two indices alone tell how many elements are queued, at every moment:
\* full is never mistaken for empty, whatever the threads are in the middle of.
FillExact ==
  /\ accepted - delivered = getAvailableRead(readIndex_, writeIndex_)
  /\ accepted - delivered + getAvailableWrite(writeIndex_, readIndex_) = Capacity

\* What the consumer has copied out so far are the next elements in order: no
\* element is skipped, repeated, or overwritten while it is being copied.
InOrder ==
  consumerPc = "copy" => \A k \in 1..Len(data) : data[k] = delivered + k - 1

\* The memcpy of write() and the memcpy of read() never touch the same cell at
\* the same time: the cells of the transfer in progress on one side are
\* disjoint from those of the other.
DisjointTransfers ==
  producerPc = "copy" /\ consumerPc = "copy" =>
    \A i \in 0..(toWrite - 1), j \in 0..(toRead - 1) :
      chunkCell(writeIndex_, toWrite, i) # chunkCell(readIndex_, toRead, j)

\* What write() and read() owe each other without a lock: indices inside the
\* storage that tell the fill exactly, elements in order, copies that never meet.
RingSafe == TypeOK /\ FillExact /\ InOrder /\ DisjointTransfers

\* The cells hold, from the read index on, exactly the queued elements.
queued ==
  [k \in 1..(accepted - delivered) |-> buffer_[wrap(readIndex_ + k - 1)]]

\* The ring implements the bounded queue: a write is one append and a read is
\* one removal, both taking effect at the store of the index.
Fifo == INSTANCE BoundedFifo WITH queue <- queued
RefinesFifo == Fifo!Spec
=============================================================================
