------------------------------ MODULE AudioProofs ------------------------------
(***************************************************************************)
(* The path of the samples: the ring between two threads, and the device   *)
(* and stream that work on one ring per channel.                           *)
(***************************************************************************)
EXTENDS RingBuffer, AudioDevice, SequenceTheorems, TLAPS

-----------------------------------------------------------------------------
(***************************************************************************)
(* The ring buffer, proved for every capacity and for any number of        *)
(* elements ever written.                                                  *)
(*                                                                         *)
(* None of the properties the runs check is inductive alone: InOrder looks *)
(* only at what the consumer has copied.  The invariant adds what the      *)
(* cells hold (Queued, CopiedCells) and why a snapshot of the other        *)
(* thread's index stays good after that index has moved (Room, Supply):    *)
(* the producer's view of the free space and the consumer's view of the    *)
(* queued elements can only be too small.                                  *)
(***************************************************************************)

fill == getAvailableRead(readIndex_, writeIndex_)
freeCells == getAvailableWrite(writeIndex_, readIndex_)

\* The transfer in progress still fits in the free space.
Room == producerPc = "copy" => /\ toWrite > 0
                        /\ toWrite =< freeCells
                        /\ accepted + toWrite =< MaxElements

\* The elements of the read in progress are still queued.
Supply == consumerPc = "copy" => toRead > 0 /\ toRead =< fill

\* From the read index on, the cells hold the queued elements in order.
Queued == \A k \in 0..(fill - 1) : buffer_[wrap(readIndex_ + k)] = delivered + k

\* From the write index on, the cells hold what the producer has copied so far.
CopiedCells ==
  producerPc = "copy" => \A k \in 0..(copiedIn - 1) : buffer_[wrap(writeIndex_ + k)] = accepted + k

RingInv == TypeOK /\ FillExact /\ Room /\ Supply /\ Queued /\ CopiedCells /\ InOrder

-----------------------------------------------------------------------------
(* Index arithmetic *)

\* wrap() brings an index of at most one turn back into the storage.
LEMMA WrapType ==
  ASSUME NEW a \in Cells, NEW k \in 0..Capacity
  PROVE  wrap(a + k) \in Cells
BY CapacityAssumption DEF Cells, capacity_, wrap

\* Within one turn, different offsets are different cells.
LEMMA WrapInjective ==
  ASSUME NEW a \in Cells, NEW i \in 0..Capacity, NEW j \in 0..Capacity,
         wrap(a + i) = wrap(a + j)
  PROVE  i = j
BY CapacityAssumption DEF Cells, capacity_, wrap

\* Two advances within one turn add up.
LEMMA WrapAdd ==
  ASSUME NEW a \in Cells, NEW i \in 0..Capacity, NEW j \in 0..Capacity,
         i + j =< Capacity
  PROVE  wrap(wrap(a + i) + j) = wrap(a + (i + j))
BY CapacityAssumption DEF Cells, capacity_, wrap

\* The two memcpy chunks of a transfer are the cells one after the other, with
\* wrap-around.
LEMMA ChunkIsWrap ==
  ASSUME NEW a \in Cells, NEW n \in 0..Capacity, NEW k \in 0..(n - 1)
  PROVE  chunkCell(a, n, k) = wrap(a + k)
BY CapacityAssumption DEF Cells, capacity_, wrap, chunkCell, min

\* What the two indices say about the queue: its length, the free space, and
\* where the write index is relative to the read index.
LEMMA FillType ==
  ASSUME NEW r \in Cells, NEW w \in Cells
  PROVE  /\ getAvailableRead(r, w) \in 0..Capacity
         /\ getAvailableWrite(w, r) \in 0..Capacity
         /\ getAvailableRead(r, w) + getAvailableWrite(w, r) = Capacity
         /\ w = wrap(r + getAvailableRead(r, w))
BY CapacityAssumption DEF Cells, capacity_, wrap, getAvailableRead, getAvailableWrite

\* Advancing the write index within the free space adds to the queue.
LEMMA FillAfterWrite ==
  ASSUME NEW r \in Cells, NEW w \in Cells, NEW n \in 0..getAvailableWrite(w, r)
  PROVE  getAvailableRead(r, wrap(w + n)) = getAvailableRead(r, w) + n
BY CapacityAssumption DEF Cells, capacity_, wrap, getAvailableRead, getAvailableWrite

\* Advancing the read index within the queue takes from it.
LEMMA FillAfterRead ==
  ASSUME NEW r \in Cells, NEW w \in Cells, NEW n \in 0..getAvailableRead(r, w)
  PROVE  getAvailableRead(wrap(r + n), w) = getAvailableRead(r, w) - n
BY CapacityAssumption DEF Cells, capacity_, wrap, getAvailableRead

\* Free space and queue length in a state of the invariant.
LEMMA FillFacts ==
  ASSUME TypeOK
  PROVE  /\ fill \in 0..Capacity /\ freeCells \in 0..Capacity
         /\ fill + freeCells = Capacity
         /\ writeIndex_ = wrap(readIndex_ + fill)
BY FillType DEF TypeOK, fill, freeCells

\* A cell the producer is filling is not one of the queued cells, and its
\* offset from the read index is the queue length plus its own.
LEMMA WriteCell ==
  ASSUME TypeOK, NEW k \in 0..(freeCells - 1)
  PROVE  /\ wrap(writeIndex_ + k) = wrap(readIndex_ + (fill + k))
         /\ fill + k \in 0..Capacity
         /\ \A j \in 0..(fill - 1) : wrap(readIndex_ + j) # wrap(writeIndex_ + k)
<1>1. /\ fill \in 0..Capacity /\ freeCells \in 0..Capacity
      /\ fill + freeCells = Capacity
      /\ writeIndex_ = wrap(readIndex_ + fill)
      /\ readIndex_ \in Cells
  BY FillFacts DEF TypeOK
<1>2. fill + k \in 0..Capacity /\ k \in 0..Capacity /\ fill + k =< Capacity
  BY <1>1, CapacityAssumption
<1>3. wrap(writeIndex_ + k) = wrap(readIndex_ + (fill + k))
  BY <1>1, <1>2, WrapAdd
<1>4. ASSUME NEW j \in 0..(fill - 1), wrap(readIndex_ + j) = wrap(writeIndex_ + k)
      PROVE  FALSE
  <2>1. j \in 0..Capacity
    BY <1>1, CapacityAssumption
  <2>2. j = fill + k
    BY <1>1, <1>2, <1>3, <1>4, <2>1, WrapInjective
  <2> QED BY <1>1, <2>2
<1> QED BY <1>2, <1>3, <1>4

-----------------------------------------------------------------------------
(* Initial state and the producer's steps *)

LEMMA InitRingInv == Init => RingInv
<1> SUFFICES ASSUME Init PROVE RingInv
  OBVIOUS
<1>1. 0 \in Cells
  BY CapacityAssumption DEF Cells, capacity_
<1>2. TypeOK
  BY <1>1, CapacityAssumption DEF Init, TypeOK
<1>3. fill = 0 /\ FillExact
  BY CapacityAssumption DEF Init, fill, FillExact, getAvailableRead, getAvailableWrite, capacity_
<1>4. Room /\ Supply /\ Queued /\ CopiedCells /\ InOrder
  BY <1>3 DEF Init, Room, Supply, Queued, CopiedCells, InOrder
<1> QED BY <1>2, <1>3, <1>4 DEF RingInv

LEMMA BeginWriteKeeps ==
  ASSUME RingInv, NEW count \in 1..capacity_, BeginWrite(count)
  PROVE  RingInv'
<1> DEFINE n == min(count, freeCells)
<1>0. fill \in 0..Capacity /\ freeCells \in 0..Capacity
  BY FillFacts DEF RingInv
<1>1. /\ n \in 1..freeCells /\ n \in 0..Capacity
      /\ toWrite' = n /\ copiedIn' = 0 /\ producerPc' = "copy"
      /\ accepted + n =< MaxElements
      /\ UNCHANGED <<buffer_, writeIndex_, readIndex_, consumerPc, toRead, data, received,
                     accepted, delivered>>
  BY <1>0, CapacityAssumption DEF BeginWrite, min, freeCells, capacity_, consumerVars
<1>2. TypeOK'
  BY <1>1, CapacityAssumption DEF RingInv, TypeOK
<1>3. fill' = fill /\ freeCells' = freeCells
  BY <1>1 DEF fill, freeCells
<1>4. FillExact' /\ Supply' /\ Queued' /\ InOrder'
  BY <1>1, <1>3 DEF RingInv, FillExact, Supply, Queued, InOrder
<1>5. Room' /\ CopiedCells'
  BY <1>0, <1>1, <1>3 DEF Room, CopiedCells
<1> QED BY <1>2, <1>4, <1>5 DEF RingInv

LEMMA CopyInKeeps ==
  ASSUME RingInv, CopyElementIn
  PROVE  RingInv'
<1> DEFINE c == wrap(writeIndex_ + copiedIn)
<1>0. /\ fill \in 0..Capacity /\ freeCells \in 0..Capacity
      /\ readIndex_ \in Cells /\ writeIndex_ \in Cells
      /\ toWrite \in 0..Capacity /\ copiedIn \in 0..toWrite /\ accepted \in Nat
      /\ toWrite =< freeCells /\ copiedIn < toWrite
  BY FillFacts DEF RingInv, TypeOK, Room, CopyElementIn
<1>1. copiedIn \in 0..(freeCells - 1) /\ copiedIn \in 0..Capacity /\ copiedIn \in 0..(toWrite - 1)
  BY <1>0, CapacityAssumption
<1>2. c \in Cells
  BY <1>0, <1>1, WrapType
<1>3. chunkCell(writeIndex_, toWrite, copiedIn) = c
  BY <1>0, <1>1, ChunkIsWrap
<1>4. /\ buffer_' = [buffer_ EXCEPT ![c] = accepted + copiedIn]
      /\ copiedIn' = copiedIn + 1 /\ producerPc = "copy"
      /\ UNCHANGED <<writeIndex_, readIndex_, producerPc, toWrite, consumerPc, toRead, data, received,
                     accepted, delivered>>
  BY <1>3 DEF CopyElementIn, consumerVars
<1>5. TypeOK'
  BY <1>0, <1>2, <1>4 DEF RingInv, TypeOK
<1>6. fill' = fill /\ freeCells' = freeCells
  BY <1>4 DEF fill, freeCells
<1>7. FillExact' /\ Supply' /\ InOrder' /\ Room'
  BY <1>4, <1>6 DEF RingInv, FillExact, Supply, InOrder, Room
<1>8. Queued'
  <2> SUFFICES ASSUME NEW k \in 0..(fill - 1)
               PROVE  buffer_'[wrap(readIndex_ + k)] = delivered + k
    BY <1>4, <1>6 DEF Queued, wrap, capacity_
  <2>1. wrap(readIndex_ + k) # c
    BY <1>1, WriteCell DEF RingInv
  <2>2. k \in 0..Capacity
    BY <1>0, CapacityAssumption
  <2>3. wrap(readIndex_ + k) \in Cells
    BY <1>0, <2>2, WrapType
  <2> QED BY <1>4, <2>1, <2>3 DEF RingInv, TypeOK, Queued
<1>9. CopiedCells'
  <2> SUFFICES ASSUME NEW k \in 0..copiedIn
               PROVE  buffer_'[wrap(writeIndex_ + k)] = accepted + k
    BY <1>0, <1>4 DEF CopiedCells, wrap, capacity_
  <2>0. k \in 0..Capacity
    BY <1>0, CapacityAssumption
  <2>1. wrap(writeIndex_ + k) \in Cells
    BY <1>0, <2>0, WrapType
  <2>2. CASE k = copiedIn
    BY <1>2, <1>4, <2>2 DEF RingInv, TypeOK
  <2>3. CASE k # copiedIn
    <3>1. wrap(writeIndex_ + k) # c
      BY <1>0, <1>1, <2>0, <2>3, WrapInjective
    <3>2. k \in 0..(copiedIn - 1)
      BY <1>0, <2>3
    <3>3. buffer_[wrap(writeIndex_ + k)] = accepted + k
      BY <1>4, <3>2 DEF RingInv, CopiedCells
    <3> QED BY <1>4, <2>1, <3>1, <3>3 DEF RingInv, TypeOK
  <2> QED BY <2>2, <2>3
<1> QED BY <1>5, <1>7, <1>8, <1>9 DEF RingInv

LEMMA EndWriteKeeps ==
  ASSUME RingInv, EndWrite
  PROVE  RingInv'
<1>0. /\ fill \in 0..Capacity /\ freeCells \in 0..Capacity /\ fill + freeCells = Capacity
      /\ readIndex_ \in Cells /\ writeIndex_ \in Cells
      /\ toWrite \in 0..Capacity /\ copiedIn = toWrite /\ accepted \in Nat
      /\ toWrite =< freeCells /\ producerPc = "copy"
  BY FillFacts DEF RingInv, TypeOK, Room, EndWrite
<1>1. /\ writeIndex_' = wrap(writeIndex_ + toWrite)
      /\ accepted' = accepted + toWrite /\ producerPc' = "idle"
      /\ UNCHANGED <<buffer_, readIndex_, toWrite, copiedIn, consumerPc, toRead, data, received,
                     delivered>>
  BY DEF EndWrite, consumerVars
<1>2. writeIndex_' \in Cells
  BY <1>0, <1>1, WrapType
<1>3. TypeOK'
  BY <1>0, <1>1, <1>2 DEF RingInv, TypeOK
<1>4. fill' = fill + toWrite
  BY <1>0, <1>1, FillAfterWrite DEF fill, freeCells
<1>5. fill' + freeCells' = Capacity
  BY <1>0, <1>1, <1>2, FillType DEF fill, freeCells
<1>6. FillExact'
  BY <1>0, <1>1, <1>4, <1>5 DEF RingInv, TypeOK, FillExact, fill, freeCells
<1>7. Room' /\ CopiedCells' /\ Supply' /\ InOrder'
  BY <1>0, <1>1, <1>4 DEF RingInv, TypeOK, Room, CopiedCells, Supply, InOrder
<1>8. Queued'
  <2> SUFFICES ASSUME NEW k \in 0..(fill + toWrite - 1)
               PROVE  buffer_[wrap(readIndex_ + k)] = delivered + k
    BY <1>0, <1>1, <1>4 DEF Queued, wrap, capacity_
  <2>1. CASE k < fill
    <3>1. k \in 0..(fill - 1)
      BY <1>0, <2>1
    <3> QED BY <3>1 DEF RingInv, Queued
  <2>2. CASE k >= fill
    <3> DEFINE j == k - fill
    <3>1. j \in 0..(copiedIn - 1) /\ j \in 0..(freeCells - 1) /\ fill + j = k
      BY <1>0, <2>2
    <3>2. wrap(writeIndex_ + j) = wrap(readIndex_ + (fill + j))
      BY <3>1, WriteCell DEF RingInv
    <3>3. buffer_[wrap(writeIndex_ + j)] = accepted + j
      BY <1>0, <3>1 DEF RingInv, CopiedCells
    <3>4. accepted + j = delivered + k
      BY <1>0, <3>1 DEF RingInv, TypeOK, FillExact, fill
    <3> QED BY <3>1, <3>2, <3>3, <3>4
  <2> QED BY <1>0, <2>1, <2>2
<1> QED BY <1>3, <1>6, <1>7, <1>8 DEF RingInv

-----------------------------------------------------------------------------
(* The consumer's steps and reset() *)

LEMMA BeginReadKeeps ==
  ASSUME RingInv, NEW count \in 1..capacity_, BeginRead(count)
  PROVE  RingInv'
<1> DEFINE n == min(count, fill)
<1>0. fill \in 0..Capacity /\ freeCells \in 0..Capacity
  BY FillFacts DEF RingInv
<1>1. /\ n \in 1..fill /\ n \in 0..Capacity
      /\ toRead' = n /\ data' = <<>> /\ consumerPc' = "copy"
      /\ UNCHANGED <<buffer_, writeIndex_, readIndex_, producerPc, toWrite, copiedIn, received,
                     accepted, delivered>>
  BY <1>0, CapacityAssumption DEF BeginRead, min, fill, capacity_, producerVars
<1>2. TypeOK'
  BY <1>1, CapacityAssumption DEF RingInv, TypeOK
<1>3. fill' = fill /\ freeCells' = freeCells
  BY <1>1 DEF fill, freeCells
<1>4. FillExact' /\ Room' /\ Queued' /\ CopiedCells'
  BY <1>1, <1>3 DEF RingInv, FillExact, Room, Queued, CopiedCells
<1>5. Supply' /\ InOrder'
  BY <1>0, <1>1, <1>3 DEF Supply, InOrder
<1> QED BY <1>2, <1>4, <1>5 DEF RingInv

LEMMA CopyOutKeeps ==
  ASSUME RingInv, CopyElementOut
  PROVE  RingInv'
<1> DEFINE len == Len(data)
           c == wrap(readIndex_ + len)
<1>0. /\ fill \in 0..Capacity /\ readIndex_ \in Cells
      /\ toRead \in 0..Capacity /\ toRead =< fill /\ data \in Seq(Nat)
      /\ len \in Nat /\ len < toRead /\ delivered \in Nat /\ consumerPc = "copy"
  BY FillFacts DEF RingInv, TypeOK, Supply, CopyElementOut
<1>1. len \in 0..(fill - 1) /\ len \in 0..(toRead - 1) /\ len \in 0..Capacity
  BY <1>0, CapacityAssumption
<1>2. c \in Cells /\ chunkCell(readIndex_, toRead, len) = c
  BY <1>0, <1>1, WrapType, ChunkIsWrap
<1>3. buffer_[c] = delivered + len
  BY <1>1 DEF RingInv, Queued
<1>4. /\ data' = Append(data, delivered + len)
      /\ UNCHANGED <<buffer_, writeIndex_, readIndex_, producerPc, toWrite, copiedIn, consumerPc, toRead,
                     received, accepted, delivered>>
  BY <1>2, <1>3 DEF CopyElementOut, producerVars
<1>5. /\ data' \in Seq(Nat) /\ Len(data') = len + 1
      /\ data'[len + 1] = delivered + len
      /\ \A k \in 1..len : data'[k] = data[k]
  BY <1>0, <1>4
<1>6. TypeOK'
  BY <1>0, <1>4, <1>5 DEF RingInv, TypeOK
<1>7. fill' = fill /\ freeCells' = freeCells
  BY <1>4 DEF fill, freeCells
<1>8. FillExact' /\ Room' /\ Supply' /\ Queued' /\ CopiedCells'
  BY <1>4, <1>7 DEF RingInv, FillExact, Room, Supply, Queued, CopiedCells
<1>9. InOrder'
  <2> SUFFICES ASSUME NEW k \in 1..(len + 1)
               PROVE  data'[k] = delivered + k - 1
    BY <1>4, <1>5 DEF InOrder
  <2>1. CASE k = len + 1
    BY <1>0, <1>5, <2>1
  <2>2. CASE k # len + 1
    <3>1. k \in 1..len
      BY <1>0, <2>2
    <3> QED BY <1>0, <1>5, <3>1 DEF RingInv, InOrder
  <2> QED BY <2>1, <2>2
<1> QED BY <1>6, <1>8, <1>9 DEF RingInv

LEMMA EndReadKeeps ==
  ASSUME RingInv, EndRead
  PROVE  RingInv'
<1>0. /\ fill \in 0..Capacity /\ freeCells \in 0..Capacity /\ fill + freeCells = Capacity
      /\ readIndex_ \in Cells /\ writeIndex_ \in Cells
      /\ toRead \in 0..Capacity /\ toRead =< fill
      /\ delivered \in Nat /\ accepted \in Nat
  BY FillFacts DEF RingInv, TypeOK, Supply, EndRead
<1>1. /\ readIndex_' = wrap(readIndex_ + toRead)
      /\ delivered' = delivered + toRead /\ consumerPc' = "idle" /\ received' = data
      /\ UNCHANGED <<buffer_, writeIndex_, producerPc, toWrite, copiedIn, toRead, data, accepted>>
  BY DEF EndRead, producerVars
<1>2. readIndex_' \in Cells
  BY <1>0, <1>1, WrapType
<1>3. TypeOK'
  BY <1>0, <1>1, <1>2 DEF RingInv, TypeOK
<1>4. fill' = fill - toRead
  BY <1>0, <1>1, FillAfterRead DEF fill
<1>5. fill' + freeCells' = Capacity /\ freeCells' \in 0..Capacity
  BY <1>0, <1>1, <1>2, FillType DEF fill, freeCells
<1>6. FillExact'
  BY <1>0, <1>1, <1>4, <1>5 DEF RingInv, FillExact, fill, freeCells
<1>7. freeCells' >= freeCells
  BY <1>0, <1>4, <1>5
<1>8. Room'
  BY <1>0, <1>1, <1>5, <1>7 DEF RingInv, TypeOK, Room
<1>9. CopiedCells' /\ Supply' /\ InOrder'
  BY <1>1 DEF RingInv, CopiedCells, Supply, InOrder, wrap, capacity_
<1>10. Queued'
  <2> SUFFICES ASSUME NEW k \in 0..(fill - toRead - 1)
               PROVE  buffer_[wrap(wrap(readIndex_ + toRead) + k)] = delivered + toRead + k
    BY <1>0, <1>1, <1>4 DEF Queued, wrap, capacity_
  <2>1. /\ k \in 0..Capacity /\ toRead + k =< Capacity
        /\ toRead + k \in 0..(fill - 1)
    BY <1>0, CapacityAssumption
  <2>2. wrap(wrap(readIndex_ + toRead) + k) = wrap(readIndex_ + (toRead + k))
    BY <1>0, <2>1, WrapAdd
  <2>3. buffer_[wrap(readIndex_ + (toRead + k))] = delivered + (toRead + k)
    BY <2>1 DEF RingInv, Queued
  <2>4. delivered + (toRead + k) = delivered + toRead + k
    BY <1>0
  <2> QED BY <2>2, <2>3, <2>4
<1> QED BY <1>3, <1>6, <1>8, <1>9, <1>10 DEF RingInv

LEMMA ResetKeeps ==
  ASSUME RingInv, ResetRing
  PROVE  RingInv'
<1>1. /\ writeIndex_' = 0 /\ readIndex_' = 0 /\ delivered' = accepted
      /\ producerPc = "idle" /\ consumerPc = "idle"
      /\ UNCHANGED <<buffer_, producerPc, toWrite, copiedIn, consumerPc, toRead, data, received, accepted>>
  BY DEF ResetRing, producerVars, consumerVars
<1>2. 0 \in Cells
  BY CapacityAssumption DEF Cells, capacity_
<1>3. TypeOK'
  BY <1>1, <1>2 DEF RingInv, TypeOK
<1>4. fill' = 0 /\ freeCells' = Capacity
  BY <1>1, CapacityAssumption DEF fill, freeCells, getAvailableRead, getAvailableWrite, capacity_
<1>5. FillExact'
  BY <1>1, <1>4, CapacityAssumption DEF RingInv, TypeOK, FillExact, fill, freeCells
<1>6. Room' /\ Supply' /\ Queued' /\ CopiedCells' /\ InOrder'
  BY <1>1, <1>4 DEF Room, Supply, Queued, CopiedCells, InOrder
<1> QED BY <1>3, <1>5, <1>6 DEF RingInv

\* Every step of either thread keeps the inductive invariant.
LEMMA NextKeepsRingInv == RingInv /\ [Next]_vars => RingInv'
<1> SUFFICES ASSUME RingInv, [Next]_vars
             PROVE  RingInv'
  OBVIOUS
<1>1. CASE UNCHANGED vars
  <2>1. TypeOK' /\ FillExact' /\ InOrder'
    BY <1>1 DEF vars, RingInv, TypeOK, FillExact, InOrder
  <2>2. fill' = fill /\ freeCells' = freeCells
    BY <1>1 DEF vars, fill, freeCells
  <2>3. Room' /\ Supply' /\ Queued' /\ CopiedCells'
    BY <1>1, <2>2 DEF vars, RingInv, Room, Supply, Queued, CopiedCells
  <2> QED BY <2>1, <2>3 DEF RingInv
<1> QED BY <1>1, BeginWriteKeeps, CopyInKeeps, EndWriteKeeps,
           BeginReadKeeps, CopyOutKeeps, EndReadKeeps, ResetKeeps DEF Next

-----------------------------------------------------------------------------
(* The theorems *)

LEMMA RingInvariant == Spec => []RingInv
BY InitRingInv, NextKeepsRingInv, PTL DEF Spec

\* The indices stay inside the storage, for every capacity.
THEOREM RingTypeCorrect == Spec => []TypeOK
<1>1. RingInv => TypeOK
  BY DEF RingInv
<1> QED BY <1>1, RingInvariant, PTL

\* The indices tell the fill level exactly, whatever the threads are doing.
THEOREM FillAlwaysExact == Spec => []FillExact
<1>1. RingInv => FillExact
  BY DEF RingInv
<1> QED BY <1>1, RingInvariant, PTL

\* The consumer sees the elements in order, each once, none overwritten.
THEOREM ReadsInOrder == Spec => []InOrder
<1>1. RingInv => InOrder
  BY DEF RingInv
<1> QED BY <1>1, RingInvariant, PTL

\* The copies of write() and read() never overlap.
THEOREM TransfersDisjoint == Spec => []DisjointTransfers
<1>1. RingInv => DisjointTransfers
  <2> SUFFICES ASSUME RingInv, producerPc = "copy", consumerPc = "copy",
                      NEW i \in 0..(toWrite - 1), NEW j \in 0..(toRead - 1)
               PROVE  chunkCell(writeIndex_, toWrite, i) # chunkCell(readIndex_, toRead, j)
    BY DEF DisjointTransfers
  <2>1. /\ fill \in 0..Capacity /\ freeCells \in 0..Capacity
        /\ readIndex_ \in Cells /\ writeIndex_ \in Cells
        /\ toWrite \in 0..Capacity /\ toWrite =< freeCells
        /\ toRead \in 0..Capacity /\ toRead =< fill
    BY FillFacts DEF RingInv, TypeOK, Room, Supply
  <2>2. i \in 0..(freeCells - 1) /\ j \in 0..(fill - 1)
    BY <2>1
  <2>3. /\ chunkCell(writeIndex_, toWrite, i) = wrap(writeIndex_ + i)
        /\ chunkCell(readIndex_, toRead, j) = wrap(readIndex_ + j)
    BY <2>1, ChunkIsWrap
  <2> QED BY <2>2, <2>3, WriteCell DEF RingInv
<1> QED BY <1>1, RingInvariant, PTL

\* All of it together, for every capacity: two threads need no lock.
THEOREM RingAlwaysSafe == Spec => []RingSafe
BY RingTypeCorrect, FillAlwaysExact, ReadsInOrder, TransfersDisjoint, PTL DEF RingSafe

-----------------------------------------------------------------------------
(* Refinement.  The queue of the abstract specification is always a run of   *)
(* consecutive numbers, so its three operations are facts about such runs.   *)

\* A run is a sequence of its length.
LEMMA BatchType ==
  ASSUME NEW a \in Nat, NEW n \in Nat
  PROVE  /\ Fifo!Batch(a, n) \in Seq(Nat)
         /\ Len(Fifo!Batch(a, n)) = n
         /\ \A k \in 1..n : Fifo!Batch(a, n)[k] = a + k - 1
BY DEF Fifo!Batch

\* A sequence that counts up from a is the run from a.
LEMMA IsBatch ==
  ASSUME NEW a \in Nat, NEW s \in Seq(Nat), \A k \in 1..Len(s) : s[k] = a + k - 1
  PROVE  s = Fifo!Batch(a, Len(s))
BY DEF Fifo!Batch

\* Appending the next run.
LEMMA BatchAppend ==
  ASSUME NEW a \in Nat, NEW m \in Nat, NEW n \in Nat
  PROVE  Fifo!Batch(a, m) \o Fifo!Batch(a + m, n) = Fifo!Batch(a, m + n)
<1>0. a + m \in Nat
  OBVIOUS
<1>1. PICK s : s = Fifo!Batch(a, m)
  OBVIOUS
<1>2. PICK t : t = Fifo!Batch(a + m, n)
  OBVIOUS
<1>3. s \in Seq(Nat) /\ Len(s) = m /\ \A k \in 1..m : s[k] = a + k - 1
  BY <1>1, BatchType
<1>4. t \in Seq(Nat) /\ Len(t) = n /\ \A k \in 1..n : t[k] = (a + m) + k - 1
  BY <1>0, <1>2, BatchType
<1>5. PICK u : u = s \o t
  OBVIOUS
<1>6. /\ u \in Seq(Nat) /\ Len(u) = m + n
      /\ \A k \in 1..(m + n) : u[k] = IF k =< m THEN s[k] ELSE t[k - m]
  BY <1>3, <1>4, <1>5, ConcatProperties
<1>7. \A k \in 1..(m + n) : u[k] = a + k - 1
  BY <1>3, <1>4, <1>6
<1>8. u = Fifo!Batch(a, m + n)
  BY <1>6, <1>7, IsBatch
<1> QED BY <1>1, <1>2, <1>5, <1>8

\* The first n elements of a run.
LEMMA BatchTake ==
  ASSUME NEW a \in Nat, NEW m \in Nat, NEW n \in Nat, n =< m
  PROVE  SubSeq(Fifo!Batch(a, m), 1, n) = Fifo!Batch(a, n)
<1>1. PICK s : s = Fifo!Batch(a, m)
  OBVIOUS
<1>2. s \in Seq(Nat) /\ Len(s) = m /\ \A k \in 1..m : s[k] = a + k - 1
  BY <1>1, BatchType
<1>3. \A k \in 1..n : s[k] \in Nat
  BY <1>2
<1>4. PICK u : u = SubSeq(s, 1, n)
  OBVIOUS
<1>5. /\ u \in Seq(Nat) /\ Len(u) = n
      /\ \A k \in 1..(n - 1 + 1) : u[k] = s[1 + k - 1]
  BY <1>3, <1>4, SubSeqProperties
<1>6. ASSUME NEW k \in 1..n
      PROVE  u[k] = a + k - 1
  <2>1. k \in 1..(n - 1 + 1) /\ 1 + k - 1 = k /\ k \in 1..m
    OBVIOUS
  <2> QED BY <1>2, <1>5, <2>1
<1>7. u = Fifo!Batch(a, n)
  BY <1>5, <1>6, IsBatch
<1> QED BY <1>1, <1>4, <1>7

\* A run without its first n elements.
LEMMA BatchDrop ==
  ASSUME NEW a \in Nat, NEW m \in Nat, NEW n \in Nat, n =< m
  PROVE  SubSeq(Fifo!Batch(a, m), n + 1, m) = Fifo!Batch(a + n, m - n)
<1>1. PICK s : s = Fifo!Batch(a, m)
  OBVIOUS
<1>2. s \in Seq(Nat) /\ Len(s) = m /\ \A k \in 1..m : s[k] = a + k - 1
  BY <1>1, BatchType
<1>3. \A k \in (n + 1)..m : s[k] \in Nat
  BY <1>2
<1>4. PICK u : u = SubSeq(s, n + 1, m)
  OBVIOUS
<1>5. /\ u \in Seq(Nat) /\ Len(u) = m - n
      /\ \A k \in 1..(m - (n + 1) + 1) : u[k] = s[(n + 1) + k - 1]
  BY <1>3, <1>4, SubSeqProperties
<1>6. ASSUME NEW k \in 1..(m - n)
      PROVE  u[k] = (a + n) + k - 1
  <2>1. k \in 1..(m - (n + 1) + 1) /\ (n + 1) + k - 1 = n + k /\ n + k \in 1..m
    OBVIOUS
  <2>2. u[k] = a + (n + k) - 1
    BY <1>2, <1>5, <2>1
  <2> QED BY <2>2
<1>7. a + n \in Nat
  OBVIOUS
<1>8. u = Fifo!Batch(a + n, m - n)
  BY <1>5, <1>6, <1>7, IsBatch
<1> QED BY <1>1, <1>4, <1>8

\* The cells from the read index on are the run of the queued elements.
LEMMA QueueIsBatch == RingInv => queued = Fifo!Batch(delivered, fill)
<1> SUFFICES ASSUME RingInv
             PROVE  queued = Fifo!Batch(delivered, fill)
  OBVIOUS
<1>1. fill \in 0..Capacity /\ accepted - delivered = fill /\ delivered \in Nat
      /\ readIndex_ \in Cells
  BY FillFacts DEF RingInv, TypeOK, FillExact, fill
<1>2. ASSUME NEW k \in 1..fill
      PROVE  buffer_[wrap(readIndex_ + k - 1)] = delivered + k - 1
  <2>1. k - 1 \in 0..(fill - 1)
    BY <1>1
  <2>2. buffer_[wrap(readIndex_ + (k - 1))] = delivered + (k - 1)
    BY <2>1 DEF RingInv, Queued
  <2>3. readIndex_ + (k - 1) = readIndex_ + k - 1 /\ delivered + (k - 1) = delivered + k - 1
    BY <1>1 DEF Cells
  <2> QED BY <2>2, <2>3
<1> QED BY <1>1, <1>2 DEF queued, Fifo!Batch

LEMMA InitRefinesFifo == Init => Fifo!Init
<1> SUFFICES ASSUME Init PROVE Fifo!Init
  OBVIOUS
<1>1. queued = <<>>
  BY DEF Init, queued
<1> QED BY <1>1 DEF Init, Fifo!Init

\* The same in the state after a step.
LEMMA QueueIsBatchNext == (RingInv => queued = Fifo!Batch(delivered, fill))'
BY QueueIsBatch, PTL

\* A step that moves neither index and drops nothing leaves the queue alone:
\* the producer's copies fall outside it.
LEMMA QueueUnchanged ==
  ASSUME RingInv, RingInv', UNCHANGED <<readIndex_, writeIndex_, delivered>>
  PROVE  queued' = queued
<1>1. fill' = fill
  BY DEF fill
<1>2. queued = Fifo!Batch(delivered, fill)
  BY QueueIsBatch
<1>3. queued' = Fifo!Batch(delivered', fill')
  BY QueueIsBatchNext DEF Fifo!Batch
<1> QED BY <1>1, <1>2, <1>3

LEMMA StepRefinesFifo ==
  RingInv /\ RingInv' /\ [Next]_vars => [Fifo!Next]_(Fifo!vars)
<1> SUFFICES ASSUME RingInv, RingInv', [Next]_vars
             PROVE  Fifo!Next \/ UNCHANGED <<queued, accepted, received>>
  BY DEF Fifo!vars
<1>0. /\ fill \in 0..Capacity /\ freeCells \in 0..Capacity /\ fill + freeCells = Capacity
      /\ readIndex_ \in Cells /\ writeIndex_ \in Cells
      /\ delivered \in Nat /\ accepted \in Nat /\ accepted = delivered + fill
      /\ toWrite \in 0..Capacity /\ toRead \in 0..Capacity /\ data \in Seq(Nat)
  <2>1. fill \in 0..Capacity /\ freeCells \in 0..Capacity /\ fill + freeCells = Capacity
    BY FillFacts DEF RingInv
  <2>2. accepted - delivered = fill
    BY DEF RingInv, FillExact, fill
  <2> QED BY <2>1, <2>2 DEF RingInv, TypeOK
<1>1. queued = Fifo!Batch(delivered, fill) /\ Len(queued) = fill
  BY <1>0, QueueIsBatch, BatchType
<1>2. queued' = Fifo!Batch(delivered', fill')
  BY QueueIsBatchNext DEF Fifo!Batch
<1>3. ASSUME NEW count \in 1..capacity_, BeginWrite(count) \/ BeginRead(count)
      PROVE  UNCHANGED <<queued, accepted, received>>
  BY <1>3, QueueUnchanged DEF BeginWrite, BeginRead, producerVars, consumerVars
<1>4. CASE CopyElementIn \/ CopyElementOut
  BY <1>4, QueueUnchanged DEF CopyElementIn, CopyElementOut, producerVars, consumerVars
<1>5. CASE EndWrite
  <2>1. /\ toWrite \in 1..Capacity /\ toWrite =< freeCells
        /\ accepted + toWrite =< MaxElements
    BY <1>0, <1>5 DEF RingInv, Room, EndWrite
  <2>2. fill' = fill + toWrite
    BY <1>0, <1>5, <2>1, FillAfterWrite DEF EndWrite, fill, freeCells
  <2>3. queued' = queued \o Fifo!Batch(accepted, toWrite)
    <3>1. queued' = Fifo!Batch(delivered, fill + toWrite)
      BY <1>2, <1>5, <2>2 DEF EndWrite
    <3>2. fill \in Nat /\ toWrite \in Nat
      BY <1>0
    <3> QED BY <1>0, <1>1, <3>1, <3>2, BatchAppend
  <2>4. Len(queued) + toWrite =< Capacity
    BY <1>0, <1>1, <2>1
  <2>5. accepted' = accepted + toWrite /\ received' = received
    BY <1>5 DEF EndWrite, consumerVars
  <2>6. Fifo!Put(toWrite)
    BY <2>1, <2>3, <2>4, <2>5 DEF Fifo!Put
  <2> QED BY <2>1, <2>6 DEF Fifo!Next
<1>6. CASE EndRead
  <2>1. toRead \in 1..Capacity /\ toRead =< fill
    BY <1>0, <1>6 DEF RingInv, Supply, EndRead
  <2>2. fill' = fill - toRead
    BY <1>0, <1>6, <2>1, FillAfterRead DEF EndRead, fill
  <2>3. delivered \in Nat /\ fill \in Nat /\ toRead \in Nat /\ toRead =< fill
    BY <1>0, <2>1
  <2>4. SubSeq(queued, 1, toRead) = Fifo!Batch(delivered, toRead)
    BY <1>1, <2>3, BatchTake
  <2>5. SubSeq(queued, toRead + 1, fill) = Fifo!Batch(delivered + toRead, fill - toRead)
    BY <1>1, <2>3, BatchDrop
  <2>6. data = Fifo!Batch(delivered, toRead)
    <3>1. consumerPc = "copy" /\ Len(data) = toRead
      BY <1>6 DEF EndRead
    <3>2. \A k \in 1..Len(data) : data[k] = delivered + k - 1
      BY <3>1 DEF RingInv, InOrder
    <3> QED BY <1>0, <3>1, <3>2, IsBatch
  <2>7. /\ received' = SubSeq(queued, 1, toRead)
        /\ queued' = SubSeq(queued, toRead + 1, Len(queued))
        /\ accepted' = accepted
    BY <1>1, <1>2, <1>6, <2>2, <2>4, <2>5, <2>6 DEF EndRead
  <2>8. Fifo!Take(toRead)
    BY <1>1, <2>1, <2>7 DEF Fifo!Take
  <2> QED BY <2>1, <2>8 DEF Fifo!Next
<1>7. CASE ResetRing
  <2>1. fill' = 0
    BY <1>7 DEF ResetRing, fill, getAvailableRead
  <2>2. queued' = <<>>
    BY <1>2, <2>1 DEF Fifo!Batch
  <2>3. accepted' = accepted /\ received' = received
    BY <1>7 DEF ResetRing, consumerVars
  <2> QED BY <2>2, <2>3 DEF Fifo!Next, Fifo!Clear
<1>8. CASE UNCHANGED vars
  BY <1>8, QueueUnchanged DEF vars
<1> QED BY <1>3, <1>4, <1>5, <1>6, <1>7, <1>8 DEF Next

\* The ring implements the bounded queue, for every capacity: write() and read()
\* are single steps to their callers, and lose, repeat and reorder nothing.
THEOREM RingIsFifo == Spec => RefinesFifo
<1>1. Spec => [][Fifo!Next]_(Fifo!vars)
  BY RingInvariant, StepRefinesFifo, PTL DEF Spec
<1> QED BY <1>1, InitRefinesFifo, PTL DEF Spec, RefinesFifo, Fifo!Spec

-----------------------------------------------------------------------------
(***************************************************************************)
(* The device and its stream's thread, proved for any number of channels,  *)
(* ring, block and packet sizes, rates, faults and changes.                *)
(*                                                                         *)
(* PlaysTruly is not inductive.  That frames are heard in order needs that *)
(* the writer's next number is past all of them (Ordered has the last one  *)
(* made).  That the schedule does not drift needs that it is behind by     *)
(* exactly what is carried (Paced).  That a stopped stream has no socket   *)
(* needs who waits for the thread (Joinable), and all of it that a thread  *)
(* that runs has a stream (Employed).                                      *)
(***************************************************************************)

Places == {"off", "top", "sleep", "channels", "send"}

Threads == [running : BOOLEAN, at : Places, ch : Nat, under : BOOLEAN]

ThreadTyped ==
  /\ thread \in Threads
  /\ stream \in Offers \cup {NoStream}

\* Whoever is not waiting for the thread finds it running or gone, and a thread
\* that is gone has closed its socket.
Joinable ==
  /\ ~free => ~thread.running
  /\ free /\ thread.at # "off" => thread.running /\ socket
  /\ free /\ thread.at = "off" => ~thread.running /\ ~socket

\* A thread works for a stream, and so does who will start it again.
Employed == thread.at # "off" \/ joining = "remap" => stream \in Offers

\* The schedule is behind by what is carried.
Paced ==
  thread.at # "off" => pace.carry \in Nat /\ pace.carry < stream.rate /\ pace.ahead = pace.carry

Numbered ==
  thread.at # "off" => /\ rtp.slot \in Nat
                       /\ rtp.seq = rtp.slot % SeqModulus
                       /\ rtp.ts = (rtp.slot * samplesPerPacket(stream)) % TsModulus

\* A ring is in order, after what was heard of it and up to what was made.
Ordered(r, first, last) ==
  /\ first \in Nat /\ last \in Nat /\ first <= last
  /\ r \in Seq(Nat) /\ Len(r) <= RingSize
  /\ \A i \in 1..Len(r) : first < r[i] /\ r[i] <= last
  /\ \A i, j \in 1..Len(r) : i < j => r[i] < r[j]

Rings ==
  /\ ring \in [DevCh -> Seq(Nat)] /\ made \in [DevCh -> Nat] /\ heard \in [DevCh -> Nat]
  /\ \A d \in DevCh : Ordered(ring[d], heard[d], made[d])

-----------------------------------------------------------------------------
(* Packets *)

\* Quotients and remainders.
LEMMA Divided ==
  ASSUME NEW n \in Nat, NEW m \in Nat \ {0}
  PROVE  /\ n \div m \in Nat /\ n % m \in Nat /\ n % m < m
         /\ n = (m * (n \div m)) + (n % m)
OBVIOUS

LEMMA RemainderOf ==
  ASSUME NEW m \in Nat \ {0}, NEW q \in Int, NEW r \in Nat, r < m
  PROVE  ((m * q) + r) % m = r
OBVIOUS

\* A packet has at least one frame.
LEMMA PacketSize ==
  ASSUME NEW o \in Offers
  PROVE  samplesPerPacket(o) \in Nat \ {0} /\ o.rate \in Nat \ {0}
<1>1. o.rate \in Nat \ {0} /\ o.framecount \in Nat
  <2>1. o.rate \in Rates /\ o.framecount \in 0..1
    BY DEF Offers
  <2>2. Rates \subseteq Nat \ {0}
    BY AudioAssumption
  <2>3. o.rate \in Nat \ {0}
    BY <2>1, <2>2
  <2>4. o.framecount \in Nat
    BY <2>1
  <2> QED BY <2>3, <2>4
<1>2. PICK x \in Nat : x = o.rate * PacketTime
  BY <1>1, AudioAssumption
<1>3. x \div Second \in Nat
  BY AudioAssumption, Divided
<1>4. framesPerPacket(o) \in Nat
  BY <1>1, <1>2, <1>3 DEF framesPerPacket
<1> QED BY <1>1, <1>4, AudioAssumption DEF samplesPerPacket, smaller

\* One packet later the schedule is behind by what is carried still.
LEMMA StepExact ==
  ASSUME NEW o \in Offers, pace.carry \in Nat, pace.carry < o.rate
  PROVE  /\ step(o).carry \in Nat /\ step(o).carry < o.rate
         /\ pace.carry + (samplesPerPacket(o) * Second) - (step(o).units * o.rate) = step(o).carry
<1>1. o.rate \in Nat \ {0} /\ samplesPerPacket(o) \in Nat
  BY PacketSize
<1>2. PICK n \in Nat : n = samplesPerPacket(o) * Second
  BY <1>1, AudioAssumption
<1>3. PICK w \in Nat : w = n \div o.rate
  BY <1>1, Divided
<1>4. PICK r \in Nat : r = n % o.rate
  BY <1>1, Divided
<1>5. n = (o.rate * w) + r
  BY <1>1, <1>3, <1>4, Divided
<1>6. PICK s \in Nat : s = pace.carry + r
  OBVIOUS
<1>7. PICK v \in Nat : v = s \div o.rate
  BY <1>1, Divided
<1>8. PICK c \in Nat : c = s % o.rate
  BY <1>1, Divided
<1>9. c < o.rate /\ s = (o.rate * v) + c
  BY <1>1, <1>7, <1>8, Divided
<1>10. step(o) = [units |-> w + v, carry |-> c]
  BY <1>2, <1>3, <1>4, <1>6, <1>7, <1>8 DEF step, packetInterval
<1>11. (w + v) * o.rate = (o.rate * w) + (o.rate * v)
  BY <1>1
<1>12. PICK a \in Nat : a = o.rate * w
  BY <1>1
<1>13. PICK b \in Nat : b = o.rate * v
  BY <1>1
<1>14. pace.carry + n - ((w + v) * o.rate) = c
  BY <1>5, <1>6, <1>9, <1>11, <1>12, <1>13
<1> QED BY <1>2, <1>9, <1>10, <1>14

\* The next packet's number is that of the next packet time, wrapped or not.
LEMMA NextNumber ==
  ASSUME NEW slot \in Nat
  PROVE  /\ (slot + 1) % TsModulus \in Nat
         /\ ((slot % SeqModulus) + 1) % SeqModulus = ((slot + 1) % TsModulus) % SeqModulus
<1>1. PICK k \in Nat \ {0} : TsModulus = SeqModulus * k
  BY AudioAssumption
<1>2. SeqModulus \in Nat \ {0}
  BY AudioAssumption
<1>3. TsModulus \in Nat \ {0}
  BY <1>1, <1>2
<1>4. PICK a \in Nat : a = (slot + 1) \div TsModulus
  BY <1>3, Divided
<1>5. PICK later \in Nat : later = (slot + 1) % TsModulus
  BY <1>3, Divided
<1>6. slot + 1 = (TsModulus * a) + later
  BY <1>3, <1>4, <1>5, Divided
<1>7. PICK q \in Nat : q = slot \div SeqModulus
  BY <1>2, Divided
<1>8. PICK seq \in Nat : seq = slot % SeqModulus
  BY <1>2, Divided
<1>9. slot = (SeqModulus * q) + seq
  BY <1>2, <1>7, <1>8, Divided
<1>10. PICK b \in Nat : b = (seq + 1) \div SeqModulus
  BY <1>2, Divided
<1>11. PICK r \in Nat : r = (seq + 1) % SeqModulus
  BY <1>2, Divided
<1>12. r < SeqModulus /\ seq + 1 = (SeqModulus * b) + r
  BY <1>2, <1>10, <1>11, Divided
<1>13. PICK d \in Int : d = q + b - (k * a)
  BY <1>1
<1>14. SeqModulus * d = (SeqModulus * q) + (SeqModulus * b) - (TsModulus * a)
  <2>1. SeqModulus * d = (SeqModulus * q) + (SeqModulus * b) - (SeqModulus * (k * a))
    BY <1>1, <1>2, <1>13
  <2>2. SeqModulus * (k * a) = TsModulus * a
    BY <1>1, <1>2
  <2> QED BY <2>1, <2>2
<1>15. PICK x \in Nat : x = SeqModulus * q
  BY <1>2
<1>16. PICK y \in Nat : y = SeqModulus * b
  BY <1>2
<1>17. PICK z \in Nat : z = TsModulus * a
  BY <1>3
<1>18. later = (SeqModulus * d) + r
  BY <1>6, <1>9, <1>12, <1>14, <1>15, <1>16, <1>17
<1>19. later % SeqModulus = r
  BY <1>2, <1>12, <1>18, RemainderOf
<1> QED BY <1>5, <1>8, <1>11, <1>19

\* ... and so is its timestamp.
LEMMA NextTimestamp ==
  ASSUME NEW slot \in Nat, NEW n \in Nat
  PROVE  (((slot * n) % TsModulus) + n) % TsModulus = (((slot + 1) % TsModulus) * n) % TsModulus
<1>1. TsModulus \in Nat \ {0}
  <2>1. PICK k \in Nat \ {0} : TsModulus = SeqModulus * k
    BY AudioAssumption
  <2>2. SeqModulus \in Nat \ {0}
    BY AudioAssumption
  <2> QED BY <2>1, <2>2
<1>2. PICK a \in Nat : a = (slot + 1) \div TsModulus
  BY <1>1, Divided
<1>3. PICK later \in Nat : later = (slot + 1) % TsModulus
  BY <1>1, Divided
<1>4. slot + 1 = (TsModulus * a) + later
  BY <1>1, <1>2, <1>3, Divided
<1>5. PICK all \in Nat : all = slot * n
  OBVIOUS
<1>6. PICK c \in Nat : c = all \div TsModulus
  BY <1>1, Divided
<1>7. PICK ts \in Nat : ts = all % TsModulus
  BY <1>1, Divided
<1>8. all = (TsModulus * c) + ts
  BY <1>1, <1>6, <1>7, Divided
<1>9. PICK d \in Nat : d = (ts + n) \div TsModulus
  BY <1>1, Divided
<1>10. PICK r \in Nat : r = (ts + n) % TsModulus
  BY <1>1, Divided
<1>11. r < TsModulus /\ ts + n = (TsModulus * d) + r
  BY <1>1, <1>9, <1>10, Divided
<1>12. PICK e \in Int : e = c + d - (a * n)
  OBVIOUS
<1>13. TsModulus * e = (TsModulus * c) + (TsModulus * d) - (TsModulus * (a * n))
  BY <1>1, <1>12
<1>14. later * n = all + n - (TsModulus * (a * n))
  <2>1. later = slot + 1 - (TsModulus * a)
    BY <1>1, <1>4
  <2>2. later * n = (slot * n) + n - ((TsModulus * a) * n)
    BY <1>1, <2>1
  <2>3. (TsModulus * a) * n = TsModulus * (a * n)
    BY <1>1
  <2> QED BY <1>5, <2>2, <2>3
<1>15. PICK x \in Nat : x = TsModulus * c
  BY <1>1
<1>16. PICK y \in Nat : y = TsModulus * d
  BY <1>1
<1>17. PICK z \in Nat : z = TsModulus * (a * n)
  BY <1>1
<1>18. later * n = (TsModulus * e) + r
  BY <1>8, <1>11, <1>13, <1>14, <1>15, <1>16, <1>17
<1>19. (later * n) % TsModulus = r
  BY <1>1, <1>11, <1>18, RemainderOf
<1> QED BY <1>3, <1>5, <1>7, <1>10, <1>19

-----------------------------------------------------------------------------
(* Rings *)

\* The writer's frames are numbered after those it made before; what does not fit
\* is left out.
LEMMA PutInOrder ==
  ASSUME NEW r, NEW first, NEW last, NEW n \in Nat, Ordered(r, first, last)
  PROVE  Ordered(put(r, numbered(last, n)), first, last + n)
<1>1. /\ first \in Nat /\ last \in Nat /\ first <= last /\ r \in Seq(Nat)
      /\ Len(r) \in Nat /\ Len(r) <= RingSize /\ RingSize \in Nat
  BY AudioAssumption, LenProperties DEF Ordered
<1> DEFINE f == numbered(last, n)
           k == smaller(Len(f), RingSize - Len(r))
<1>2. f \in Seq(Nat) /\ Len(f) = n /\ \A i \in 1..n : f[i] = last + i
  BY <1>1 DEF numbered
<1>3. k \in 0..n /\ k <= RingSize - Len(r)
  BY <1>1, <1>2 DEF smaller
<1> DEFINE g == SubSeq(f, 1, k)
<1> HIDE DEF f, k
<1>4. g \in Seq(Nat) /\ Len(g) = k /\ \A i \in 1..k : g[i] = last + i
  <2>1. \A i \in 1..k : f[i] \in Nat
    BY <1>2, <1>3
  <2>2. /\ g \in Seq(Nat) /\ Len(g) = k
        /\ \A i \in 1..k : g[i] = f[1 + i - 1]
    BY <1>2, <1>3, <2>1, SubSeqProperties
  <2> QED BY <1>2, <1>3, <2>2
<1> HIDE DEF g
<1> DEFINE p == r \o g
<1>5. /\ p \in Seq(Nat) /\ Len(p) = Len(r) + k
      /\ \A i \in 1..(Len(r) + k) : p[i] = IF i <= Len(r) THEN r[i] ELSE g[i - Len(r)]
  BY <1>1, <1>4, ConcatProperties
<1>6. ASSUME NEW i \in 1..(Len(r) + k), i > Len(r)
      PROVE  p[i] = last + (i - Len(r)) /\ i - Len(r) \in 1..k
  BY <1>1, <1>3, <1>4, <1>5, <1>6
<1> HIDE DEF p
<1>7. \A i \in 1..Len(p) : first < p[i] /\ p[i] <= last + n
  <2> SUFFICES ASSUME NEW i \in 1..(Len(r) + k) PROVE first < p[i] /\ p[i] <= last + n
    BY <1>5
  <2>1. CASE i <= Len(r)
    <3>1. i \in 1..Len(r) /\ p[i] = r[i] /\ r[i] \in Nat
      BY <1>1, <1>5, <2>1
    <3> QED BY <1>1, <3>1 DEF Ordered
  <2>2. CASE i > Len(r)
    BY <1>1, <1>3, <1>6, <2>2
  <2> QED BY <1>1, <1>3, <2>1, <2>2
<1>8. ASSUME NEW i \in 1..Len(p), NEW j \in 1..Len(p), i < j PROVE p[i] < p[j]
  <2>0. i \in 1..(Len(r) + k) /\ j \in 1..(Len(r) + k)
    BY <1>5, <1>8
  <2>1. CASE j <= Len(r)
    <3>1. i \in 1..Len(r) /\ j \in 1..Len(r) /\ p[i] = r[i] /\ p[j] = r[j]
      BY <1>1, <1>3, <1>5, <1>8, <2>0, <2>1
    <3> QED BY <1>8, <3>1 DEF Ordered
  <2>2. CASE i > Len(r)
    <3>1. j > Len(r)
      BY <1>1, <1>3, <1>8, <2>0, <2>2
    <3> QED BY <1>1, <1>3, <1>6, <1>8, <2>0, <2>2, <3>1
  <2>3. CASE i <= Len(r) /\ j > Len(r)
    <3>0. i \in 1..Len(r)
      BY <1>1, <1>3, <2>0, <2>3
    <3>1. p[i] = r[i] /\ r[i] \in Nat
      BY <1>1, <1>5, <2>0, <2>3, <3>0
    <3>2. r[i] <= last
      BY <3>0 DEF Ordered
    <3>3. p[j] = last + (j - Len(r)) /\ j - Len(r) \in 1..k
      BY <1>6, <2>0, <2>3
    <3> QED BY <1>1, <1>3, <3>1, <3>2, <3>3
  <2> QED BY <1>1, <1>3, <2>0, <2>1, <2>2, <2>3
<1>9. Ordered(p, first, last + n)
  BY <1>1, <1>3, <1>5, <1>7, <1>8 DEF Ordered
<1> QED BY <1>9 DEF p, g, k, f, put
\* The reader hears the first frames, as many as there are; the others stay.
LEMMA TakeInOrder ==
  ASSUME NEW r, NEW first, NEW last, NEW n \in Nat, Ordered(r, first, last)
  PROVE  Ordered(rest(r, n), lastOf(filled(r, n), first), last)
<1>1. /\ first \in Nat /\ last \in Nat /\ first <= last /\ r \in Seq(Nat)
      /\ Len(r) \in Nat /\ Len(r) <= RingSize /\ RingSize \in Nat
  BY AudioAssumption, LenProperties DEF Ordered
<1>2. \A i \in 1..Len(r) : r[i] \in Nat /\ first < r[i] /\ r[i] <= last
  BY <1>1 DEF Ordered
<1> DEFINE k == smaller(n, Len(r))
           f == filled(r, n)
           kept == {i \in DOMAIN f : f[i] # 0}
           h == lastOf(f, first)
<1>3. k \in 0..n /\ k \in 0..Len(r) /\ (k = n \/ k = Len(r))
  BY <1>1 DEF smaller
<1> HIDE DEF k
<1>4. DOMAIN f = 1..n /\ \A i \in 1..n : f[i] = IF i <= Len(r) THEN r[i] ELSE 0
  BY DEF filled
<1> HIDE DEF f
<1>5. kept = 1..k
  <2>1. ASSUME NEW i \in 1..k PROVE i \in kept
    <3>1. i \in 1..n /\ i \in 1..Len(r)
      BY <1>1, <1>3
    <3>2. f[i] = r[i]
      BY <1>1, <1>4, <3>1
    <3> QED BY <1>1, <1>2, <1>4, <3>1, <3>2
  <2>2. ASSUME NEW i \in kept PROVE i \in 1..k
    <3>1. i \in 1..n /\ f[i] # 0
      BY <1>4
    <3>2. i <= Len(r)
      BY <1>4, <3>1
    <3> QED BY <1>1, <1>3, <3>1, <3>2
  <2> QED BY <2>1, <2>2
<1>6. h = IF kept = {} THEN first ELSE f[CHOOSE i \in kept : \A j \in kept : j <= i]
  BY DEF lastOf
<1> HIDE DEF kept, h
<1>7. h = IF k = 0 THEN first ELSE r[k]
  <2>1. CASE k = 0
    BY <1>5, <1>6, <2>1
  <2>2. CASE k # 0
    <3>1. k \in kept /\ \A j \in kept : j <= k
      BY <1>3, <1>5, <2>2
    <3> DEFINE top == CHOOSE i \in kept : \A j \in kept : j <= i
    <3>2. top \in kept /\ \A j \in kept : j <= top
      BY <3>1
    <3>3. top = k
      BY <1>3, <1>5, <3>1, <3>2
    <3>4. h = f[k]
      BY <1>6, <3>1, <3>3
    <3>5. f[k] = r[k]
      BY <1>1, <1>3, <1>4, <2>2
    <3> QED BY <2>2, <3>4, <3>5
  <2> QED BY <2>1, <2>2
<1> DEFINE p == rest(r, n)
<1>8. /\ p \in Seq(Nat) /\ Len(p) = Len(r) - k
      /\ \A i \in 1..(Len(r) - k) : p[i] = r[k + i]
  <2>1. p = SubSeq(r, k + 1, Len(r))
    BY DEF rest, k
  <2>2. \A i \in (k + 1)..Len(r) : r[i] \in Nat
    BY <1>1, <1>2, <1>3
  <2>3. /\ p \in Seq(Nat)
        /\ Len(p) = IF k + 1 <= Len(r) THEN Len(r) - (k + 1) + 1 ELSE 0
        /\ \A i \in 1..(Len(r) - (k + 1) + 1) : p[i] = r[(k + 1) + i - 1]
    BY <1>1, <1>3, <2>1, <2>2, SubSeqProperties
  <2>4. Len(r) - (k + 1) + 1 = Len(r) - k
    BY <1>1, <1>3
  <2>5. \A i \in 1..(Len(r) - k) : (k + 1) + i - 1 = k + i
    BY <1>1, <1>3
  <2> HIDE DEF p
  <2>6. Len(p) = Len(r) - k
    BY <1>1, <1>3, <2>3
  <2> QED BY <2>3, <2>4, <2>5, <2>6
<1> HIDE DEF p
<1>9. h \in Nat /\ h <= last
  <2>1. CASE k = 0
    BY <1>1, <1>7, <2>1
  <2>2. CASE k # 0
    <3>1. k \in 1..Len(r)
      BY <1>1, <1>3, <2>2
    <3> QED BY <1>2, <1>7, <2>2, <3>1
  <2> QED BY <2>1, <2>2
<1>10. \A i \in 1..(Len(r) - k) : k + i \in 1..Len(r)
  BY <1>1, <1>3
<1>11. \A i \in 1..Len(p) : h < p[i] /\ p[i] <= last
  <2> SUFFICES ASSUME NEW i \in 1..(Len(r) - k) PROVE h < p[i] /\ p[i] <= last
    BY <1>8
  <2>1. p[i] = r[k + i] /\ k + i \in 1..Len(r)
    BY <1>8, <1>10
  <2>2. CASE k = 0
    BY <1>2, <1>7, <2>1, <2>2
  <2>3. CASE k # 0
    <3>1. k \in 1..Len(r) /\ k < k + i
      BY <1>1, <1>3, <2>3
    <3>2. r[k] < r[k + i]
      BY <2>1, <3>1 DEF Ordered
    <3> QED BY <1>2, <1>7, <2>1, <2>3, <3>2
  <2> QED BY <2>2, <2>3
<1>12. ASSUME NEW i \in 1..Len(p), NEW j \in 1..Len(p), i < j PROVE p[i] < p[j]
  <2>1. i \in 1..(Len(r) - k) /\ j \in 1..(Len(r) - k)
    BY <1>8, <1>12
  <2>2. k + i \in 1..Len(r) /\ k + j \in 1..Len(r)
    BY <1>10, <2>1
  <2>3. k + i < k + j
    BY <1>1, <1>3, <1>12, <2>1
  <2>4. r[k + i] < r[k + j]
    BY <2>2, <2>3 DEF Ordered
  <2> QED BY <1>8, <2>1, <2>4
<1>13. Len(p) <= RingSize
  BY <1>1, <1>3, <1>8
<1>14. Ordered(p, h, last)
  BY <1>1, <1>8, <1>9, <1>11, <1>12, <1>13 DEF Ordered
<1> QED BY <1>14 DEF p, h, f

\* Rings that are in order give what the run checks.
LEMMA OrderIsPlayed == Rings => PlayedInOrder
<1> SUFFICES ASSUME Rings, NEW d \in DevCh, NEW i, NEW j,
                    i \in DOMAIN (<<heard[d]>> \o ring[d]), j \in DOMAIN (<<heard[d]>> \o ring[d]),
                    i < j
             PROVE  (<<heard[d]>> \o ring[d])[i] < (<<heard[d]>> \o ring[d])[j]
  BY DEF PlayedInOrder
<1> DEFINE r == ring[d]
           h == heard[d]
           all == <<h>> \o r
<1>1. Ordered(r, h, made[d]) /\ h \in Nat /\ r \in Seq(Nat) /\ Len(r) \in Nat
  BY LenProperties DEF Rings, Ordered
<1> HIDE DEF r, h
<1>2. <<h>> \in Seq(Nat) /\ Len(<<h>>) = 1 /\ <<h>>[1] = h
  BY <1>1
<1>3. /\ all \in Seq(Nat) /\ Len(all) = 1 + Len(r)
      /\ \A x \in 1..(1 + Len(r)) : all[x] = IF x <= 1 THEN <<h>>[x] ELSE r[x - 1]
  BY <1>1, <1>2, ConcatProperties
<1> HIDE DEF all
<1>4. i \in 1..(1 + Len(r)) /\ j \in 1..(1 + Len(r)) /\ i < j
  BY <1>1, <1>3, LenProperties DEF all, r, h
<1>5. j - 1 \in 1..Len(r) /\ all[j] = r[j - 1]
  BY <1>1, <1>3, <1>4
<1>6. CASE i = 1
  <2>1. all[i] = h
    BY <1>1, <1>2, <1>3, <1>4, <1>6
  <2> QED BY <1>1, <1>5, <2>1 DEF Ordered, all, r, h
<1>7. CASE i # 1
  <2>0. i - 1 \in 1..Len(r) /\ i - 1 < j - 1 /\ ~(i <= 1)
    BY <1>1, <1>4, <1>7
  <2>1. i - 1 \in 1..Len(r) /\ all[i] = r[i - 1] /\ i - 1 < j - 1
    BY <1>3, <1>4, <2>0
  <2>2. r[i - 1] < r[j - 1]
    BY <1>1, <1>5, <2>1 DEF Ordered
  <2>3. all[i] < all[j]
    BY <1>5, <2>1, <2>2
  <2> QED BY <2>3 DEF all, r, h
<1> QED BY <1>6, <1>7
-----------------------------------------------------------------------------
(* Steps *)

\* Everything but the rings.
ThreadInv == ThreadTyped /\ Joinable /\ Employed /\ Paced /\ Numbered

\* A stream that has just been started is on schedule and on its grid.
LEMMA FreshStart ==
  ASSUME stream' \in Offers, pace' = OnTime, rtp' = FirstPacket
  PROVE  Paced' /\ Numbered'
<1>1. samplesPerPacket(stream') \in Nat \ {0} /\ (stream').rate \in Nat \ {0}
  BY PacketSize
<1>2. TsModulus \in Nat \ {0} /\ SeqModulus \in Nat \ {0}
  <2>1. PICK k \in Nat \ {0} : TsModulus = SeqModulus * k
    BY AudioAssumption
  <2>2. SeqModulus \in Nat \ {0}
    BY AudioAssumption
  <2> QED BY <2>1, <2>2
<1>3. 0 % SeqModulus = 0 /\ 0 % TsModulus = 0 /\ 0 * samplesPerPacket(stream') = 0
  BY <1>1, <1>2
<1>4. Paced'
  BY <1>1 DEF Paced, OnTime
<1>5. Numbered'
  BY <1>3 DEF Numbered, FirstPacket, samplesPerPacket, framesPerPacket, smaller
<1> QED BY <1>4, <1>5

\* One that is left alone stays there.
LEMMA LeftAlone ==
  ASSUME Paced, Numbered, UNCHANGED <<pace, rtp, stream>>, (thread.at)' # "off" => thread.at # "off"
  PROVE  Paced' /\ Numbered'
BY DEF Paced, Numbered, samplesPerPacket, framesPerPacket, smaller

LEMMA NoOffer == NoStream \notin Offers
BY AudioAssumption DEF NoStream, Offers

LEMMA StartedThread ==
  /\ Started \in Threads
  /\ Started.running = TRUE /\ Started.at = "top"
  /\ Idle \in Threads
  /\ Idle.running = FALSE /\ Idle.at = "off"
BY DEF Started, Idle, Places, Threads

\* start() finds no thread, and leaves one with an open socket or neither.
LEMMA StartOutcome ==
  ASSUME ThreadInv, free, start
  PROVE  \/ UNCHANGED <<socket, thread, pace, rtp>>
         \/ /\ thread.at = "off" /\ pace' = OnTime /\ rtp' = FirstPacket
            /\ \/ thread' = Started /\ socket' = TRUE
               \/ thread' = Idle /\ socket' = FALSE
<1>1. CASE socket
  BY <1>1 DEF start
<1>2. CASE ~socket
  <2>1. PICK failing \in SocketCalls \cup {"none"} :
                              /\ socket' = openSocket(failing)
                              /\ thread' = IF openSocket(failing) THEN Started ELSE Idle
                              /\ pace' = OnTime /\ rtp' = FirstPacket
    BY <1>2 DEF start
  <2>2. openSocket(failing) \in BOOLEAN
    BY <2>1 DEF openSocket, openTransmitter, openReceiver
  <2>3. thread.at = "off"
    BY <1>2 DEF ThreadInv, Joinable
  <2> QED BY <2>1, <2>2, <2>3
<1> QED BY <1>1, <1>2
\* What those who have waited for the thread, and those who need not, leave.
LEMMA ControlKeeps ==
  ASSUME ThreadInv, Control \/ Joined
  PROVE  ThreadInv'
<1> USE DEF ThreadInv
<1>0. thread.running \in BOOLEAN /\ thread.at \in Places
  BY DEF ThreadTyped, Threads
<1>1. ASSUME free, UNCHANGED joining, start \/ noStart, stream' \in Offers \cup {NoStream},
             (thread.at)' # "off" => stream' \in Offers, thread.at # "off" => stream' = stream
      PROVE  ThreadInv'
  <2>1. CASE UNCHANGED <<socket, thread, pace, rtp>>
    <3>1. ThreadTyped' /\ Joinable' /\ Employed'
      BY <1>1, <2>1 DEF ThreadTyped, Joinable, Employed, free
    <3>2. CASE thread.at = "off"
      BY <2>1, <3>1, <3>2 DEF Paced, Numbered
    <3>3. CASE thread.at # "off"
      BY <1>1, <2>1, <3>1, <3>3, LeftAlone
    <3> QED BY <3>2, <3>3
  <2>2. CASE ~UNCHANGED <<socket, thread, pace, rtp>>
    <3>1. /\ thread.at = "off" /\ pace' = OnTime /\ rtp' = FirstPacket
          /\ \/ thread' = Started /\ socket' = TRUE
             \/ thread' = Idle /\ socket' = FALSE
      BY <1>1, <2>2, StartOutcome DEF noStart
    <3>2. CASE thread' = Started /\ socket' = TRUE
      <4>1. ThreadTyped' /\ Joinable' /\ Employed'
        BY <1>1, <3>2, StartedThread DEF ThreadTyped, Joinable, Employed, free
      <4>2. Paced' /\ Numbered'
        BY <1>1, <3>1, <3>2, FreshStart, StartedThread
      <4> QED BY <4>1, <4>2
    <3>3. CASE thread' = Idle /\ socket' = FALSE
      BY <1>1, <3>3, StartedThread DEF ThreadTyped, Joinable, Employed, free, Paced, Numbered
    <3> QED BY <3>1, <3>2, <3>3
  <2> QED BY <2>1, <2>2
<1>2. ASSUME NEW who, who # "none", stop(who), UNCHANGED stream, stream \in Offers
      PROVE  ThreadInv'
  <2>1. thread' = [thread EXCEPT !.running = FALSE] /\ joining' = who /\ UNCHANGED <<socket, pace, rtp>>
    BY <1>2 DEF stop
  <2>2. ThreadTyped' /\ Joinable' /\ Employed' /\ (thread.at)' = thread.at
    BY <1>2, <2>1 DEF ThreadTyped, Threads, Joinable, Employed, free
  <2>3. Paced' /\ Numbered'
    BY <1>2, <2>1, <2>2, LeftAlone
  <2> QED BY <2>2, <2>3
<1>3. ASSUME thread.at = "off", ~thread.running, UNCHANGED thread, joining' = "none", socket' = FALSE,
             stream' \in {stream, NoStream}
      PROVE  ThreadInv'
  BY <1>3 DEF ThreadTyped, Joinable, Employed, Paced, Numbered, free
<1>4. stream \in Offers \cup {NoStream} /\ (thread.at # "off" => stream # NoStream)
  BY NoOffer DEF ThreadTyped, Employed
<1>5. CASE StartIO
  <2>1. free /\ UNCHANGED <<joining, stream>>
    BY <1>5 DEF StartIO, changing
  <2>2. CASE stream = NoStream
    BY <1>1, <1>4, <1>5, <2>1, <2>2 DEF StartIO, noStart
  <2>3. CASE stream # NoStream
    BY <1>1, <1>4, <1>5, <2>1, <2>3 DEF StartIO
  <2> QED BY <2>2, <2>3
<1>6. CASE StopIO
  <2>1. free /\ UNCHANGED stream
    BY <1>6 DEF StopIO, changing
  <2>2. CASE clients = 1 /\ thread.running
    <3>1. stream \in Offers
      BY <2>1, <2>2 DEF Joinable, Employed
    <3> QED BY <3>1, <1>2, <1>6, <2>1, <2>2 DEF StopIO
  <2>3. CASE ~(clients = 1 /\ thread.running)
    BY <1>1, <1>4, <1>6, <2>1, <2>3 DEF StopIO, noStart
  <2> QED BY <2>2, <2>3
<1>7. CASE RemoveStream
  <2>1. free
    BY <1>7 DEF RemoveStream, changing
  <2>2. CASE thread.running
    BY <1>2, <1>4, <1>7, <2>1, <2>2 DEF RemoveStream
  <2>3. CASE ~thread.running
    <3>1. thread.at = "off"
      BY <2>1, <2>3 DEF Joinable
    <3> QED BY <1>1, <1>7, <2>1, <2>3, <3>1 DEF RemoveStream, noStart
  <2> QED BY <2>2, <2>3
<1>8. CASE updateMapping
  <2>1. free /\ UNCHANGED stream
    BY <1>8 DEF updateMapping, changing
  <2>2. CASE thread.running
    BY <1>2, <1>4, <1>8, <2>1, <2>2 DEF updateMapping
  <2>3. CASE ~thread.running
    BY <1>1, <1>4, <1>8, <2>1, <2>3 DEF updateMapping, noStart
  <2> QED BY <2>2, <2>3
<1>9. ASSUME NEW o \in Offers, AddStream(o) PROVE ThreadInv'
  <2>1. free /\ UNCHANGED joining /\ stream = NoStream /\ thread.at = "off" /\ ~thread.running
    BY <1>4, <1>9 DEF AddStream, changing, Joinable
  <2>2. start \/ noStart
    BY <1>9 DEF AddStream
  <2>3. stream' = IF ioRunning /\ ~thread'.running THEN NoStream ELSE o
    BY <1>9 DEF AddStream
  <2>4. (thread.at)' # "off" => (thread.running)'
    BY <2>1, <2>2, StartOutcome, StartedThread DEF noStart
  <2> QED BY <1>1, <2>1, <2>2, <2>3, <2>4
<1>10. CASE \E r \in Rates : SetSampleRate(r) \/ SetNominalSampleRate(r)
  <2>1. UNCHANGED <<streamVars, threadVars, joining, faults>>
    BY <1>10 DEF SetSampleRate, SetNominalSampleRate
  <2>2. UNCHANGED <<stream, socket, thread, pace, rtp, joining, faults>>
    BY <2>1 DEF streamVars, threadVars
  <2>3. free
    BY <1>10 DEF SetSampleRate, SetNominalSampleRate, changing
  <2> QED BY <1>1, <1>4, <2>2, <2>3 DEF noStart
<1>11. CASE Joined
  <2>1. ~free /\ thread.at = "off" /\ joining' = "none" /\ ~thread.running
    BY <1>11 DEF Joined, Joinable
  <2>2. CASE joining = "remap"
    <3>1. UNCHANGED stream
      BY <1>11, <2>2 DEF Joined
    <3>2. PICK failing \in SocketCalls \cup {"none"} :
                              /\ socket' = openSocket(failing)
                              /\ thread' = IF openSocket(failing) THEN Started ELSE Idle
                              /\ pace' = OnTime /\ rtp' = FirstPacket
      BY <1>11, <2>2 DEF Joined
    <3>3. openSocket(failing) \in BOOLEAN
      BY <3>2 DEF openSocket, openTransmitter, openReceiver
    <3>4. stream' \in Offers
      BY <2>2, <3>1 DEF Employed
    <3>5. ThreadTyped' /\ Joinable' /\ Employed'
      BY <2>1, <3>2, <3>3, <3>4, StartedThread DEF ThreadTyped, Joinable, Employed, free
    <3>6. Paced' /\ Numbered'
      BY <3>2, <3>4, FreshStart
    <3> QED BY <3>5, <3>6
  <2>3. CASE joining # "remap"
    BY <1>3, <1>11, <2>1, <2>3 DEF Joined
  <2> QED BY <2>2, <2>3
<1> QED BY <1>5, <1>6, <1>7, <1>8, <1>9, <1>10, <1>11 DEF Control

LEMMA ThreadGoes ==
  ASSUME thread \in Threads, NEW at \in Places, NEW ch \in Nat, goes(at, ch)
  PROVE  thread' \in Threads /\ (thread.running)' = thread.running /\ (thread.at)' = at
BY DEF goes, Threads

\* What the thread and the IO cycle do.
LEMMA ThreadKeeps ==
  ASSUME ThreadInv, Cycle \/ Thread
  PROVE  ThreadInv'
<1> USE DEF ThreadInv
<1>0. /\ thread \in Threads
      /\ stream \in Offers \cup {NoStream}
  BY DEF ThreadTyped
<1>1. CASE Cycle
  <2>1. UNCHANGED <<streamVars, threadVars, joining>>
    BY <1>1 DEF Cycle, BeginCycle, processOutput, processInput
  <2>2. UNCHANGED <<stream, socket, thread, pace, rtp, joining>>
    BY <2>1 DEF streamVars, threadVars
  <2>3. Paced' /\ Numbered'
    BY <2>2, LeftAlone
  <2> QED BY <2>2, <2>3 DEF ThreadTyped, Joinable, Employed, free
\* The thread keeps its flag, its socket and its stream, and ends only when told.
<1>2. ASSUME UNCHANGED <<stream, socket, joining>>, thread.at # "off",
             thread' \in Threads,
             (thread.running)' = thread.running, (thread.at)' = "off" => ~thread.running
      PROVE  ThreadTyped' /\ Joinable' /\ Employed'
  BY <1>2 DEF ThreadTyped, Joinable, Employed, free
<1>3. CASE Top \/ readDeviceChannel \/ ChannelsDone \/ deliver \/ Delivered
  <2>1. thread.at # "off" /\ UNCHANGED <<stream, socket, joining, pace, rtp>>
    BY <1>3 DEF Top, readDeviceChannel, ChannelsDone, deliver, Delivered, streamVars
  <2>2. /\ thread' \in Threads
        /\ (thread.running)' = thread.running /\ ((thread.at)' = "off" => ~thread.running)
    <3>1. CASE Top
      <4>1. CASE thread.running
        <5>1. goes(IF dir = "out" THEN "sleep" ELSE "channels", 0)
          BY <3>1, <4>1 DEF Top
        <5>2. (IF dir = "out" THEN "sleep" ELSE "channels") \in Places \ {"off"}
          BY DEF Places
        <5> QED BY <1>0, <5>1, <5>2, ThreadGoes
      <4>2. CASE ~thread.running
        <5>1. goes("off", 0) /\ "off" \in Places
          BY <3>1, <4>2 DEF Top, Places
        <5> QED BY <1>0, <4>2, <5>1, ThreadGoes
      <4> QED BY <4>1, <4>2
    <3>2. CASE readDeviceChannel
      <4>1. PICK u \in BOOLEAN : thread' = [thread EXCEPT !.ch = @ + 1, !.under = u]
        <5> DEFINE n == samplesPerPacket(stream)
                   d == readFrom(mapping, thread.ch)
        <5>1. thread' = [thread EXCEPT !.ch = @ + 1,
                           !.under = (thread.ch > 0 /\ @) \/ (d \in DevCh /\ Len(ring[d]) < n)]
          BY <3>2 DEF readDeviceChannel
        <5>2. ((thread.ch > 0 /\ thread.under) \/ (d \in DevCh /\ Len(ring[d]) < n)) \in BOOLEAN
          OBVIOUS
        <5> QED BY <1>0, <5>1, <5>2 DEF Threads
      <4>2. thread.at = "channels"
        BY <3>2 DEF readDeviceChannel
      <4>3. thread' \in Threads /\ (thread.running)' = thread.running /\ (thread.at)' = thread.at
        <5>1. thread' = [running |-> thread.running, at |-> thread.at, ch |-> thread.ch + 1,
                         under |-> u]
          BY <1>0, <4>1 DEF Threads
        <5>2. thread.running \in BOOLEAN /\ thread.at \in Places /\ thread.ch + 1 \in Nat
          BY <1>0 DEF Threads
        <5> QED BY <5>1, <5>2 DEF Threads
      <4> QED BY <4>2, <4>3
    <3>3. CASE ChannelsDone
      <4>1. goes(afterChannels, 0) /\ afterChannels \in Places
        BY <3>3 DEF ChannelsDone, afterChannels, Places
      <4>2. afterChannels # "off"
        BY DEF afterChannels
      <4> QED BY <1>0, <4>1, <4>2, ThreadGoes
    <3>4. CASE deliver
      <4>1. goes("channels", thread.ch + 1) /\ "channels" \in Places
        BY <3>4 DEF deliver, Places
      <4>2. thread.ch + 1 \in Nat
        BY <1>0 DEF Threads
      <4> QED BY <1>0, <4>1, <4>2, ThreadGoes
    <3>5. CASE Delivered
      <4>1. goes("top", 0) /\ "top" \in Places
        BY <3>5 DEF Delivered, Places
      <4> QED BY <1>0, <4>1, ThreadGoes
    <3> QED BY <1>3, <3>1, <3>2, <3>3, <3>4, <3>5
  <2>3. Paced' /\ Numbered'
    BY <2>1, LeftAlone
  <2> QED BY <1>2, <2>1, <2>2, <2>3
<1>4. CASE Wake
  <2>1. thread.at # "off" /\ UNCHANGED <<stream, socket, joining, rtp>>
    BY <1>4 DEF Wake, streamVars
  <2>2. /\ thread' \in Threads
        /\ (thread.running)' = thread.running /\ (thread.at)' = "channels"
    <3>1. goes("channels", 0) /\ "channels" \in Places
      BY <1>4 DEF Wake, Places
    <3> QED BY <1>0, <3>1, ThreadGoes
  <2>3. stream \in Offers
    BY <2>1 DEF Employed
  <2>4. pace' = [carry |-> step(stream).carry,
                 ahead |-> pace.ahead + samplesPerPacket(stream) * Second - step(stream).units * stream.rate]
    BY <1>4 DEF Wake
  <2>5. pace.carry \in Nat /\ pace.carry < stream.rate /\ pace.ahead = pace.carry
    BY <2>1 DEF Paced
  <2>6. /\ step(stream).carry \in Nat /\ step(stream).carry < stream.rate
        /\ pace.carry + (samplesPerPacket(stream) * Second) - (step(stream).units * stream.rate)
             = step(stream).carry
    BY <2>3, <2>5, StepExact
  <2>7. (pace.carry)' = step(stream).carry /\ (pace.ahead)' = step(stream).carry
    BY <2>4, <2>5, <2>6
  <2>8. Paced'
    BY <2>1, <2>6, <2>7 DEF Paced
  <2>9. Numbered'
    BY <2>1 DEF Numbered, samplesPerPacket, framesPerPacket, smaller
  <2> QED BY <1>2, <2>1, <2>2, <2>8, <2>9
<1>5. CASE sendPacket
  <2>1. thread.at # "off" /\ UNCHANGED <<stream, socket, joining, pace>>
    BY <1>5 DEF sendPacket, streamVars
  <2>2. /\ thread' \in Threads
        /\ (thread.running)' = thread.running /\ (thread.at)' = "top"
    <3>1. goes("top", 0) /\ "top" \in Places
      BY <1>5 DEF sendPacket, Places
    <3> QED BY <1>0, <3>1, ThreadGoes
  <2>3. stream \in Offers /\ samplesPerPacket(stream) \in Nat
    BY <2>1, PacketSize DEF Employed
  <2>4. rtp' = [seq |-> (rtp.seq + 1) % SeqModulus, ts |-> (rtp.ts + samplesPerPacket(stream)) % TsModulus,
                slot |-> (rtp.slot + 1) % TsModulus]
    BY <1>5 DEF sendPacket, nextSeq
  <2>5. /\ rtp.slot \in Nat /\ rtp.seq = rtp.slot % SeqModulus
        /\ rtp.ts = (rtp.slot * samplesPerPacket(stream)) % TsModulus
    BY <2>1 DEF Numbered
  <2>6. /\ (rtp.slot)' \in Nat
        /\ (rtp.seq)' = (rtp.slot)' % SeqModulus
        /\ (rtp.ts)' = ((rtp.slot)' * samplesPerPacket(stream)) % TsModulus
    BY <2>3, <2>4, <2>5, NextNumber, NextTimestamp
  <2>7. Numbered'
    BY <2>1, <2>6 DEF Numbered, samplesPerPacket, framesPerPacket, smaller
  <2>8. Paced'
    BY <2>1 DEF Paced
  <2> QED BY <1>2, <2>1, <2>2, <2>7, <2>8
<1> QED BY <1>1, <1>3, <1>4, <1>5 DEF Thread
-----------------------------------------------------------------------------

\* The rings, channel by channel: one side puts, the other takes.
LEMMA RingsKeep ==
  ASSUME ThreadInv, Rings, [AudioNext]_audioVars
  PROVE  Rings'
<1>1. CASE UNCHANGED <<ring, made, heard>>
  BY <1>1 DEF Rings, Ordered
<1>2. Block \in Nat
  BY AudioAssumption
<1>3. thread.at # "off" => samplesPerPacket(stream) \in Nat
  BY PacketSize DEF ThreadInv, Employed
<1>4. /\ ring \in [DevCh -> Seq(Nat)] /\ made \in [DevCh -> Nat] /\ heard \in [DevCh -> Nat]
      /\ \A d \in DevCh : Ordered(ring[d], heard[d], made[d])
  BY DEF Rings
\* It is enough that every channel stays in order.
<1>5. ASSUME ring' = [d \in DevCh |-> ring'[d]], made' = [d \in DevCh |-> made'[d]],
             heard' = [d \in DevCh |-> heard'[d]],
             \A d \in DevCh : Ordered(ring'[d], heard'[d], made'[d])
      PROVE  Rings'
  BY <1>5 DEF Rings, Ordered
<1>6. CASE processOutput
  <2>1. /\ cycle \in DevCh /\ UNCHANGED heard
        /\ ring' = [ring EXCEPT ![cycle] = put(ring[cycle], numbered(made[cycle], Block))]
        /\ made' = [made EXCEPT ![cycle] = made[cycle] + Block]
    BY <1>6 DEF processOutput, written
  <2>2. ASSUME NEW d \in DevCh PROVE Ordered(ring'[d], heard'[d], made'[d])
    <3>1. CASE d = cycle
      <4>1. Ordered(put(ring[d], numbered(made[d], Block)), heard[d], made[d] + Block)
        BY <1>2, <1>4, PutInOrder
      <4> QED BY <1>4, <2>1, <3>1, <4>1
    <3>2. CASE d # cycle
      <4>1. ring'[d] = ring[d] /\ heard'[d] = heard[d] /\ made'[d] = made[d]
        BY <1>4, <2>1, <3>2
      <4> QED BY <1>4, <4>1
    <3> QED BY <3>1, <3>2
  <2>3. /\ ring' = [d \in DevCh |-> ring'[d]] /\ made' = [d \in DevCh |-> made'[d]]
        /\ heard' = [d \in DevCh |-> heard'[d]]
    BY <1>4, <2>1
  <2> QED BY <1>5, <2>2, <2>3
<1>7. ASSUME NEW c \in DevCh, NEW n \in Nat, UNCHANGED made,
             heard' = [heard EXCEPT ![c] = lastOf(filled(ring[c], n), heard[c])],
             ring' = [ring EXCEPT ![c] = rest(ring[c], n)]
      PROVE  Rings'
  <2>1. ASSUME NEW d \in DevCh PROVE Ordered(ring'[d], heard'[d], made'[d])
    <3>1. CASE d = c
      <4>1. Ordered(rest(ring[d], n), lastOf(filled(ring[d], n), heard[d]), made[d])
        BY <1>4, TakeInOrder
      <4> QED BY <1>4, <1>7, <3>1, <4>1
    <3>2. CASE d # c
      <4>1. ring'[d] = ring[d] /\ heard'[d] = heard[d] /\ made'[d] = made[d]
        BY <1>4, <1>7, <3>2
      <4> QED BY <1>4, <4>1
    <3> QED BY <3>1, <3>2
  <2>2. /\ ring' = [d \in DevCh |-> ring'[d]] /\ made' = [d \in DevCh |-> made'[d]]
        /\ heard' = [d \in DevCh |-> heard'[d]]
    BY <1>4, <1>7
  <2> QED BY <1>5, <2>1, <2>2
<1>8. CASE processInput
  BY <1>2, <1>7, <1>8 DEF processInput
<1>9. CASE readDeviceChannel
  <2> DEFINE n == samplesPerPacket(stream)
             d == readFrom(mapping, thread.ch)
  <2>1. n \in Nat
    BY <1>3, <1>9 DEF readDeviceChannel
  <2>2. UNCHANGED made
    BY <1>9 DEF readDeviceChannel
  <2>3. CASE d \in DevCh
    <3>1. /\ heard' = [heard EXCEPT ![d] = lastOf(filled(ring[d], n), heard[d])]
          /\ ring' = [ring EXCEPT ![d] = rest(ring[d], n)]
      BY <1>9, <2>3 DEF readDeviceChannel
    <3> HIDE DEF d, n
    <3> QED BY <1>7, <2>1, <2>2, <2>3, <3>1
  <2>4. CASE d \notin DevCh
    BY <1>1, <1>9, <2>2, <2>4 DEF readDeviceChannel
  <2> QED BY <2>3, <2>4
<1>10. CASE deliver
  <2> DEFINE n == samplesPerPacket(stream)
             to == mapChannelsToDevice(mapping, thread.ch)
  <2>1. n \in Nat
    BY <1>3, <1>10 DEF deliver
  <2>2. /\ ring' = [d \in DevCh |-> IF d \in to THEN put(ring[d], numbered(made[d], n)) ELSE ring[d]]
        /\ made' = [d \in DevCh |-> IF d \in to THEN made[d] + n ELSE made[d]]
        /\ UNCHANGED heard
    BY <1>10 DEF deliver
  <2> HIDE DEF n, to
  <2>3. ASSUME NEW d \in DevCh PROVE Ordered(ring'[d], heard'[d], made'[d])
    <3>1. CASE d \in to
      <4>1. Ordered(put(ring[d], numbered(made[d], n)), heard[d], made[d] + n)
        BY <1>4, <2>1, PutInOrder
      <4> QED BY <2>2, <3>1, <4>1
    <3>2. CASE d \notin to
      BY <1>4, <2>2, <3>2
    <3> QED BY <3>1, <3>2
  <2>4. /\ ring' = [d \in DevCh |-> ring'[d]] /\ made' = [d \in DevCh |-> made'[d]]
        /\ heard' = [d \in DevCh |-> heard'[d]]
    BY <1>4, <2>2
  <2> QED BY <1>5, <2>3, <2>4
<1>11. CASE BeginCycle \/ Top \/ Wake \/ ChannelsDone \/ sendPacket \/ Delivered
  BY <1>1, <1>11 DEF BeginCycle, Top, Wake, ChannelsDone, sendPacket, Delivered
<1>12. CASE Control \/ Joined
  BY <1>1, <1>12 DEF Control, StartIO, StopIO, RemoveStream, updateMapping, AddStream, SetSampleRate,
     SetNominalSampleRate, Joined
<1>13. CASE UNCHANGED audioVars
  BY <1>1, <1>13 DEF audioVars
<1> QED BY <1>6, <1>8, <1>9, <1>10, <1>11, <1>12, <1>13 DEF AudioNext, Cycle, Thread

\* The sound that leaves is the sound that came, for any number of channels,
\* rings, block and packet sizes, rates, faults and changes: no frame is
\* played twice or out of order, the schedule of transmitLoop() does not drift and
\* its numbers stay on the grid, and a stream that is stopped has no socket.
THEOREM AudioAlwaysTrue == AudioSpec => []PlaysTruly
<1>1. AudioInit => ThreadInv /\ Rings
  <2> SUFFICES ASSUME AudioInit PROVE ThreadInv /\ Rings
    OBVIOUS
  <2>1. ThreadInv
    BY StartedThread DEF AudioInit, ThreadInv, ThreadTyped, Joinable, Employed, Paced, Numbered, free
  <2>2. Rings
    BY AudioAssumption DEF AudioInit, Rings, Ordered
  <2> QED BY <2>1, <2>2
<1>2. ThreadInv /\ Rings /\ [AudioNext]_audioVars => (ThreadInv /\ Rings)'
  <2> SUFFICES ASSUME ThreadInv, Rings, [AudioNext]_audioVars PROVE ThreadInv' /\ Rings'
    OBVIOUS
  <2>1. CASE UNCHANGED audioVars
    <3>1. UNCHANGED <<stream, socket, thread, pace, rtp, joining>>
      BY <2>1 DEF audioVars, streamVars, threadVars
    <3>2. Paced' /\ Numbered'
      BY <3>1, LeftAlone DEF ThreadInv
    <3>3. ThreadInv'
      BY <3>1, <3>2 DEF ThreadInv, ThreadTyped, Joinable, Employed, free
    <3> QED BY <3>3, RingsKeep
  <2> QED BY <2>1, ControlKeeps, ThreadKeeps, RingsKeep DEF AudioNext
<1>3. ThreadInv /\ Rings => PlaysTruly
  <2> SUFFICES ASSUME ThreadInv, Rings PROVE PlaysTruly
    OBVIOUS
  <2>1. OnSchedule
    BY DEF ThreadInv, Paced, Numbered, OnSchedule, NoDrift, OnTheGrid
  <2>2. DormantIsClosed
    BY DEF ThreadInv, Joinable, DormantIsClosed
  <2> QED BY <2>1, <2>2, OrderIsPlayed DEF PlaysTruly
<1> QED BY <1>1, <1>2, <1>3, PTL DEF AudioSpec
================================================================================
