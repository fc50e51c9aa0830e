--------------------------- MODULE ReceiverProofs ---------------------------
(***************************************************************************)
(* The receiver and the pool of packets that receivers may share.          *)
(*                                                                         *)
(* The receiver is proved for any buffer, range of sequence numbers,       *)
(* number of packets, losses, copies and delays.                           *)
(*                                                                         *)
(* PositionKept is not inductive: that the consumer has a position needs   *)
(* that nothing is counted in the buffer before the first packet has come  *)
(* (Quiet), which in turn needs the threads to be gone between a stop()    *)
(* and the next start() (ThreadsGone); and that it moves from the number   *)
(* it asked for needs that nobody else moves it meanwhile (Asked).         *)
(*                                                                         *)
(* That the receiver calls the buffer as the buffer expects, one writer    *)
(* and one reader, and reset() with neither of them inside, is a theorem   *)
(* of its own, UsesBuffer: with it everything proved of the buffer alone   *)
(* holds of the buffer in the receiver.                                    *)
(***************************************************************************)
EXTENDS RTPReceiver, PacketPool, FiniteSetTheorems, SequenceTheorems, TLAPS

-----------------------------------------------------------------------------
(***************************************************************************)
(* The jitter buffer, proved for any number of slots, any range of         *)
(* sequence numbers and any payloads.                                      *)
(*                                                                         *)
(* The inductive invariant is the conjunction of the five properties the   *)
(* runs check: who holds a slot (ExclusiveAccess) is what keeps its packet *)
(* whole while it is published (WholePackets), and that in turn is why a   *)
(* copy taken under READING is the packet asked for (AnswersRequest).      *)
(* Two more parts say what is true between two steps of one call: InSlot,  *)
(* how much of a packet is in a slot not yet published, and Checked, that  *)
(* the slot the reader is about to empty is still the one it copied.       *)
(***************************************************************************)

\* How far the writer has come in the slot it holds.
InSlot ==
  /\ wpc \in {"meta", "count", "publish"} => slotData[getIndex(wpkt.seq)] = wpkt
  /\ wpc \in {"count", "publish"} => slotSeq[getIndex(wpkt.seq)] = wpkt.seq

\* While the reader releases its slot, the slot still holds what it copied.
Checked ==
  rpc = "release" => /\ outputBuffer.tag \notin OversizeTags
                     /\ outputBuffer = slotData[getIndex(rseq)]

\* The part that needs no counting.
SlotInv ==
  /\ JBTypeOK
  /\ ExclusiveAccess
  /\ WholePackets
  /\ AnswersRequest
  /\ InSlot
  /\ Checked

\* A sequence number has a slot.
LEMMA IndexType == \A seq \in Seqs : getIndex(seq) \in Slots
BY SizeAssumption DEF getIndex, Seqs, Slots

\* A packet has a sequence number and a tag, and is not the absent packet.
LEMMA PacketType ==
  \A p \in Packets : p.seq \in Seqs /\ p.tag \in Tags /\ p # NoPacket
BY NoPacketAssumption DEF Packets

LEMMA InitSlotInv == JBInit => SlotInv
<1> SUFFICES ASSUME JBInit PROVE SlotInv
  OBVIOUS
<1>1. 0 \in Seqs /\ 0 \in 0..SizeMax
  BY SizeAssumption DEF Seqs
<1>2. JBTypeOK
  BY <1>1 DEF JBInit, JBTypeOK, SlotStates
<1>3. ExclusiveAccess /\ WholePackets /\ AnswersRequest /\ InSlot /\ Checked
  BY DEF JBInit, ExclusiveAccess, WholePackets, Held, AnswersRequest, InSlot, Checked
<1> QED BY <1>2, <1>3 DEF SlotInv

-----------------------------------------------------------------------------
(* addPacket() *)

LEMMA ClaimKeepsSlotInv ==
  ASSUME SlotInv, NEW p \in Packets, ClaimSlot(p)
  PROVE  SlotInv'
<1>1. p.seq \in Seqs /\ getIndex(p.seq) \in Slots
  BY IndexType, PacketType
<1>2. JBTypeOK'
  BY <1>1 DEF SlotInv, JBTypeOK, ClaimSlot, readerVars, SlotStates
<1>3. ExclusiveAccess'
  BY <1>1 DEF SlotInv, JBTypeOK, ExclusiveAccess, ClaimSlot, readerVars, getIndex
<1>4. WholePackets'
  BY <1>1 DEF SlotInv, JBTypeOK, WholePackets, Held, ClaimSlot, getIndex
<1>5. AnswersRequest' /\ InSlot' /\ Checked'
  BY DEF SlotInv, AnswersRequest, InSlot, Checked, ClaimSlot, readerVars
<1> QED BY <1>2, <1>3, <1>4, <1>5 DEF SlotInv

LEMMA AddStepsKeepSlotInv ==
  ASSUME SlotInv, AddSteps
  PROVE  SlotInv'
<1>1. wpkt \in Packets
  BY DEF SlotInv, JBTypeOK, AddSteps, WriteData, WriteMeta, CountPacket, PublishSlot
<1>2. wpkt.seq \in Seqs /\ getIndex(wpkt.seq) \in Slots
  BY <1>1, IndexType, PacketType
<1>3. CASE WriteData
  <2>1. JBTypeOK'
    BY <1>1, <1>2, <1>3 DEF SlotInv, JBTypeOK, WriteData, readerVars
  <2>2. ExclusiveAccess'
    BY <1>3 DEF SlotInv, ExclusiveAccess, WriteData, readerVars, getIndex
  <2>3. WholePackets'
    BY <1>2, <1>3 DEF SlotInv, JBTypeOK, ExclusiveAccess, WholePackets, Held, WriteData, getIndex
  <2>4. AnswersRequest' /\ InSlot'
    BY <1>2, <1>3 DEF SlotInv, JBTypeOK, AnswersRequest, InSlot, WriteData,
                      readerVars, getIndex
  <2>5. Checked'
    <3>1. rpc = "release" => getIndex(rseq) # getIndex(wpkt.seq)
      BY <1>2, <1>3 DEF SlotInv, ExclusiveAccess, WriteData
    <3> QED BY <1>2, <1>3, <3>1 DEF SlotInv, JBTypeOK, Checked, WriteData, readerVars, getIndex
  <2> QED BY <2>1, <2>2, <2>3, <2>4, <2>5 DEF SlotInv
<1>4. CASE WriteMeta
  <2>1. JBTypeOK'
    BY <1>1, <1>2, <1>4 DEF SlotInv, JBTypeOK, WriteMeta, readerVars
  <2>2. ExclusiveAccess'
    BY <1>4 DEF SlotInv, ExclusiveAccess, WriteMeta, readerVars, getIndex
  <2>3. WholePackets'
    BY <1>2, <1>4 DEF SlotInv, JBTypeOK, ExclusiveAccess, WholePackets, Held, WriteMeta, getIndex
  <2>4. AnswersRequest' /\ InSlot' /\ Checked'
    BY <1>2, <1>4 DEF SlotInv, JBTypeOK, AnswersRequest, InSlot, Checked, WriteMeta,
                      readerVars, getIndex
  <2> QED BY <2>1, <2>2, <2>3, <2>4 DEF SlotInv
<1>5. CASE CountPacket
  <2>1. JBTypeOK'
    BY <1>1, <1>5, SizeAssumption DEF SlotInv, JBTypeOK, CountPacket, readerVars, slotVars, inc
  <2>2. ExclusiveAccess' /\ WholePackets'
    BY <1>5 DEF SlotInv, ExclusiveAccess, WholePackets, Held, CountPacket, readerVars,
                slotVars, getIndex
  <2>3. AnswersRequest' /\ InSlot' /\ Checked'
    BY <1>5 DEF SlotInv, AnswersRequest, InSlot, Checked, CountPacket, readerVars,
                slotVars, getIndex
  <2> QED BY <2>1, <2>2, <2>3 DEF SlotInv
<1>6. CASE PublishSlot
  <2>1. JBTypeOK'
    BY <1>1, <1>2, <1>6 DEF SlotInv, JBTypeOK, PublishSlot, readerVars, SlotStates
  <2>2. ExclusiveAccess'
    BY <1>2, <1>6 DEF SlotInv, JBTypeOK, ExclusiveAccess, PublishSlot, readerVars, getIndex
  <2>3. WholePackets'
    BY <1>1, <1>2, <1>6 DEF SlotInv, JBTypeOK, WholePackets, InSlot, Held, PublishSlot, getIndex
  <2>4. AnswersRequest' /\ InSlot' /\ Checked'
    BY <1>6 DEF SlotInv, AnswersRequest, InSlot, Checked, PublishSlot, readerVars, getIndex
  <2> QED BY <2>1, <2>2, <2>3, <2>4 DEF SlotInv
<1> QED BY <1>3, <1>4, <1>5, <1>6 DEF AddSteps

-----------------------------------------------------------------------------
(* getNextPacket() *)

LEMMA TakeKeepsSlotInv ==
  ASSUME SlotInv, NEW seq \in Seqs, TakeSlot(seq)
  PROVE  SlotInv'
<1>1. getIndex(seq) \in Slots
  BY IndexType
<1>2. JBTypeOK'
  BY <1>1 DEF SlotInv, JBTypeOK, TakeSlot, writerVars, SlotStates
<1>3. ExclusiveAccess'
  BY <1>1 DEF SlotInv, JBTypeOK, ExclusiveAccess, TakeSlot, writerVars, getIndex
<1>4. WholePackets'
  BY <1>1 DEF SlotInv, JBTypeOK, WholePackets, Held, TakeSlot, getIndex
<1>5. AnswersRequest' /\ InSlot' /\ Checked'
  BY DEF SlotInv, JBTypeOK, AnswersRequest, InSlot, Checked, TakeSlot, writerVars, getIndex
<1> QED BY <1>2, <1>3, <1>4, <1>5 DEF SlotInv

LEMMA GetStepsKeepSlotInv ==
  ASSUME SlotInv, GetSteps
  PROVE  SlotInv'
<1>1. rseq \in Seqs /\ getIndex(rseq) \in Slots
  BY IndexType DEF SlotInv, JBTypeOK
<1>2. CASE DiscardSlot
  <2>1. JBTypeOK'
    BY <1>1, <1>2 DEF SlotInv, JBTypeOK, DiscardSlot, writerVars, SlotStates
  <2>2. ExclusiveAccess'
    BY <1>1, <1>2 DEF SlotInv, JBTypeOK, ExclusiveAccess, DiscardSlot, writerVars, getIndex
  <2>3. WholePackets'
    BY <1>1, <1>2 DEF SlotInv, JBTypeOK, WholePackets, Held, DiscardSlot, getIndex
  <2>4. AnswersRequest' /\ InSlot' /\ Checked'
    BY <1>2 DEF SlotInv, AnswersRequest, InSlot, Checked, DiscardSlot, writerVars, getIndex
  <2> QED BY <2>1, <2>2, <2>3, <2>4 DEF SlotInv
<1>3. CASE CopyOut
  <2>1. getIndex(rseq) \in Held
    BY <1>1, <1>3 DEF SlotInv, ExclusiveAccess, Held, CopyOut
  <2>2. slotData[getIndex(rseq)] \in Packets /\ slotData[getIndex(rseq)].seq = rseq
    BY <1>3, <2>1 DEF SlotInv, WholePackets, CopyOut
  <2>3. JBTypeOK'
    BY <1>3, <2>2 DEF SlotInv, JBTypeOK, CopyOut, writerVars, slotVars
  <2>4. ExclusiveAccess' /\ WholePackets'
    BY <1>3 DEF SlotInv, ExclusiveAccess, WholePackets, Held, CopyOut, writerVars,
                slotVars, getIndex
  <2>5. AnswersRequest' /\ InSlot' /\ Checked'
    BY <1>3, <2>2 DEF SlotInv, AnswersRequest, InSlot, Checked, CopyOut, writerVars,
                slotVars, getIndex
  <2> QED BY <2>3, <2>4, <2>5 DEF SlotInv
<1>4. CASE ReleaseSlot
  <2>1. JBTypeOK'
    BY <1>1, <1>4 DEF SlotInv, JBTypeOK, ReleaseSlot, writerVars, SlotStates
  <2>2. ExclusiveAccess'
    BY <1>1, <1>4 DEF SlotInv, JBTypeOK, ExclusiveAccess, ReleaseSlot, writerVars, getIndex
  <2>3. WholePackets'
    BY <1>1, <1>4 DEF SlotInv, JBTypeOK, WholePackets, Held, ReleaseSlot, getIndex
  <2>4. AnswersRequest' /\ InSlot' /\ Checked'
    BY <1>4 DEF SlotInv, AnswersRequest, InSlot, Checked, ReleaseSlot, writerVars, getIndex
  <2> QED BY <2>1, <2>2, <2>3, <2>4 DEF SlotInv
<1>5. CASE Uncount
  <2>1. JBTypeOK'
    BY <1>5, SizeAssumption DEF SlotInv, JBTypeOK, Uncount, writerVars, slotVars, dec
  <2>2. ExclusiveAccess' /\ WholePackets'
    BY <1>5 DEF SlotInv, ExclusiveAccess, WholePackets, Held, Uncount, writerVars,
                slotVars, getIndex
  <2>3. AnswersRequest' /\ InSlot' /\ Checked'
    BY <1>5 DEF SlotInv, AnswersRequest, InSlot, Checked, Uncount, writerVars,
                slotVars, getIndex
  <2> QED BY <2>1, <2>2, <2>3 DEF SlotInv
<1> QED BY <1>2, <1>3, <1>4, <1>5 DEF GetSteps

-----------------------------------------------------------------------------

LEMMA ResetKeepsSlotInv ==
  ASSUME SlotInv, Reset
  PROVE  SlotInv'
<1>1. JBTypeOK'
  BY SizeAssumption DEF SlotInv, JBTypeOK, Reset, writerVars, readerVars, SlotStates
<1>2. ExclusiveAccess' /\ WholePackets'
  BY DEF SlotInv, ExclusiveAccess, WholePackets, Held, Reset, writerVars, readerVars, getIndex
<1>3. AnswersRequest' /\ InSlot' /\ Checked'
  BY DEF SlotInv, AnswersRequest, InSlot, Checked, Reset, writerVars, readerVars, getIndex
<1> QED BY <1>1, <1>2, <1>3 DEF SlotInv

\* Every step of either thread keeps the slots consistent.
LEMMA NextKeepsSlotInv == SlotInv /\ [JBNext]_jbVars => SlotInv'
<1> SUFFICES ASSUME SlotInv, [JBNext]_jbVars
             PROVE  SlotInv'
  OBVIOUS
<1>1. CASE UNCHANGED jbVars
  <2>1. JBTypeOK' /\ ExclusiveAccess' /\ WholePackets'
    BY <1>1 DEF jbVars, SlotInv, JBTypeOK, ExclusiveAccess, WholePackets, Held, getIndex
  <2>2. AnswersRequest' /\ InSlot' /\ Checked'
    BY <1>1 DEF jbVars, SlotInv, AnswersRequest, InSlot, Checked, getIndex
  <2> QED BY <2>1, <2>2 DEF SlotInv
<1> QED BY <1>1, ClaimKeepsSlotInv, AddStepsKeepSlotInv, TakeKeepsSlotInv,
           GetStepsKeepSlotInv, ResetKeepsSlotInv DEF JBNext

-----------------------------------------------------------------------------
(* The count.  Held changes by one element at a time: it gains a slot when   *)
(* the writer publishes and loses one when the reader empties it.            *)

\* There are finitely many published slots, at most BufferSize.
LEMMA HeldFinite ==
  /\ IsFiniteSet(Held)
  /\ Cardinality(Held) \in Nat
  /\ Cardinality(Held) =< BufferSize
<1>1. IsFiniteSet(Slots) /\ Cardinality(Slots) = BufferSize
  BY FS_Interval, SizeAssumption DEF Slots
<1>2. Held \in SUBSET Slots
  BY DEF Held
<1>3. IsFiniteSet(Held) /\ Cardinality(Held) =< BufferSize
  BY <1>1, <1>2, FS_Subset
<1> QED BY <1>3, FS_CardinalityType

LEMMA InitCount == JBInit => CountExact
<1> SUFFICES ASSUME JBInit PROVE CountExact
  OBVIOUS
<1>1. Held = {}
  BY DEF JBInit, Held
<1>2. Cardinality(Held) = 0
  BY <1>1, FS_EmptySet
<1> QED BY <1>2 DEF JBInit, CountExact

\* Every step of either thread keeps the count exact.
LEMMA NextKeepsCount == SlotInv /\ CountExact /\ [JBNext]_jbVars => CountExact'
<1> SUFFICES ASSUME SlotInv, CountExact, [JBNext]_jbVars
             PROVE  CountExact'
  OBVIOUS
<1> USE HeldFinite
<1>1. ASSUME NEW p \in Packets, ClaimSlot(p)
      PROVE  CountExact'
  <2>1. Held' = Held
    BY <1>1 DEF SlotInv, JBTypeOK, ClaimSlot, Held
  <2> QED BY <1>1, <2>1 DEF CountExact, ClaimSlot, readerVars
<1>2. CASE WriteData \/ WriteMeta
  <2>1. Held' = Held
    BY <1>2 DEF WriteData, WriteMeta, Held
  <2> QED BY <1>2, <2>1 DEF CountExact, WriteData, WriteMeta, readerVars
<1>3. CASE CountPacket
  <2>1. Held' = Held
    BY <1>3 DEF CountPacket, slotVars, Held
  <2>2. inc(validPackets_) = validPackets_ + 1
    BY <1>3, SizeAssumption DEF CountExact, CountPacket, inc
  <2> QED BY <1>3, <2>1, <2>2 DEF CountExact, CountPacket, readerVars
<1>4. CASE PublishSlot
  <2> DEFINE i == getIndex(wpkt.seq)
  <2>1. i \in Slots
    BY <1>4, IndexType, PacketType DEF SlotInv, JBTypeOK, PublishSlot
  <2>2. i \notin Held
    BY <1>4, <2>1 DEF SlotInv, ExclusiveAccess, PublishSlot, Held
  <2>3. Held' = Held \cup {i}
    BY <1>4, <2>1 DEF SlotInv, JBTypeOK, PublishSlot, Held
  <2>4. Cardinality(Held') = Cardinality(Held) + 1
    BY <2>2, <2>3, FS_AddElement
  <2> QED BY <1>4, <2>4 DEF CountExact, PublishSlot, readerVars
<1>5. ASSUME NEW seq \in Seqs, TakeSlot(seq)
      PROVE  CountExact'
  <2>1. Held' = Held
    BY <1>5 DEF SlotInv, JBTypeOK, TakeSlot, Held
  <2>2. rpc # "uncount" /\ rpc' # "uncount"
    BY <1>5 DEF TakeSlot
  <2> QED BY <1>5, <2>1, <2>2 DEF CountExact, TakeSlot, writerVars
<1>6. CASE DiscardSlot \/ ReleaseSlot
  <2> DEFINE i == getIndex(rseq)
  <2>1. i \in Slots
    BY IndexType DEF SlotInv, JBTypeOK
  <2>2. i \in Held
    BY <1>6, <2>1 DEF SlotInv, ExclusiveAccess, DiscardSlot, ReleaseSlot, Held
  <2>3. Held' = Held \ {i}
    BY <1>6, <2>1 DEF SlotInv, JBTypeOK, DiscardSlot, ReleaseSlot, Held
  <2>4. Cardinality(Held') = Cardinality(Held) - 1
    BY <2>2, <2>3, FS_RemoveElement
  <2> QED BY <1>6, <2>4 DEF CountExact, DiscardSlot, ReleaseSlot, writerVars
<1>7. CASE CopyOut
  <2>1. Held' = Held
    BY <1>7 DEF CopyOut, slotVars, Held
  <2> QED BY <1>7, <2>1 DEF CountExact, CopyOut, writerVars
<1>8. CASE Uncount
  <2>1. Held' = Held
    BY <1>8 DEF Uncount, slotVars, Held
  <2>2. dec(validPackets_) = validPackets_ - 1
    BY <1>8 DEF CountExact, Uncount, dec
  <2> QED BY <1>8, <2>1, <2>2 DEF CountExact, Uncount, writerVars
<1>9. CASE Reset
  <2>1. Held' = {}
    BY <1>9 DEF Reset, Held
  <2>2. Cardinality(Held') = 0
    BY <2>1, FS_EmptySet
  <2> QED BY <1>9, <2>2 DEF CountExact, Reset, writerVars, readerVars
<1>10. CASE UNCHANGED jbVars
  <2>1. Held' = Held
    BY <1>10 DEF jbVars, Held
  <2> QED BY <1>10, <2>1 DEF jbVars, CountExact
<1> QED BY <1>1, <1>2, <1>3, <1>4, <1>5, <1>6, <1>7, <1>8, <1>9, <1>10
        DEF JBNext, AddSteps, GetSteps

-----------------------------------------------------------------------------
(* The theorems *)

LEMMA SlotsConsistent == JBSpec => []SlotInv
BY InitSlotInv, NextKeepsSlotInv, PTL DEF JBSpec

\* The types hold for every size and every interleaving of the two threads.
THEOREM JBTypeCorrect == JBSpec => []JBTypeOK
<1>1. SlotInv => JBTypeOK
  BY DEF SlotInv
<1> QED BY <1>1, SlotsConsistent, PTL

\* The plain copies of addPacket() and getNextPacket() never meet in a slot.
THEOREM SlotsExclusive == JBSpec => []ExclusiveAccess
<1>1. SlotInv => ExclusiveAccess
  BY DEF SlotInv
<1> QED BY <1>1, SlotsConsistent, PTL

\* A published slot always holds one whole packet that belongs there.
THEOREM PacketsStayWhole == JBSpec => []WholePackets
<1>1. SlotInv => WholePackets
  BY DEF SlotInv
<1> QED BY <1>1, SlotsConsistent, PTL

\* getNextPacket() returns the packet it was asked for, or none.
THEOREM RequestsAnswered == JBSpec => []AnswersRequest
<1>1. SlotInv => AnswersRequest
  BY DEF SlotInv
<1> QED BY <1>1, SlotsConsistent, PTL

\* validPackets_ never wraps below zero or drifts, for every number of slots.
THEOREM CountAlwaysExact == JBSpec => []CountExact
BY InitCount, NextKeepsCount, SlotsConsistent, PTL DEF JBSpec

\* All of it together, for every size: the two threads need no lock.
THEOREM JBAlwaysSafe == JBSpec => []JBSafe
BY JBTypeCorrect, CountAlwaysExact, SlotsExclusive, PacketsStayWhole, RequestsAnswered,
   PTL DEF JBSafe

-----------------------------------------------------------------------------
(* Refinement.  The store of READY is the abstract Add, the stores of EMPTY   *)
(* and a failed TakeSlot are the abstract Get, reset() is Clear, and every    *)
(* other step changes neither the published packets nor the result.           *)

\* A step that keeps the states and the data keeps the abstract contents.
LEMMA ContentUnchanged ==
  ASSUME UNCHANGED <<state, slotData>>
  PROVE  content' = content
BY DEF content, Held

\* Emptying the reader's slot removes exactly its packet.
LEMMA ContentEmptied ==
  ASSUME SlotInv, NEW i \in Slots, UNCHANGED slotData,
         state' = [state EXCEPT ![i] = "EMPTY"]
  PROVE  content' = [content EXCEPT ![i] = NoPacket]
<1>1. Held' = Held \ {i}
  BY DEF SlotInv, JBTypeOK, Held
<1> QED BY <1>1 DEF content

LEMMA InitRefines == JBInit => Abstract!Init
BY DEF JBInit, Abstract!Init, content, Held, Slots

LEMMA StepRefines ==
  SlotInv /\ [JBNext]_jbVars => [Abstract!Next]_(Abstract!vars)
<1> SUFFICES ASSUME SlotInv, [JBNext]_jbVars
             PROVE  Abstract!Next \/ UNCHANGED <<content, result>>
  BY DEF Abstract!vars
<1>1. ASSUME NEW p \in Packets, ClaimSlot(p)
      PROVE  UNCHANGED <<content, result>>
  <2>1. getIndex(p.seq) \in Slots
    BY IndexType, PacketType
  <2>2. Held' = Held
    BY <1>1, <2>1 DEF SlotInv, JBTypeOK, ClaimSlot, Held
  <2> QED BY <1>1, <2>2 DEF ClaimSlot, readerVars, content
<1>2. CASE WriteData
  <2> DEFINE i == getIndex(wpkt.seq)
  <2>1. i \in Slots /\ i \notin Held
    BY <1>2, IndexType, PacketType DEF SlotInv, JBTypeOK, ExclusiveAccess, WriteData, Held
  <2>2. Held' = Held
    BY <1>2 DEF WriteData, Held
  <2>3. \A j \in Held : slotData'[j] = slotData[j]
    BY <1>2, <2>1 DEF WriteData, SlotInv, JBTypeOK, Held
  <2> QED BY <1>2, <2>2, <2>3 DEF WriteData, readerVars, content
<1>3. CASE WriteMeta \/ CountPacket
  BY <1>3, ContentUnchanged DEF WriteMeta, CountPacket, slotVars, readerVars
<1>4. CASE PublishSlot
  <2> DEFINE i == getIndex(wpkt.seq)
  <2>1. wpkt \in Packets /\ i \in Slots
    BY <1>4, IndexType, PacketType DEF SlotInv, JBTypeOK, PublishSlot
  <2>2. i \notin Held /\ slotData[i] = wpkt
    BY <1>4, <2>1 DEF SlotInv, ExclusiveAccess, InSlot, PublishSlot, Held
  <2>3. Held' = Held \cup {i}
    BY <1>4, <2>1 DEF SlotInv, JBTypeOK, PublishSlot, Held
  <2>4. content[i] = NoPacket
    BY <2>1, <2>2 DEF content
  <2>5. content' = [content EXCEPT ![i] = wpkt] /\ result' = result
    BY <1>4, <2>1, <2>2, <2>3 DEF PublishSlot, readerVars, content
  <2>6. Abstract!Add(wpkt)
    BY <2>4, <2>5 DEF Abstract!Add, getIndex
  <2> QED BY <2>1, <2>6 DEF Abstract!Next, Abstract!Packets, Packets
<1>5. ASSUME NEW seq \in Seqs, TakeSlot(seq)
      PROVE  Abstract!Next \/ UNCHANGED <<content, result>>
  <2> DEFINE i == getIndex(seq)
  <2>1. i \in Slots
    BY IndexType
  <2>2. CASE state[i] = "READY"
    <3>1. Held' = Held
      BY <1>5, <2>1, <2>2 DEF SlotInv, JBTypeOK, TakeSlot, Held
    <3> QED BY <1>5, <2>2, <3>1 DEF TakeSlot, content
  <2>3. CASE state[i] # "READY"
    <3>1. i \notin Held
      BY <1>5, <2>1, <2>3 DEF SlotInv, ExclusiveAccess, TakeSlot, Held
    <3>2. content[i] = NoPacket
      BY <2>1, <3>1 DEF content
    <3>3. content' = content /\ result' = NoPacket
      BY <1>5, <2>3, ContentUnchanged DEF TakeSlot
    <3>4. content' = [content EXCEPT ![i] = NoPacket]
      BY <2>1, <3>2, <3>3 DEF content
    <3>5. Abstract!Get(seq)
      BY <3>2, <3>3, <3>4 DEF Abstract!Get, getIndex
    <3> QED BY <3>5 DEF Abstract!Next
  <2> QED BY <2>2, <2>3
<1>6. CASE DiscardSlot \/ ReleaseSlot
  <2> DEFINE i == getIndex(rseq)
  <2>1. rseq \in Seqs /\ i \in Slots
    BY IndexType DEF SlotInv, JBTypeOK
  <2>2. i \in Held
    BY <1>6, <2>1 DEF SlotInv, ExclusiveAccess, DiscardSlot, ReleaseSlot, Held
  <2>3. content[i] = slotData[i] /\ slotData[i] \in Packets /\ slotData[i].seq = slotSeq[i]
    BY <2>1, <2>2 DEF SlotInv, WholePackets, content
  <2>4. content' = [content EXCEPT ![i] = NoPacket]
    BY <1>6, <2>1, ContentEmptied DEF DiscardSlot, ReleaseSlot
  <2>5. result' = IF content[i] # NoPacket /\ content[i].seq = rseq
                       /\ content[i].tag \notin OversizeTags
                  THEN content[i] ELSE NoPacket
    <3>1. CASE DiscardSlot
      BY <2>3, <3>1 DEF DiscardSlot
    <3>2. CASE ReleaseSlot
      <4>1. outputBuffer = slotData[i]
        BY <3>2 DEF SlotInv, Checked, ReleaseSlot
      <4> QED BY <2>3, <3>2, <4>1, PacketType DEF SlotInv, Checked, AnswersRequest, ReleaseSlot
    <3> QED BY <1>6, <3>1, <3>2
  <2>6. Abstract!Get(rseq)
    BY <2>4, <2>5 DEF Abstract!Get, getIndex
  <2> QED BY <2>1, <2>6 DEF Abstract!Next
<1>7. CASE CopyOut \/ Uncount
  BY <1>7, ContentUnchanged DEF CopyOut, Uncount, slotVars
<1>8. CASE Reset
  <2>1. content' = [j \in 0..(BufferSize - 1) |-> NoPacket] /\ result' = result
    BY <1>8 DEF Reset, content, Held, Slots, readerVars
  <2> QED BY <2>1 DEF Abstract!Next, Abstract!Clear
<1>9. CASE UNCHANGED jbVars
  BY <1>9, ContentUnchanged DEF jbVars
<1> QED BY <1>1, <1>2, <1>3, <1>4, <1>5, <1>6, <1>7, <1>8, <1>9
        DEF JBNext, AddSteps, GetSteps

\* The fine-grained buffer implements the atomic one, for every size: to its two
\* callers addPacket() and getNextPacket() are single steps.
THEOREM BufferIsAtomic == JBSpec => RefinesSlotBuffer
<1>1. JBSpec => [][Abstract!Next]_(Abstract!vars)
  BY SlotsConsistent, StepRefines, PTL DEF JBSpec
<1> QED BY <1>1, InitRefines, PTL DEF JBSpec, RefinesSlotBuffer, Abstract!Spec

-----------------------------------------------------------------------------
(* The receiver around it *)

\* The buffer is entered by its two threads alone.
InBuffer ==
  /\ wpc # "idle" => rxpc = "adding"
  /\ rpc # "idle" => cpc = "get"
  /\ rxpc \in {"add", "adding"} => rxPacket \in Packets

\* start() finds no thread of the run before it.
ThreadsGone ==
  /\ ctl = "join" => ~running_
  /\ ctl = "idle" /\ ~running_ => rxpc = "off" /\ cpc = "off" /\ ~connected_

\* Before the first packet of a run nothing is added and nothing is counted.
Quiet ==
  /\ rxpc \in {"add", "adding"} => connected_
  /\ running_ /\ ~connected_ => validPackets_ = 0

\* The consumer's position, from the first packet on.
Placed ==
  /\ position \in Nat
  /\ connected_ => position >= FirstNumber /\ expectedSequenceNumber_ = position % SeqMod
  /\ cpc \in {"tick", "get", "missed"} => connected_

\* The number asked for is the number expected until the answer is used.
Asked == cpc \in {"get", "missed"} => rseq = expectedSequenceNumber_

\* The receiver's own variables have their types, the sender's number too.
OwnTypes ==
  /\ nextToSend \in Nat /\ nextToSend >= FirstNumber
  /\ running_ \in BOOLEAN /\ connected_ \in BOOLEAN /\ prefillComplete_ \in BOOLEAN
  /\ expectedSequenceNumber_ \in Seqs
  /\ rxpc \in {"off", "loop", "add", "adding"}
  /\ cpc \in {"off", "prefill", "tick", "get", "missed"}
  /\ ctl \in {"idle", "join"}
  /\ net \subseteq Tags

RxInv == SlotInv /\ OwnTypes /\ InBuffer /\ ThreadsGone /\ Quiet /\ Placed /\ Asked

-----------------------------------------------------------------------------
(* Sequence numbers *)

\* A number is its quotient and its remainder.
LEMMA Division ==
  \A n \in Nat : /\ n \div SeqMod \in Nat
                 /\ n % SeqMod \in Seqs
                 /\ n = (SeqMod * (n \div SeqMod)) + (n % SeqMod)
BY SizeAssumption DEF Seqs

\* The remainder is unique.
LEMMA Remainder ==
  ASSUME NEW q \in Nat, NEW r \in Seqs
  PROVE  ((SeqMod * q) + r) % SeqMod = r
BY SizeAssumption DEF Seqs

\* The 16-bit successor of a number's remainder is its successor's remainder,
\* the wrap at the top included.
LEMMA NextSeqFollows == \A n \in Nat : nextSeq(n % SeqMod) = (n + 1) % SeqMod
<1> SUFFICES ASSUME NEW n \in Nat PROVE ((n % SeqMod) + 1) % SeqMod = (n + 1) % SeqMod
  BY DEF nextSeq
<1>1. PICK q \in Nat : q = n \div SeqMod
  BY Division
<1>2. PICK r \in Seqs : r = n % SeqMod
  BY Division
<1>3. n = (SeqMod * q) + r
  BY Division, <1>1, <1>2
<1>4. CASE r + 1 < SeqMod
  <2>1. r + 1 \in Seqs
    BY <1>4, SizeAssumption DEF Seqs
  <2>2. n + 1 = (SeqMod * q) + (r + 1)
    BY <1>3, SizeAssumption DEF Seqs
  <2>3. (n + 1) % SeqMod = r + 1
    BY <2>1, <2>2, Remainder
  <2>4. ((SeqMod * 0) + (r + 1)) % SeqMod = r + 1
    BY <2>1, Remainder
  <2>5. (SeqMod * 0) + (r + 1) = r + 1
    BY SizeAssumption DEF Seqs
  <2> QED BY <2>3, <2>4, <2>5, <1>2
<1>5. CASE r + 1 = SeqMod
  <2>1. PICK p \in Nat : p = q + 1
    OBVIOUS
  <2>2. SeqMod * p = (SeqMod * q) + SeqMod
    BY <2>1, SizeAssumption
  <2>3. PICK k \in Nat : k = SeqMod * q
    BY SizeAssumption
  <2>4. n + 1 = (SeqMod * p) + 0
    BY <1>3, <1>5, <2>2, <2>3, SizeAssumption DEF Seqs
  <2>5. (n + 1) % SeqMod = 0
    BY <2>4, Remainder, SizeAssumption DEF Seqs
  <2>6. ((SeqMod * 1) + 0) % SeqMod = 0
    BY Remainder, SizeAssumption DEF Seqs
  <2>7. (SeqMod * 1) + 0 = SeqMod
    BY SizeAssumption
  <2> QED BY <2>5, <2>6, <2>7, <1>2, <1>5
<1> QED BY <1>4, <1>5, SizeAssumption DEF Seqs

\* A packet of the sender is a packet of the buffer.
LEMMA SentPackets ==
  \A n \in Tags : n \in Nat /\ n >= FirstNumber /\ n % SeqMod \in Seqs /\ packet(n) \in Packets
<1> SUFFICES ASSUME NEW n \in Tags
             PROVE  n \in Nat /\ n >= FirstNumber /\ n % SeqMod \in Seqs /\ packet(n) \in Packets
  OBVIOUS
<1>1. n \in Nat /\ n >= FirstNumber
  BY ReceiverAssumption
<1>2. n % SeqMod \in Seqs
  BY <1>1, Division
<1> QED BY <1>1, <1>2 DEF packet, Packets

-----------------------------------------------------------------------------
(* The buffer inside the receiver *)

\* A step of the receiver is a step of the buffer or leaves it alone.
LEMMA StepsOfBuffer ==
  ASSUME RxInv, [Next]_vars
  PROVE  [JBNext]_jbVars
<1>1. CASE UNCHANGED vars
  BY <1>1 DEF vars, jbVars
<1>2. CASE Send \/ Stop \/ Joined \/ ReceiveExits
  BY <1>2 DEF Send, Stop, Joined, ReceiveExits, jbVars
<1>3. ASSUME NEW n \in Tags, Lose(n) \/ ReceivePacket(n) PROVE UNCHANGED jbVars
  BY <1>3 DEF Lose, ReceivePacket, jbVars
<1>4. CASE Start
  BY <1>4 DEF Start, JBNext
<1>5. CASE AddPacket
  <2>1. rxPacket \in Packets
    BY <1>5 DEF AddPacket, RxInv, InBuffer
  <2> QED BY <1>5, <2>1 DEF AddPacket, JBNext
<1>6. CASE AddStep
  BY <1>6 DEF AddStep, JBNext
<1>7. CASE OpenGate \/ Play \/ Miss \/ SkipLost \/ Underrun \/ ConsumeExits
  BY <1>7 DEF OpenGate, Play, Miss, SkipLost, Underrun, ConsumeExits, jbVars
<1>8. CASE Tick
  <2>1. expectedSequenceNumber_ \in Seqs
    BY DEF RxInv, OwnTypes
  <2> QED BY <1>8, <2>1 DEF Tick, JBNext
<1>9. CASE GetStep
  BY <1>9 DEF GetStep, JBNext
<1> QED BY <1>1, <1>2, <1>3, <1>4, <1>5, <1>6, <1>7, <1>8, <1>9 DEF Next, Consume

-----------------------------------------------------------------------------

LEMMA InitRxInv == Init => RxInv
<1> SUFFICES ASSUME Init PROVE RxInv
  OBVIOUS
<1>1. SlotInv
  BY InitSlotInv DEF Init
<1>2. 0 \in Seqs
  BY SizeAssumption DEF Seqs
<1>3. nextToSend \in Nat /\ nextToSend >= FirstNumber /\ position \in Nat
  BY ReceiverAssumption DEF Init
<1>4. OwnTypes
  BY <1>2, <1>3 DEF Init, OwnTypes
<1> QED BY <1>1, <1>3, <1>4 DEF Init, JBInit, RxInv, InBuffer, ThreadsGone, Quiet, Placed, Asked

\* Everything of the invariant but the buffer's own part.
RxOwn == OwnTypes /\ InBuffer /\ ThreadsGone /\ Quiet /\ Placed /\ Asked

LEMMA NetworkKeeps ==
  ASSUME RxInv, Send \/ (\E n \in Tags : Lose(n))
  PROVE  RxOwn'
<1>1. net' \subseteq Tags /\ nextToSend' \in Nat /\ nextToSend' >= FirstNumber
  <2>1. CASE Send
    <3>1. nextToSend \in Nat /\ nextToSend >= FirstNumber /\ nextToSend < FirstNumber + MaxPackets
      BY <2>1 DEF Send, RxInv, OwnTypes
    <3>2. nextToSend \in Tags
      BY <3>1, ReceiverAssumption
    <3>3. net' \subseteq Tags
      BY <2>1, <3>2 DEF Send, RxInv, OwnTypes
    <3>4. nextToSend' = nextToSend + 1
      BY <2>1 DEF Send
    <3> QED BY <3>1, <3>3, <3>4, ReceiverAssumption
  <2>2. CASE \E n \in Tags : Lose(n)
    BY <2>2 DEF Lose, RxInv, OwnTypes
  <2> QED BY <2>1, <2>2
<1>2. UNCHANGED <<jbVars, running_, connected_, expectedSequenceNumber_, prefillComplete_,
                  rxpc, rxPacket, cpc, ctl, position>>
  BY DEF Send, Lose
<1> QED BY <1>1, <1>2 DEF jbVars, RxInv, RxOwn, OwnTypes, InBuffer, ThreadsGone, Quiet, Placed, Asked

LEMMA ControlKeeps ==
  ASSUME RxInv, Start \/ Stop \/ Joined
  PROVE  RxOwn'
<1>1. CASE Start
  <2>1. 0 \in Seqs /\ 0 \in Nat
    BY SizeAssumption DEF Seqs
  <2>2. OwnTypes'
    BY <1>1, <2>1 DEF Start, netVars, RxInv, OwnTypes
  <2>3. wpc' = "idle" /\ rpc' = "idle" /\ validPackets_' = 0
    BY <1>1 DEF Start, Reset, writerVars, readerVars
  <2> QED BY <1>1, <2>1, <2>2, <2>3
          DEF Start, RxInv, RxOwn, InBuffer, ThreadsGone, Quiet, Placed, Asked
<1>2. CASE Stop
  BY <1>2 DEF Stop, jbVars, netVars, RxInv, RxOwn, OwnTypes, InBuffer, ThreadsGone, Quiet, Placed, Asked
<1>3. CASE Joined
  BY <1>3 DEF Joined, jbVars, netVars, RxInv, RxOwn, OwnTypes, InBuffer, ThreadsGone, Quiet, Placed, Asked
<1> QED BY <1>1, <1>2, <1>3

LEMMA ReceiveKeeps ==
  ASSUME RxInv, (\E n \in Tags : ReceivePacket(n)) \/ AddPacket \/ AddStep \/ ReceiveExits
  PROVE  RxOwn'
<1>1. ASSUME NEW n \in Tags, ReceivePacket(n) PROVE RxOwn'
  <2>1. n \in Nat /\ n >= FirstNumber /\ n % SeqMod \in Seqs /\ packet(n) \in Packets
    BY SentPackets
  <2>2. net' \subseteq Tags
    BY <1>1 DEF ReceivePacket, RxInv, OwnTypes
  <2>3. OwnTypes'
    BY <1>1, <2>1, <2>2 DEF ReceivePacket, RxInv, OwnTypes
  <2>4. InBuffer' /\ ThreadsGone' /\ Quiet'
    BY <1>1, <2>1 DEF ReceivePacket, jbVars, RxInv, OwnTypes, InBuffer, ThreadsGone, Quiet
  <2>5. Placed' /\ Asked'
    BY <1>1, <2>1 DEF ReceivePacket, jbVars, RxInv, OwnTypes, Placed, Asked
  <2> QED BY <2>3, <2>4, <2>5 DEF RxOwn
<1>2. CASE AddPacket
  <2>1. UNCHANGED <<rpc, rseq, validPackets_>>
    BY <1>2 DEF AddPacket, ClaimSlot, readerVars, jbVars
  <2>2. wpc' # "idle" => rxpc' = "adding"
    BY <1>2 DEF AddPacket, ClaimSlot, jbVars, RxInv, InBuffer
  <2>3. rxpc' \in {"adding", "loop"}
    BY <1>2 DEF AddPacket
  <2> QED BY <1>2, <2>1, <2>2, <2>3
          DEF AddPacket, netVars, RxInv, RxOwn, OwnTypes, InBuffer, ThreadsGone, Quiet, Placed, Asked
<1>3. CASE AddStep
  <2>1. UNCHANGED <<rpc, rseq>>
    BY <1>3 DEF AddStep, AddSteps, WriteData, WriteMeta, CountPacket, PublishSlot, readerVars
  <2>2. rxpc' \in {"adding", "loop"} /\ (wpc' # "idle" => rxpc' = "adding")
    BY <1>3 DEF AddStep
  <2>3. connected_
    BY <1>3 DEF AddStep, RxInv, Quiet
  <2> QED BY <1>3, <2>1, <2>2, <2>3
          DEF AddStep, netVars, RxInv, RxOwn, OwnTypes, InBuffer, ThreadsGone, Quiet, Placed, Asked
<1>4. CASE ReceiveExits
  BY <1>4 DEF ReceiveExits, jbVars, netVars, RxInv, RxOwn, OwnTypes, InBuffer, ThreadsGone, Quiet,
              Placed, Asked
<1> QED BY <1>1, <1>2, <1>3, <1>4

LEMMA ConsumeKeeps ==
  ASSUME RxInv, Consume
  PROVE  RxOwn'
<1>1. CASE OpenGate
  <2>1. validPackets_ # 0
    <3>1. prefillPacketCount_ >= 1
      BY SizeAssumption, ReceiverAssumption DEF prefillPacketCount_, min, max
    <3>2. prefillPacketCount_ \in Nat
      BY SizeAssumption, ReceiverAssumption DEF prefillPacketCount_, min, max
    <3>3. validPackets_ >= prefillPacketCount_
      BY <1>1 DEF OpenGate
    <3> HIDE DEF prefillPacketCount_
    <3> QED BY <3>1, <3>2, <3>3
  <2>2. connected_
    BY <1>1, <2>1 DEF OpenGate, RxInv, Quiet
  <2> QED BY <1>1, <2>2 DEF OpenGate, jbVars, netVars, RxInv, RxOwn, OwnTypes, InBuffer, ThreadsGone,
                            Quiet, Placed, Asked
<1>2. CASE Tick
  <2>1. rseq' = expectedSequenceNumber_ /\ UNCHANGED <<wpc, validPackets_>>
    BY <1>2 DEF Tick, TakeSlot, writerVars
  <2> QED BY <1>2, <2>1 DEF Tick, netVars, RxInv, RxOwn, OwnTypes, InBuffer, ThreadsGone,
                            Quiet, Placed, Asked
<1>3. CASE GetStep
  <2>1. UNCHANGED <<wpc, rseq>>
    BY <1>3 DEF GetStep, GetSteps, DiscardSlot, CopyOut, ReleaseSlot, Uncount, writerVars
  <2>2. connected_ /\ cpc = "get"
    BY <1>3 DEF GetStep, RxInv, Placed
  <2> QED BY <1>3, <2>1, <2>2 DEF GetStep, rxVars, RxInv, RxOwn, OwnTypes, InBuffer, ThreadsGone,
                                  Quiet, Placed, Asked
<1>4. CASE Play \/ SkipLost
  <2>1. /\ cpc \in {"get", "missed"} /\ rpc = "idle" /\ cpc' = "tick"
        /\ expectedSequenceNumber_' = nextSeq(rseq) /\ position' = position + 1
        /\ UNCHANGED <<jbVars, running_, connected_, prefillComplete_, rxpc, rxPacket, ctl, netVars>>
    BY <1>4 DEF Play, SkipLost, RxInv, InBuffer
  <2>2. connected_ /\ rseq = position % SeqMod /\ position \in Nat /\ position >= FirstNumber
    BY <2>1 DEF RxInv, Placed, Asked
  <2>3. position + 1 \in Nat /\ position + 1 >= FirstNumber
    BY <2>2, ReceiverAssumption
  <2>4. expectedSequenceNumber_' = (position + 1) % SeqMod
    BY <2>1, <2>2, NextSeqFollows
  <2>5. (position + 1) % SeqMod \in Seqs
    BY <2>3, Division
  <2>6. OwnTypes'
    BY <2>1, <2>4, <2>5 DEF netVars, RxInv, OwnTypes
  <2>7. Placed' /\ Asked'
    BY <2>1, <2>2, <2>3, <2>4 DEF Placed, Asked
  <2>8. InBuffer' /\ ThreadsGone' /\ Quiet'
    BY <2>1 DEF jbVars, RxInv, InBuffer, ThreadsGone, Quiet
  <2> QED BY <2>6, <2>7, <2>8 DEF RxOwn
<1>5. CASE Miss \/ Underrun \/ ConsumeExits
  <2>1. rpc = "idle" /\ cpc' \in {"tick", "missed", "off"}
        /\ (cpc' \in {"tick", "missed"} => cpc \in {"get", "missed"})
    BY <1>5 DEF Miss, Underrun, ConsumeExits, RxInv, InBuffer
  <2>2. UNCHANGED <<jbVars, running_, connected_, expectedSequenceNumber_, prefillComplete_, rxpc,
                    rxPacket, ctl, netVars, position>>
    BY <1>5 DEF Miss, Underrun, ConsumeExits
  <2>3. ThreadsGone'
    BY <1>5, <2>2 DEF Miss, Underrun, ConsumeExits, RxInv, ThreadsGone, OwnTypes
  <2> QED BY <2>1, <2>2, <2>3 DEF jbVars, netVars, RxInv, RxOwn, OwnTypes, InBuffer, Quiet,
                                  Placed, Asked
<1> QED BY <1>1, <1>2, <1>3, <1>4, <1>5 DEF Consume

LEMMA NextKeepsRxInv == RxInv /\ [Next]_vars => RxInv'
<1> SUFFICES ASSUME RxInv, [Next]_vars PROVE RxInv'
  OBVIOUS
<1>1. SlotInv'
  BY StepsOfBuffer, NextKeepsSlotInv DEF RxInv
<1>2. RxOwn'
  <2>1. CASE UNCHANGED vars
    BY <2>1 DEF vars, jbVars, rxVars, RxInv, RxOwn, OwnTypes, InBuffer, ThreadsGone, Quiet, Placed, Asked
  <2>2. CASE Next
    BY <2>2, NetworkKeeps, ControlKeeps, ReceiveKeeps, ConsumeKeeps DEF Next
  <2> QED BY <2>1, <2>2
<1> QED BY <1>1, <1>2 DEF RxInv, RxOwn

\* The invariant has what the runs check.
LEMMA RxInvTells == RxInv => PositionKept
<1> SUFFICES ASSUME RxInv PROVE PositionKept
  OBVIOUS
<1>1. RxTypeOK
  BY DEF RxInv, SlotInv, OwnTypes, RxTypeOK
<1>2. KnowsItsPosition
  BY DEF RxInv, Placed, KnowsItsPosition
<1> QED BY <1>1, <1>2 DEF PositionKept

\* The receiver asks for packets only from the first packet on, and the 16-bit
\* number it asks for stands for its place in the stream, however often the
\* numbers wrap and whenever start() and stop() are called: RTPReceiver.cpp's
\* processPacket(), processNextPacket() and the two loops, for any constants.
THEOREM ReceiverKeepsPosition == Spec => []PositionKept
<1>1. Init => RxInv
  BY InitRxInv
<1>2. RxInv /\ [Next]_vars => RxInv'
  BY NextKeepsRxInv
<1>3. RxInv => PositionKept
  BY RxInvTells
<1> QED BY <1>1, <1>2, <1>3, PTL DEF Spec

\* The receiver's threads use the jitter buffer the way its proofs assume: one
\* inside addPacket(), one inside getNextPacket(), reset() between the runs.
THEOREM UsesBuffer == Spec => JBSpec
<1>1. Init => JBInit
  BY DEF Init
<1>2. Init => RxInv
  BY InitRxInv
<1>3. RxInv /\ [Next]_vars => RxInv'
  BY NextKeepsRxInv
<1>4. RxInv /\ [Next]_vars => [JBNext]_jbVars
  BY StepsOfBuffer
<1> QED BY <1>1, <1>2, <1>3, <1>4, PTL DEF Spec, JBSpec

\* Inside the receiver, with stop() and start() at any moment, the buffer keeps
\* one owner per slot, whole packets and an exact count ...
THEOREM ReceiverKeepsBuffer == Spec => []JBSafe
BY UsesBuffer, JBAlwaysSafe, PTL

\* ... and still looks like one that adds and takes packets in single steps.
THEOREM ReceiverBufferIsAtomic == Spec => RefinesSlotBuffer
BY UsesBuffer, BufferIsAtomic, PTL

-----------------------------------------------------------------------------
(***************************************************************************)
(* The pool of packets, proved for any number of packets and threads.      *)
(*                                                                         *)
(* PoolSafe is not inductive: that the chain survives an exchange needs    *)
(* what the thread read before it.  Tagged says it: a thread whose tag is  *)
(* still the head's has the head's pointer, and what it read or wrote of   *)
(* the next pointers still holds, because only a packet on its way back    *)
(* has its next pointer written.  FlagsTell says which packets the flags   *)
(* mark, so that release() accepts only a packet that is out; Conserved,   *)
(* that the four places together always have all the packets, which keeps  *)
(* the counter from going round.                                           *)
(***************************************************************************)

\* What a thread has read is of the head it will compare with.
Tagged ==
  \A t \in Threads :
    /\ step[t] \in {"readNext", "pop", "writeNext", "push"} =>
         /\ oldHead[t].tag =< freeListHead_.tag
         /\ oldHead[t].tag = freeListHead_.tag => oldHead[t].ptr = freeListHead_.ptr
    /\ step[t] \in {"readNext", "pop"} => oldHead[t].ptr \in PoolPackets
    /\ step[t] = "pop" /\ oldHead[t].tag = freeListHead_.tag =>
         nextRead[t] = next[oldHead[t].ptr]
    /\ step[t] = "push" => next[mine[t]] = oldHead[t].ptr

\* A flag is set from the end of acquire() to the beginning of release().
FlagsTell ==
  \A p \in PoolPackets :
    inUseFlags_[p] <=> p \in held \/ \E t \in Threads : step[t] = "subtract" /\ mine[t] = p

\* No packet is counted twice or not at all.
Conserved ==
  Len(stack) + Cardinality(Takers) + Cardinality(Givers) + Cardinality(held) = totalCount_

PoolInv == PoolSafe /\ Tagged /\ FlagsTell /\ Conserved

-----------------------------------------------------------------------------

\* What the stack is after its top is taken.
LEMMA StackPopped ==
  ASSUME NEW s \in Seq(PoolPackets), Len(s) > 0
  PROVE  LET r == SubSeq(s, 1, Len(s) - 1)
         IN  /\ r \in Seq(PoolPackets) /\ Len(r) = Len(s) - 1
             /\ \A i \in 1..Len(r) : r[i] = s[i]
             /\ r = <<>> <=> Len(s) = 1
<1> DEFINE r == SubSeq(s, 1, Len(s) - 1)
<1>1. PICK n \in Nat : n = Len(s)
  OBVIOUS
<1>2. r \in Seq(PoolPackets)
  OBVIOUS
<1>3. \A i \in 1..n : s[i] \in PoolPackets
  BY <1>1
<1>4. Len(r) = IF 1 <= n - 1 THEN n - 1 - 1 + 1 ELSE 0
  BY <1>1, <1>3, SubSeqProperties
<1>5. \A i \in 1..(n - 1) : r[i] = s[i]
  BY <1>1
<1> HIDE DEF r
<1>6. r = <<>> <=> Len(r) = 0
  BY <1>2, EmptySeq
<1>7. n > 0
  BY <1>1
<1>8. Len(r) = n - 1
  BY <1>4, <1>7
<1> QED BY <1>1, <1>2, <1>5, <1>6, <1>8 DEF r

\* What the stack is after a packet is put on it.
LEMMA StackPushed ==
  ASSUME NEW s \in Seq(PoolPackets), NEW p \in PoolPackets
  PROVE  LET r == Append(s, p)
         IN  /\ r \in Seq(PoolPackets) /\ Len(r) = Len(s) + 1 /\ r # <<>>
             /\ \A i \in 1..Len(s) : r[i] = s[i]
             /\ r[Len(r)] = p
OBVIOUS

\* The sets of threads and packets that are counted are finite.
LEMMA CountedFinite ==
  ASSUME PoolTypeOK
  PROVE  /\ IsFiniteSet(Takers) /\ IsFiniteSet(Givers) /\ IsFiniteSet(Adders)
         /\ IsFiniteSet(held)
         /\ Cardinality(Takers) \in Nat /\ Cardinality(Givers) \in Nat
         /\ Cardinality(Adders) \in Nat /\ Cardinality(held) \in Nat
         /\ Cardinality(Adders) =< Cardinality(Threads) /\ Cardinality(Threads) \in Nat
<1>1. IsFiniteSet(PoolPackets)
  BY PoolAssumption, FS_Interval DEF PoolPackets
<1>2. Takers \in SUBSET Threads /\ Givers \in SUBSET Threads /\ Adders \in SUBSET Threads
      /\ held \in SUBSET PoolPackets
  BY DEF Takers, Givers, Adders, PoolTypeOK
<1>3. IsFiniteSet(Takers) /\ IsFiniteSet(Givers) /\ IsFiniteSet(Adders)
      /\ Cardinality(Adders) =< Cardinality(Threads)
  BY <1>2, PoolAssumption, FS_Subset
<1>4. IsFiniteSet(held)
  BY <1>1, <1>2, FS_Subset
<1> QED BY <1>3, <1>4, PoolAssumption, FS_CardinalityType

LEMMA PoolInitInv == PoolInit => PoolInv
<1> SUFFICES ASSUME PoolInit PROVE PoolInv
  OBVIOUS
<1> USE DEF PoolInit
<1>1. /\ stack \in Seq(PoolPackets) /\ Len(stack) = totalCount_ /\ stack # <<>>
      /\ \A i \in 1..Len(stack) : stack[i] = i
  <2>1. stack \in [1..totalCount_ -> PoolPackets] /\ totalCount_ \in Nat
    BY PoolAssumption DEF PoolPackets
  <2>2. stack \in Seq(PoolPackets)
    BY <2>1, SeqDef
  <2>3. DOMAIN stack = 1..Len(stack) /\ Len(stack) \in Nat
    BY <2>2, LenProperties
  <2>4. Len(stack) = totalCount_
    BY <2>1, <2>3
  <2>5. \A i \in 1..totalCount_ : stack[i] = i
    BY DEF PoolPackets
  <2> QED BY <2>2, <2>4, <2>5, PoolAssumption, EmptySeq
<1>2. PoolTypeOK
  <2>1. totalCount_ \in Pointers /\ Null \in Pointers /\ \A p \in PoolPackets : p - 1 \in Pointers
    BY PoolAssumption DEF PoolPackets, Pointers, Null
  <2>2. next \in [PoolPackets -> Pointers]
    BY <2>1
  <2>3. availableCount_ \in 0..(CountMod - 1)
    BY PoolAssumption, FS_CardinalityType
  <2>4. freeListHead_ \in [ptr : Pointers, tag : 0..MaxTag]
    BY <2>1, PoolAssumption
  <2>5. 0 \in 0..MaxTag
    BY PoolAssumption
  <2> QED BY <1>1, <2>1, <2>2, <2>3, <2>4, <2>5 DEF PoolTypeOK
<1>3. Takers = {} /\ Givers = {} /\ Adders = {} /\ held = {}
  BY DEF Takers, Givers, Adders, Movers
<1>4. Cardinality({}) = 0
  BY FS_EmptySet
<1>5. ChainWhole
  <2>1. freeListHead_.ptr = stack[Len(stack)]
    BY <1>1, PoolAssumption
  <2>2. ASSUME NEW i \in 1..Len(stack)
        PROVE  next[stack[i]] = IF i = 1 THEN Null ELSE stack[i - 1]
    <3>1. i \in PoolPackets /\ stack[i] = i
      BY <1>1 DEF PoolPackets
    <3>2. next[i] = i - 1
      BY <3>1
    <3>3. i # 1 => i - 1 \in 1..Len(stack)
      BY <1>1, PoolAssumption
    <3> QED BY <1>1, <3>1, <3>2, <3>3 DEF Null
  <2> QED BY <1>1, <2>1, <2>2 DEF ChainWhole
<1>6. OnePlace
  <2>1. \A p \in PoolPackets : stack[p] = p /\ p \in 1..Len(stack)
    BY <1>1, PoolAssumption DEF PoolPackets
  <2>2. \A i, j \in 1..Len(stack) : stack[i] = stack[j] => i = j
    BY <1>1
  <2> QED BY <2>1, <2>2 DEF OnePlace, Movers, Takers, Givers
<1>7. CountInFlight /\ Conserved
  <2>1. settledCount = totalCount_
    BY <1>1, <1>3, <1>4, PoolAssumption DEF settledCount
  <2>2. CountInFlight
    BY <2>1, PoolAssumption DEF CountInFlight, unsigned
  <2>3. Conserved
    BY <1>1, <1>3, <1>4, PoolAssumption DEF Conserved
  <2> QED BY <2>2, <2>3
<1>8. Tagged /\ FlagsTell
  BY DEF Tagged, FlagsTell
<1> QED BY <1>2, <1>5, <1>6, <1>7, <1>8 DEF PoolInv, PoolSafe

-----------------------------------------------------------------------------
(* Steps that leave every packet where it is. *)

\* Where the packets are, their flags and the count do not depend on what the
\* threads have read.
LEMMA PlacesKept ==
  ASSUME PoolInv, UNCHANGED <<stack, held, inUseFlags_, availableCount_, mine>>,
         Takers' = Takers, Givers' = Givers, Adders' = Adders,
         \A u \in Threads : step'[u] = "subtract" <=> step[u] = "subtract"
  PROVE  OnePlace' /\ CountInFlight' /\ FlagsTell' /\ Conserved'
<1>1. Movers' = Movers
  BY DEF Movers
<1>2. CountInFlight' /\ Conserved'
  BY DEF CountInFlight, settledCount, Conserved, PoolInv, PoolSafe
<1>3. FlagsTell'
  BY DEF FlagsTell, PoolInv
<1>4. OnePlace'
  BY <1>1 DEF OnePlace, PoolInv, PoolSafe
<1> QED BY <1>2, <1>3, <1>4

LEMMA AcquireKeeps == ASSUME PoolInv, NEW t \in Threads, Acquire(t) PROVE PoolInv'
<1> USE DEF Acquire, goTo, loadHead
<1>1. PoolTypeOK'
  BY DEF PoolTypeOK, PoolInv, PoolSafe
<1>2. ChainWhole'
  BY DEF ChainWhole, PoolInv, PoolSafe
<1>3. OnePlace' /\ CountInFlight' /\ FlagsTell' /\ Conserved'
  BY PlacesKept DEF PoolInv, PoolSafe, PoolTypeOK, Takers, Givers, Adders
<1>4. Tagged'
  BY DEF Tagged, PoolInv, PoolSafe, PoolTypeOK, Pointers, Null
<1> QED BY <1>1, <1>2, <1>3, <1>4 DEF PoolInv, PoolSafe

LEMMA ReadNextKeeps == ASSUME PoolInv, NEW t \in Threads, ReadNext(t) PROVE PoolInv'
<1> USE DEF ReadNext, goTo
<1>0. oldHead[t].ptr \in PoolPackets /\ next[oldHead[t].ptr] \in Pointers
  BY DEF PoolInv, PoolSafe, PoolTypeOK, Tagged
<1>1. PoolTypeOK'
  BY <1>0 DEF PoolTypeOK, PoolInv, PoolSafe
<1>2. ChainWhole'
  BY DEF ChainWhole, PoolInv, PoolSafe
<1>3. OnePlace' /\ CountInFlight' /\ FlagsTell' /\ Conserved'
  BY PlacesKept DEF PoolInv, PoolSafe, PoolTypeOK, Takers, Givers, Adders
<1>4. Tagged'
  BY DEF Tagged, PoolInv, PoolSafe, PoolTypeOK
<1> QED BY <1>1, <1>2, <1>3, <1>4 DEF PoolInv, PoolSafe

LEMMA PopFailsKeeps == ASSUME PoolInv, NEW t \in Threads, PopFails(t) PROVE PoolInv'
<1> USE DEF PopFails, goTo, loadHead
<1>1. PoolTypeOK'
  BY DEF PoolTypeOK, PoolInv, PoolSafe
<1>2. ChainWhole'
  BY DEF ChainWhole, PoolInv, PoolSafe
<1>3. OnePlace' /\ CountInFlight' /\ FlagsTell' /\ Conserved'
  BY PlacesKept DEF PoolInv, PoolSafe, PoolTypeOK, Takers, Givers, Adders
<1>4. Tagged'
  BY DEF Tagged, PoolInv, PoolSafe, PoolTypeOK, Pointers, Null
<1> QED BY <1>1, <1>2, <1>3, <1>4 DEF PoolInv, PoolSafe

LEMMA LoadKeeps ==
  ASSUME PoolInv, NEW t \in Threads, LoadForPush(t) \/ PushFails(t)
  PROVE  PoolInv'
<1> USE DEF LoadForPush, PushFails, goTo, loadHead
<1>1. PoolTypeOK'
  BY DEF PoolTypeOK, PoolInv, PoolSafe
<1>2. ChainWhole'
  BY DEF ChainWhole, PoolInv, PoolSafe
<1>3. OnePlace' /\ CountInFlight' /\ FlagsTell' /\ Conserved'
  BY PlacesKept DEF PoolInv, PoolSafe, PoolTypeOK, Takers, Givers, Adders
<1>4. Tagged'
  <2>1. /\ oldHead' = [oldHead EXCEPT ![t] = freeListHead_]
        /\ step' = [step EXCEPT ![t] = "writeNext"]
        /\ UNCHANGED <<freeListHead_, next, nextRead, mine>>
    OBVIOUS
  <2> QED BY <2>1 DEF Tagged, PoolInv, PoolSafe, PoolTypeOK
<1> QED BY <1>1, <1>2, <1>3, <1>4 DEF PoolInv, PoolSafe

\* The next pointer that is written is of a packet on its way back: no other
\* thread has read it since it was at the head, and no other writes it.
LEMMA WriteNextKeeps == ASSUME PoolInv, NEW t \in Threads, WriteNext(t) PROVE PoolInv'
<1> USE DEF WriteNext, goTo
<1>0. mine[t] \in PoolPackets /\ t \in Movers /\ \A i \in 1..Len(stack) : stack[i] # mine[t]
  BY DEF PoolInv, PoolSafe, OnePlace, Movers, Givers
<1>1. PoolTypeOK'
  BY <1>0 DEF PoolTypeOK, PoolInv, PoolSafe
<1>2. ChainWhole'
  <2>1. \A i \in 1..Len(stack) : stack[i] \in PoolPackets
    BY ElementOfSeq DEF PoolInv, PoolSafe, PoolTypeOK
  <2>2. \A i \in 1..Len(stack) : next'[stack[i]] = next[stack[i]]
    BY <1>0, <2>1 DEF PoolInv, PoolSafe, PoolTypeOK
  <2> QED BY <2>2 DEF ChainWhole, PoolInv, PoolSafe
<1>3. OnePlace' /\ CountInFlight' /\ FlagsTell' /\ Conserved'
  BY PlacesKept DEF PoolInv, PoolSafe, PoolTypeOK, Takers, Givers, Adders
<1>4. Tagged'
  <2> SUFFICES ASSUME NEW u \in Threads
               PROVE  /\ step'[u] \in {"readNext", "pop", "writeNext", "push"} =>
                           /\ oldHead[u].tag =< freeListHead_.tag
                           /\ oldHead[u].tag = freeListHead_.tag => oldHead[u].ptr = freeListHead_.ptr
                      /\ step'[u] \in {"readNext", "pop"} => oldHead[u].ptr \in PoolPackets
                      /\ step'[u] = "pop" /\ oldHead[u].tag = freeListHead_.tag =>
                           nextRead[u] = next'[oldHead[u].ptr]
                      /\ step'[u] = "push" => next'[mine[u]] = oldHead[u].ptr
    BY DEF Tagged
  <2>1. CASE u = t
    BY <1>0, <2>1 DEF Tagged, PoolInv, PoolSafe, PoolTypeOK
  <2>2. CASE u # t
    <3>1. step'[u] = step[u]
      BY <2>2 DEF PoolInv, PoolSafe, PoolTypeOK
    <3>2. step[u] = "push" => mine[u] # mine[t] /\ mine[u] \in PoolPackets
      BY <1>0, <2>2 DEF PoolInv, PoolSafe, OnePlace, Movers, Givers
    <3>3. step[u] = "pop" /\ oldHead[u].tag = freeListHead_.tag => oldHead[u].ptr # mine[t]
      <4> SUFFICES ASSUME step[u] = "pop", oldHead[u].tag = freeListHead_.tag
                   PROVE  oldHead[u].ptr # mine[t]
        OBVIOUS
      <4>1. oldHead[u].ptr = freeListHead_.ptr /\ freeListHead_.ptr \in PoolPackets
        BY DEF Tagged, PoolInv
      <4>2. stack # <<>> /\ freeListHead_.ptr = stack[Len(stack)]
        BY <4>1 DEF ChainWhole, PoolInv, PoolSafe, PoolPackets, Null
      <4>3. Len(stack) \in 1..Len(stack)
        BY <4>2, EmptySeq DEF PoolInv, PoolSafe, PoolTypeOK
      <4> QED BY <1>0, <4>1, <4>2, <4>3
    <3> QED BY <1>0, <3>1, <3>2, <3>3 DEF Tagged, PoolInv, PoolSafe, PoolTypeOK
  <2> QED BY <2>1, <2>2
<1> QED BY <1>1, <1>2, <1>3, <1>4 DEF PoolInv, PoolSafe

-----------------------------------------------------------------------------
(* Steps that move a packet, or change a flag or the count. *)

\* A head that points to a packet is the top of the stack.
LEMMA HeadIsTop ==
  ASSUME PoolInv, freeListHead_.ptr \in PoolPackets
  PROVE  \E n \in Nat : /\ n = Len(stack) /\ n > 0 /\ n \in 1..n
                        /\ stack[n] = freeListHead_.ptr
<1>1. stack # <<>> /\ freeListHead_.ptr = stack[Len(stack)]
  BY DEF ChainWhole, PoolInv, PoolSafe, PoolPackets, Null
<1>2. Len(stack) \in Nat \ {0}
  BY <1>1, EmptySeq DEF PoolInv, PoolSafe, PoolTypeOK
<1> QED BY <1>1, <1>2

LEMMA PopKeeps == ASSUME PoolInv, NEW t \in Threads, Pop(t) PROVE PoolInv'
<1> DEFINE p == oldHead[t].ptr
<1> USE DEF Pop, goTo
<1>1. /\ p \in PoolPackets /\ p = freeListHead_.ptr /\ nextRead[t] = next[p]
      /\ nextRead[t] \in Pointers /\ oldHead[t].tag = freeListHead_.tag
      /\ freeListHead_.tag \in 0..MaxTag
  BY DEF PoolInv, PoolSafe, PoolTypeOK, Tagged
<1>2. PICK n \in Nat : n = Len(stack) /\ n > 0 /\ n \in 1..n /\ stack[n] = p
  BY <1>1, HeadIsTop
<1>3. /\ stack' \in Seq(PoolPackets) /\ Len(stack') = n - 1
      /\ \A i \in 1..(n - 1) : stack'[i] = stack[i]
      /\ stack' = <<>> <=> n = 1
  BY <1>2, StackPopped DEF PoolInv, PoolSafe, PoolTypeOK
<1>4. /\ step' = [step EXCEPT ![t] = "mark"] /\ mine' = [mine EXCEPT ![t] = p]
      /\ freeListHead_' = [ptr |-> nextRead[t], tag |-> freeListHead_.tag + 1]
      /\ UNCHANGED <<next, inUseFlags_, availableCount_, oldHead, nextRead, held>>
      /\ step[t] = "pop"
  BY <1>1
<1>5. PoolTypeOK'
  <2>1. freeListHead_' \in [ptr : Pointers, tag : 0..MaxTag]
    BY <1>1, <1>4, PoolAssumption
  <2>2. p \in Pointers
    BY <1>1 DEF Pointers
  <2> HIDE DEF p, Pop
  <2> QED BY <1>3, <1>4, <2>1, <2>2 DEF PoolTypeOK, PoolInv, PoolSafe
<1> HIDE DEF p, Pop
<1>6. ChainWhole'
  <2>1. next[p] = IF n = 1 THEN Null ELSE stack[n - 1]
    BY <1>2 DEF ChainWhole, PoolInv, PoolSafe
  <2>2. freeListHead_'.ptr = IF stack' = <<>> THEN Null ELSE stack'[Len(stack')]
    BY <1>1, <1>2, <1>3, <1>4, <2>1
  <2>3. ASSUME NEW i \in 1..(n - 1)
        PROVE  next'[stack'[i]] = IF i = 1 THEN Null ELSE stack'[i - 1]
    <3>1. next[stack[i]] = IF i = 1 THEN Null ELSE stack[i - 1]
      BY <1>2 DEF ChainWhole, PoolInv, PoolSafe
    <3>2. i # 1 => i - 1 \in 1..(n - 1)
      BY <1>2
    <3> QED BY <1>3, <1>4, <3>1, <3>2
  <2> QED BY <1>3, <2>2, <2>3 DEF ChainWhole
<1>7. OnePlace'
  <2>1. \A i \in 1..(n - 1) : i \in 1..n /\ i # n
    BY <1>2
  <2>2. /\ \A i, j \in 1..n : stack[i] = stack[j] => i = j
        /\ \A q \in held : \A i \in 1..n : stack[i] # q
        /\ \A u \in Movers : /\ mine[u] \in PoolPackets \ held
                             /\ \A i \in 1..n : stack[i] # mine[u]
                             /\ \A v \in Movers : mine[v] = mine[u] => v = u
        /\ \A q \in PoolPackets : \/ q \in held
                                  \/ \E i \in 1..n : stack[i] = q
                                  \/ \E u \in Movers : mine[u] = q
    BY <1>2 DEF OnePlace, PoolInv, PoolSafe
  <2>3. /\ Movers' = Movers \cup {t} /\ t \notin Movers /\ mine'[t] = p
        /\ \A u \in Movers : u # t /\ mine'[u] = mine[u]
    BY <1>4 DEF PoolInv, PoolSafe, PoolTypeOK, Movers, Takers, Givers
  <2>4. \A i, j \in 1..(n - 1) : stack'[i] = stack'[j] => i = j
    BY <1>3, <2>1, <2>2
  <2>5. \A q \in held : \A i \in 1..(n - 1) : stack'[i] # q
    BY <1>3, <2>1, <2>2
  <2>6. ASSUME NEW u \in Movers'
        PROVE  /\ mine'[u] \in PoolPackets \ held
               /\ \A i \in 1..(n - 1) : stack'[i] # mine'[u]
               /\ \A v \in Movers' : mine'[v] = mine'[u] => v = u
    <3>1. CASE u = t
      <4>1. mine'[u] \in PoolPackets \ held
        BY <1>1, <1>2, <2>2, <2>3, <3>1
      <4>2. \A i \in 1..(n - 1) : stack'[i] # mine'[u]
        <5> SUFFICES ASSUME NEW i \in 1..(n - 1) PROVE stack[i] # p
          BY <1>3, <2>3, <3>1
        <5> QED BY <1>2, <2>1, <2>2
      <4>3. \A v \in Movers : mine'[v] # mine'[u]
        BY <1>2, <2>2, <2>3, <3>1
      <4> QED BY <2>3, <3>1, <4>1, <4>2, <4>3
    <3>2. CASE u # t
      <4>1. u \in Movers /\ mine'[u] = mine[u]
        BY <2>3, <3>2
      <4>2. mine[u] # p
        BY <1>2, <2>2, <4>1
      <4>3. \A i \in 1..(n - 1) : stack'[i] # mine'[u]
        BY <1>3, <2>1, <2>2, <4>1
      <4>4. ASSUME NEW v \in Movers', mine'[v] = mine'[u] PROVE v = u
        BY <2>2, <2>3, <4>1, <4>2, <4>4
      <4> QED BY <2>2, <4>1, <4>3, <4>4
    <3> QED BY <3>1, <3>2
  <2>7. ASSUME NEW q \in PoolPackets
        PROVE  \/ q \in held
               \/ \E i \in 1..(n - 1) : stack'[i] = q
               \/ \E u \in Movers' : mine'[u] = q
    <3>1. ASSUME NEW i \in 1..n, stack[i] = q
          PROVE  \/ \E j \in 1..(n - 1) : stack'[j] = q
                 \/ \E u \in Movers' : mine'[u] = q
      <4>1. CASE i = n
        BY <1>2, <2>3, <3>1, <4>1
      <4>2. CASE i # n
        <5>1. i \in 1..(n - 1)
          BY <1>2, <4>2
        <5> QED BY <1>3, <3>1, <5>1
      <4> QED BY <4>1, <4>2
    <3> QED BY <2>2, <2>3, <3>1
  <2> QED BY <1>3, <1>4, <2>4, <2>5, <2>6, <2>7 DEF OnePlace
<1>8. Tagged'
  <2>1. \A u \in Threads : oldHead[u].tag \in Nat
    BY DEF PoolInv, PoolSafe, PoolTypeOK
  <2> QED BY <1>1, <1>4, <2>1 DEF Tagged, PoolInv, PoolSafe, PoolTypeOK
<1>9. FlagsTell'
  BY <1>4 DEF FlagsTell, PoolInv, PoolSafe, PoolTypeOK
<1>10. CountInFlight' /\ Conserved'
  <2>1. /\ Takers' = Takers \cup {t} /\ t \notin Takers
        /\ Givers' = Givers /\ Adders' = Adders
    BY <1>4 DEF PoolInv, PoolSafe, PoolTypeOK, Takers, Givers, Adders
  <2>2. Cardinality(Takers') = Cardinality(Takers) + 1
    BY <2>1, CountedFinite, FS_AddElement DEF PoolInv, PoolSafe
  <2>3. PICK k \in Nat : k = Cardinality(Takers)
    BY CountedFinite DEF PoolInv, PoolSafe
  <2>4. /\ Len(stack) + Cardinality(Takers) = n + k
        /\ Len(stack') + Cardinality(Takers') = (n - 1) + (k + 1)
    BY <1>2, <1>3, <2>2, <2>3
  <2>5. (n - 1) + (k + 1) = n + k
    OBVIOUS
  <2>6. Len(stack') + Cardinality(Takers') = Len(stack) + Cardinality(Takers)
    BY <2>4, <2>5
  <2>7. settledCount' = settledCount
    BY <2>1, <2>6 DEF settledCount
  <2>8. Conserved'
    BY <1>4, <2>1, <2>6 DEF Conserved, PoolInv
  <2> QED BY <1>4, <2>7, <2>8 DEF CountInFlight, PoolInv, PoolSafe
<1> QED BY <1>5, <1>6, <1>7, <1>8, <1>9, <1>10 DEF PoolInv, PoolSafe

LEMMA MarkKeeps == ASSUME PoolInv, NEW t \in Threads, MarkInUse(t) PROVE PoolInv'
<1> USE DEF MarkInUse, goTo
<1>0. mine[t] \in PoolPackets \ held
  BY DEF PoolInv, PoolSafe, OnePlace, Movers, Takers
<1>1. PoolTypeOK'
  BY DEF PoolTypeOK, PoolInv, PoolSafe
<1>2. ChainWhole'
  BY DEF ChainWhole, PoolInv, PoolSafe
<1>3. Takers' = Takers /\ Givers' = Givers /\ Adders' = Adders /\ Movers' = Movers
  BY DEF PoolInv, PoolSafe, PoolTypeOK, Takers, Givers, Adders, Movers
<1>4. OnePlace'
  BY <1>3 DEF OnePlace, PoolInv, PoolSafe
<1>5. CountInFlight' /\ Conserved'
  BY <1>3 DEF CountInFlight, settledCount, Conserved, PoolInv, PoolSafe
<1>6. FlagsTell'
  BY <1>0 DEF FlagsTell, PoolInv, PoolSafe, PoolTypeOK
<1>7. Tagged'
  BY DEF Tagged, PoolInv, PoolSafe, PoolTypeOK
<1> QED BY <1>1, <1>2, <1>4, <1>5, <1>6, <1>7 DEF PoolInv, PoolSafe

\* The count never goes below -|Threads| or above the number of packets, so it
\* has room for one more step down or up.
LEMMA CountRoom ==
  ASSUME PoolInv
  PROVE  /\ settledCount \in Int /\ settledCount > -CountMod
         /\ settledCount =< totalCount_ - Cardinality(Adders)
         /\ Cardinality(Adders) \in Nat /\ CountMod \in Nat /\ totalCount_ \in Nat
         /\ totalCount_ < CountMod
         /\ Takers # {} => settledCount - 1 > -CountMod
<1>1. PICK l \in Nat : l = Len(stack)
  BY LenProperties DEF PoolInv, PoolSafe, PoolTypeOK
<1>2. PICK k \in Nat, g \in Nat, a \in Nat, h \in Nat, m \in Nat :
        /\ k = Cardinality(Takers) /\ g = Cardinality(Givers)
        /\ a = Cardinality(Adders) /\ h = Cardinality(held) /\ m = Cardinality(Threads)
        /\ a =< m
  BY CountedFinite DEF PoolInv, PoolSafe
<1>3. l + k + g + h = totalCount_
  BY <1>1, <1>2 DEF PoolInv, Conserved
<1>4. settledCount = (l + k) - a
  BY <1>1, <1>2 DEF settledCount
<1>5. totalCount_ \in Nat /\ CountMod \in Nat /\ CountMod > totalCount_ + m
  BY <1>2, PoolAssumption
<1>6. Takers # {} => k # 0
  BY <1>2, CountedFinite, FS_EmptySet DEF PoolInv, PoolSafe
<1>7. a =< m
  BY <1>2
<1>8. /\ (l + k) - a \in Int /\ (l + k) - a > -CountMod /\ (l + k) - a =< totalCount_ - a
      /\ totalCount_ < CountMod /\ k # 0 => ((l + k) - a) - 1 > -CountMod
  BY <1>3, <1>5, <1>7
<1> QED BY <1>2, <1>4, <1>5, <1>6, <1>8

LEMMA SubtractKeeps == ASSUME PoolInv, NEW t \in Threads, Subtract(t) PROVE PoolInv'
<1> DEFINE p == mine[t]
<1> USE DEF Subtract, goTo
<1>1. /\ step[t] = "subtract" /\ step' = [step EXCEPT ![t] = "idle"]
      /\ held' = held \cup {p}
      /\ UNCHANGED <<freeListHead_, next, inUseFlags_, oldHead, nextRead, mine, stack>>
  OBVIOUS
<1>2. t \in Movers /\ t \in Takers /\ p \in PoolPackets \ held
  BY DEF PoolInv, PoolSafe, OnePlace, Movers, Takers
<1>3. /\ Takers' = Takers \ {t} /\ Movers' = Movers \ {t}
      /\ Givers' = Givers /\ Adders' = Adders
  BY DEF PoolInv, PoolSafe, PoolTypeOK, Takers, Givers, Adders, Movers
<1>4. /\ IsFiniteSet(Takers) /\ IsFiniteSet(held)
      /\ Cardinality(Takers') = Cardinality(Takers) - 1
      /\ Cardinality(held') = Cardinality(held) + 1
  BY <1>1, <1>2, <1>3, CountedFinite, FS_RemoveElement, FS_AddElement DEF PoolInv, PoolSafe
<1>5. PICK l \in Nat, k \in Nat, g \in Nat, a \in Nat, h \in Nat :
        /\ l = Len(stack) /\ k = Cardinality(Takers) /\ g = Cardinality(Givers)
        /\ a = Cardinality(Adders) /\ h = Cardinality(held)
  BY CountedFinite, LenProperties DEF PoolInv, PoolSafe, PoolTypeOK
<1>6. Conserved'
  <2>1. l + k + g + h = totalCount_
    BY <1>5 DEF PoolInv, Conserved
  <2>2. l + (k - 1) + g + (h + 1) = totalCount_
    BY <2>1
  <2> QED BY <1>1, <1>3, <1>4, <1>5, <2>2 DEF Conserved
<1>7. settledCount' = settledCount - 1
  <2>1. settledCount = (l + k) - a
    BY <1>5 DEF settledCount
  <2>2. settledCount' = (l + (k - 1)) - a
    BY <1>1, <1>3, <1>4, <1>5 DEF settledCount
  <2>3. (l + (k - 1)) - a = ((l + k) - a) - 1
    OBVIOUS
  <2> QED BY <2>1, <2>2, <2>3
<1>8. CountInFlight' /\ availableCount_' \in 0..(CountMod - 1)
  <2>1. PICK c \in Int : c = settledCount
    BY CountRoom
  <2>2. /\ c - 1 > -CountMod /\ c < CountMod /\ CountMod \in Nat
    BY <1>2, <2>1, CountRoom
  <2>3. availableCount_ = IF c >= 0 THEN c ELSE c + CountMod
    BY <2>1 DEF PoolInv, PoolSafe, CountInFlight, unsigned
  <2>4. availableCount_' = IF availableCount_ = 0 THEN CountMod - 1 ELSE availableCount_ - 1
    OBVIOUS
  <2>5. /\ availableCount_' = IF c - 1 >= 0 THEN c - 1 ELSE (c - 1) + CountMod
        /\ availableCount_' \in 0..(CountMod - 1)
    BY <2>2, <2>3, <2>4
  <2> QED BY <1>7, <2>1, <2>5 DEF CountInFlight, unsigned
<1>9. PoolTypeOK'
  BY <1>1, <1>2, <1>8 DEF PoolTypeOK, PoolInv, PoolSafe
<1>10. ChainWhole'
  BY DEF ChainWhole, PoolInv, PoolSafe
<1>11. OnePlace'
  BY <1>1, <1>2, <1>3 DEF OnePlace, PoolInv, PoolSafe
<1>12. FlagsTell'
  BY <1>1 DEF FlagsTell, PoolInv, PoolSafe, PoolTypeOK
<1>13. Tagged'
  BY <1>1 DEF Tagged, PoolInv, PoolSafe, PoolTypeOK
<1> QED BY <1>6, <1>8, <1>9, <1>10, <1>11, <1>12, <1>13 DEF PoolInv, PoolSafe

\* A flag that is set and may be released is that of a packet that is out.
LEMMA ReleaseKeeps ==
  ASSUME PoolInv, NEW t \in Threads, NEW p \in PoolPackets, Release(t, p)
  PROVE  PoolInv'
<1>1. /\ step[t] = "idle" /\ step' = [step EXCEPT ![t] = "load"]
      /\ held' = held \ {p} /\ mine' = [mine EXCEPT ![t] = p]
      /\ inUseFlags_' = [inUseFlags_ EXCEPT ![p] = FALSE]
      /\ UNCHANGED <<freeListHead_, next, availableCount_, oldHead, nextRead, stack>>
  BY DEF Release, goTo
<1>2. p \in held /\ \A u \in Threads : step[u] = "subtract" => mine[u] # p
  BY DEF Release, mayRelease, PoolInv, FlagsTell
<1>3. /\ Movers' = Movers \cup {t} /\ t \notin Movers
      /\ Givers' = Givers \cup {t} /\ t \notin Givers
      /\ Takers' = Takers /\ Adders' = Adders
      /\ mine'[t] = p /\ \A u \in Movers : mine'[u] = mine[u]
  BY <1>1 DEF PoolInv, PoolSafe, PoolTypeOK, Takers, Givers, Adders, Movers
<1>4. /\ Cardinality(Givers') = Cardinality(Givers) + 1
      /\ Cardinality(held') = Cardinality(held) - 1
  BY <1>1, <1>2, <1>3, CountedFinite, FS_RemoveElement, FS_AddElement DEF PoolInv, PoolSafe
<1>5. PICK l \in Nat, k \in Nat, g \in Nat, h \in Nat :
        /\ l = Len(stack) /\ k = Cardinality(Takers) /\ g = Cardinality(Givers)
        /\ h = Cardinality(held)
  BY CountedFinite, LenProperties DEF PoolInv, PoolSafe, PoolTypeOK
<1>6. Conserved'
  <2>1. l + k + g + h = totalCount_
    BY <1>5 DEF PoolInv, Conserved
  <2>2. l + k + (g + 1) + (h - 1) = totalCount_
    BY <2>1
  <2> QED BY <1>1, <1>3, <1>4, <1>5, <2>2 DEF Conserved
<1>7. CountInFlight'
  BY <1>1, <1>3 DEF CountInFlight, settledCount, PoolInv, PoolSafe
<1>8. PoolTypeOK'
  BY <1>1 DEF PoolTypeOK, PoolInv, PoolSafe, Pointers
<1>9. ChainWhole'
  BY <1>1 DEF ChainWhole, PoolInv, PoolSafe
<1>10. OnePlace'
  BY <1>1, <1>2, <1>3 DEF OnePlace, PoolInv, PoolSafe
<1>11. FlagsTell'
  BY <1>1, <1>2 DEF FlagsTell, PoolInv, PoolSafe, PoolTypeOK
<1>12. Tagged'
  BY <1>1 DEF Tagged, PoolInv, PoolSafe, PoolTypeOK
<1> QED BY <1>6, <1>7, <1>8, <1>9, <1>10, <1>11, <1>12 DEF PoolInv, PoolSafe

LEMMA PushKeeps == ASSUME PoolInv, NEW t \in Threads, Push(t) PROVE PoolInv'
<1> DEFINE p == mine[t]
<1>1. /\ step[t] = "push" /\ step' = [step EXCEPT ![t] = "add"]
      /\ freeListHead_' = [ptr |-> p, tag |-> freeListHead_.tag + 1]
      /\ stack' = Append(stack, p)
      /\ freeListHead_.tag < MaxTag
      /\ UNCHANGED <<next, inUseFlags_, availableCount_, oldHead, nextRead, mine, held>>
  BY DEF Push, goTo
<1>2. /\ t \in Movers /\ t \in Givers /\ p \in PoolPackets \ held
      /\ \A i \in 1..Len(stack) : stack[i] # p
      /\ \A u \in Movers \ {t} : mine[u] # p
  BY <1>1 DEF PoolInv, PoolSafe, OnePlace, Movers, Givers
<1>3. next[p] = freeListHead_.ptr /\ freeListHead_.tag \in 0..MaxTag
  BY DEF Push, PoolInv, PoolSafe, PoolTypeOK, Tagged
<1>4. /\ Movers' = Movers \ {t} /\ Givers' = Givers \ {t}
      /\ Takers' = Takers /\ Adders' = Adders \cup {t} /\ t \notin Adders
  BY <1>1 DEF PoolInv, PoolSafe, PoolTypeOK, Takers, Givers, Adders, Movers
<1>5. PICK n \in Nat : n = Len(stack)
  BY LenProperties DEF PoolInv, PoolSafe, PoolTypeOK
<1>6. /\ stack' \in Seq(PoolPackets) /\ Len(stack') = n + 1 /\ stack' # <<>>
      /\ \A i \in 1..n : stack'[i] = stack[i]
      /\ stack'[n + 1] = p
  BY <1>1, <1>2, <1>5, StackPushed DEF PoolInv, PoolSafe, PoolTypeOK
<1> HIDE DEF p
<1>7. PoolTypeOK'
  <2>1. freeListHead_' \in [ptr : Pointers, tag : 0..MaxTag]
    BY <1>1, <1>2, <1>3, PoolAssumption DEF Pointers
  <2> QED BY <1>1, <1>6, <2>1 DEF PoolTypeOK, PoolInv, PoolSafe
<1>8. ChainWhole'
  <2>1. freeListHead_'.ptr = stack'[Len(stack')]
    BY <1>1, <1>6
  <2>2. stack = <<>> <=> n = 0
    BY <1>5, EmptySeq DEF PoolInv, PoolSafe, PoolTypeOK
  <2>3. ASSUME NEW i \in 1..(n + 1)
        PROVE  next'[stack'[i]] = IF i = 1 THEN Null ELSE stack'[i - 1]
    <3>1. CASE i = n + 1
      <4>1. next'[stack'[i]] = IF n = 0 THEN Null ELSE stack[n]
        BY <1>1, <1>3, <1>5, <1>6, <2>2, <3>1 DEF ChainWhole, PoolInv, PoolSafe
      <4>2. n # 0 => n \in 1..n /\ i - 1 = n
        BY <3>1
      <4> QED BY <1>6, <3>1, <4>1, <4>2
    <3>2. CASE i # n + 1
      <4>1. i \in 1..n /\ (i # 1 => i - 1 \in 1..n)
        BY <3>2
      <4>2. next[stack[i]] = IF i = 1 THEN Null ELSE stack[i - 1]
        BY <1>5, <4>1 DEF ChainWhole, PoolInv, PoolSafe
      <4> QED BY <1>1, <1>6, <4>1, <4>2
    <3> QED BY <3>1, <3>2
  <2> QED BY <1>6, <2>1, <2>3 DEF ChainWhole
<1>9. OnePlace'
  <2>1. \A i \in 1..(n + 1) : i \in 1..n \/ i = n + 1
    OBVIOUS
  <2>2. /\ \A i, j \in 1..n : stack[i] = stack[j] => i = j
        /\ \A q \in held : \A i \in 1..n : stack[i] # q
        /\ \A i \in 1..n : stack[i] # p
        /\ \A u \in Movers : /\ mine[u] \in PoolPackets \ held
                             /\ \A i \in 1..n : stack[i] # mine[u]
                             /\ \A v \in Movers : mine[v] = mine[u] => v = u
        /\ \A q \in PoolPackets : \/ q \in held
                                  \/ \E i \in 1..n : stack[i] = q
                                  \/ \E u \in Movers : mine[u] = q
    BY <1>2, <1>5 DEF OnePlace, PoolInv, PoolSafe
  <2>3. ASSUME NEW i \in 1..(n + 1), NEW j \in 1..(n + 1), stack'[i] = stack'[j]
        PROVE  i = j
    BY <1>6, <2>1, <2>2, <2>3
  <2>4. ASSUME NEW q \in held, NEW i \in 1..(n + 1) PROVE stack'[i] # q
    BY <1>2, <1>6, <2>1, <2>2
  <2>5. ASSUME NEW u \in Movers'
        PROVE  /\ mine[u] \in PoolPackets \ held
               /\ \A i \in 1..(n + 1) : stack'[i] # mine[u]
               /\ \A v \in Movers' : mine[v] = mine[u] => v = u
    <3>1. u \in Movers /\ mine[u] # p
      BY <1>2, <1>4
    <3>2. ASSUME NEW i \in 1..(n + 1) PROVE stack'[i] # mine[u]
      BY <1>6, <2>1, <2>2, <3>1
    <3> QED BY <1>4, <2>2, <3>1, <3>2
  <2>6. ASSUME NEW q \in PoolPackets
        PROVE  \/ q \in held
               \/ \E i \in 1..(n + 1) : stack'[i] = q
               \/ \E u \in Movers' : mine[u] = q
    <3>1. CASE q = p
      <4>1. n + 1 \in 1..(n + 1)
        OBVIOUS
      <4> QED BY <1>6, <3>1, <4>1
    <3>2. CASE q # p
      <4>1. \A i \in 1..n : i \in 1..(n + 1)
        OBVIOUS
      <4>2. \A u \in Movers : mine[u] = q => u \in Movers'
        BY <1>4, <3>2 DEF p
      <4> QED BY <1>6, <2>2, <4>1, <4>2
    <3> QED BY <3>1, <3>2
  <2> QED BY <1>1, <1>6, <2>3, <2>4, <2>5, <2>6 DEF OnePlace
<1>10. Tagged'
  <2>1. \A u \in Threads : oldHead[u].tag \in Nat
    BY DEF PoolInv, PoolSafe, PoolTypeOK
  <2> QED BY <1>1, <1>3, <2>1 DEF Tagged, PoolInv, PoolSafe, PoolTypeOK
<1>11. FlagsTell'
  BY <1>1 DEF FlagsTell, PoolInv, PoolSafe, PoolTypeOK
<1>12. CountInFlight' /\ Conserved'
  <2>1. /\ Cardinality(Givers') = Cardinality(Givers) - 1
        /\ Cardinality(Adders') = Cardinality(Adders) + 1
    BY <1>2, <1>4, CountedFinite, FS_RemoveElement, FS_AddElement DEF PoolInv, PoolSafe
  <2>2. PICK k \in Nat, g \in Nat, a \in Nat, h \in Nat :
          /\ k = Cardinality(Takers) /\ g = Cardinality(Givers)
          /\ a = Cardinality(Adders) /\ h = Cardinality(held)
    BY CountedFinite DEF PoolInv, PoolSafe
  <2>3. n + k + g + h = totalCount_
    BY <1>5, <2>2 DEF PoolInv, Conserved
  <2>4. (n + 1) + k + (g - 1) + h = totalCount_
    BY <2>3
  <2>5. Conserved'
    BY <1>1, <1>4, <1>6, <2>1, <2>2, <2>4 DEF Conserved
  <2>6. settledCount = (n + k) - a
    BY <1>5, <2>2 DEF settledCount
  <2>7. settledCount' = ((n + 1) + k) - (a + 1)
    BY <1>4, <1>6, <2>1, <2>2 DEF settledCount
  <2>8. ((n + 1) + k) - (a + 1) = (n + k) - a
    OBVIOUS
  <2>9. settledCount' = settledCount
    BY <2>6, <2>7, <2>8
  <2> QED BY <1>1, <2>5, <2>9 DEF CountInFlight, PoolInv, PoolSafe
<1> QED BY <1>7, <1>8, <1>9, <1>10, <1>11, <1>12 DEF PoolInv, PoolSafe

LEMMA AddKeeps == ASSUME PoolInv, NEW t \in Threads, Add(t) PROVE PoolInv'
<1> USE DEF Add, goTo
<1>1. /\ step[t] = "add" /\ step' = [step EXCEPT ![t] = "idle"]
      /\ UNCHANGED <<freeListHead_, next, inUseFlags_, oldHead, nextRead, mine, held, stack>>
  OBVIOUS
<1>2. /\ Takers' = Takers /\ Givers' = Givers /\ Movers' = Movers
      /\ Adders' = Adders \ {t} /\ t \in Adders
  BY DEF PoolInv, PoolSafe, PoolTypeOK, Takers, Givers, Adders, Movers
<1>3. Cardinality(Adders') = Cardinality(Adders) - 1 /\ Cardinality(Adders) # 0
  BY <1>2, CountedFinite, FS_RemoveElement, FS_EmptySet DEF PoolInv, PoolSafe
<1>4. settledCount' = settledCount + 1
  <2>1. PICK l \in Nat, k \in Nat, a \in Nat :
          l = Len(stack) /\ k = Cardinality(Takers) /\ a = Cardinality(Adders)
    BY CountedFinite, LenProperties DEF PoolInv, PoolSafe, PoolTypeOK
  <2>2. settledCount = (l + k) - a
    BY <2>1 DEF settledCount
  <2>3. settledCount' = (l + k) - (a - 1)
    BY <1>1, <1>2, <1>3, <2>1 DEF settledCount
  <2>4. (l + k) - (a - 1) = ((l + k) - a) + 1
    OBVIOUS
  <2> QED BY <2>2, <2>3, <2>4
<1>5. CountInFlight' /\ availableCount_' \in 0..(CountMod - 1)
  <2>1. PICK c \in Int : c = settledCount
    BY CountRoom
  <2>2. PICK a \in Nat : a = Cardinality(Adders) /\ a # 0
    BY <1>3, CountRoom
  <2>3. c > -CountMod /\ c =< totalCount_ - a /\ totalCount_ < CountMod
        /\ CountMod \in Nat /\ totalCount_ \in Nat
    BY <2>1, <2>2, CountRoom
  <2>4. c + 1 < CountMod
    BY <2>2, <2>3
  <2>5. availableCount_ = IF c >= 0 THEN c ELSE c + CountMod
    BY <2>1 DEF PoolInv, PoolSafe, CountInFlight, unsigned
  <2>6. availableCount_' = IF availableCount_ = CountMod - 1 THEN 0 ELSE availableCount_ + 1
    OBVIOUS
  <2>7. /\ availableCount_' = IF c + 1 >= 0 THEN c + 1 ELSE (c + 1) + CountMod
        /\ availableCount_' \in 0..(CountMod - 1)
    BY <2>3, <2>4, <2>5, <2>6
  <2> QED BY <1>4, <2>1, <2>7 DEF CountInFlight, unsigned
<1>6. PoolTypeOK'
  BY <1>1, <1>5 DEF PoolTypeOK, PoolInv, PoolSafe
<1>7. ChainWhole'
  BY DEF ChainWhole, PoolInv, PoolSafe
<1>8. OnePlace' /\ Conserved'
  BY <1>1, <1>2 DEF OnePlace, Conserved, PoolInv, PoolSafe
<1>9. FlagsTell'
  BY <1>1 DEF FlagsTell, PoolInv, PoolSafe, PoolTypeOK
<1>10. Tagged'
  BY <1>1 DEF Tagged, PoolInv, PoolSafe, PoolTypeOK
<1> QED BY <1>5, <1>6, <1>7, <1>8, <1>9, <1>10 DEF PoolInv, PoolSafe

\* No step of a thread breaks the invariant.
LEMMA PoolNextKeeps == PoolInv /\ [PoolNext]_poolVars => PoolInv'
<1> SUFFICES ASSUME PoolInv, [PoolNext]_poolVars PROVE PoolInv'
  OBVIOUS
<1>1. CASE UNCHANGED poolVars
  <2>1. Takers' = Takers /\ Givers' = Givers /\ Adders' = Adders
    BY <1>1 DEF poolVars, threadVars, Takers, Givers, Adders
  <2>2. OnePlace' /\ CountInFlight' /\ FlagsTell' /\ Conserved'
    BY <1>1, <2>1, PlacesKept DEF poolVars, threadVars
  <2>3. PoolTypeOK' /\ ChainWhole' /\ Tagged'
    BY <1>1 DEF poolVars, threadVars, PoolInv, PoolSafe, PoolTypeOK, ChainWhole, Tagged
  <2> QED BY <2>2, <2>3 DEF PoolInv, PoolSafe
<1>2. CASE PoolNext
  <2>1. PICK t \in Threads :
          \/ Acquire(t) \/ ReadNext(t) \/ Pop(t) \/ PopFails(t) \/ MarkInUse(t) \/ Subtract(t)
          \/ \E p \in PoolPackets : Release(t, p)
          \/ LoadForPush(t) \/ WriteNext(t) \/ Push(t) \/ PushFails(t) \/ Add(t)
    BY <1>2 DEF PoolNext
  <2> QED BY <2>1, AcquireKeeps, ReadNextKeeps, PopKeeps, PopFailsKeeps, MarkKeeps,
             SubtractKeeps, ReleaseKeeps, LoadKeeps, WriteNextKeeps, PushKeeps, AddKeeps
<1> QED BY <1>1, <1>2

\* However many threads acquire() and release() at once, the free list stays one
\* chain, no packet is handed out twice, pushed twice or lost, and the count is
\* that of the free packets but for the calls in flight.
THEOREM PoolAlwaysSafe == PoolSpec => []PoolSafe
<1>1. PoolInv => PoolSafe
  BY DEF PoolInv
<1> QED BY <1>1, PoolInitInv, PoolNextKeeps, PTL DEF PoolSpec
=============================================================================
