---------------------------- MODULE JitterBuffer ----------------------------
(***************************************************************************)
(* LockFreeCircularJitterBuffer                                            *)
(* (aes67-core/NetworkEngine/RTP/LockFreeCircularJitterBuffer.cpp): the    *)
(* slots between the thread that receives RTP packets and the thread that  *)
(* plays them.  A packet with sequence number s lives in slot s modulo the *)
(* size.  Each slot has an atomic state that both threads move by compare  *)
(* and swap or by a store; the packet in it is plain memory that only the  *)
(* thread holding the slot (WRITING or READING) may touch; validPackets_   *)
(* is a separate atomic that each thread adjusts outside the slot's own    *)
(* transitions.                                                            *)
(*                                                                         *)
(* addPacket() is ClaimSlot, WriteData, WriteMeta, CountPacket and         *)
(* PublishSlot; getNextPacket() is TakeSlot, then DiscardSlot or CopyOut   *)
(* and ReleaseSlot, then Uncount.  Every shared access is a step of its    *)
(* own, in the order of the code.  A packet is its sequence number and a   *)
(* tag that stands for its payload, presentation time and arrival time.    *)
(* totalPackets_ and droppedPackets_ are written and never read, and are   *)
(* left out.                                                               *)
(***************************************************************************)
EXTENDS Integers, FiniteSets

CONSTANTS BufferSize,    \* bufferSize_, a power of two
          SeqMod,        \* sequence numbers are 0 .. SeqMod - 1 (2^16 on the wire)
          Tags,          \* payloads
          OversizeTags,  \* payloads longer than the reader's output buffer
          NoPacket,      \* not a packet
          SizeMax        \* the largest size_t, where validPackets_ wraps to

ASSUME SizeAssumption ==
  /\ BufferSize \in Nat \ {0}
  /\ SeqMod \in Nat \ {0}
  /\ SizeMax \in Nat /\ SizeMax > BufferSize + 1
ASSUME TagAssumption == OversizeTags \subseteq Tags

Slots == 0..(BufferSize - 1)
Seqs == 0..(SeqMod - 1)
Packets == [seq : Seqs, tag : Tags]

ASSUME NoPacketAssumption == NoPacket \notin Packets

VARIABLES
  state,         \* slot -> "EMPTY", "WRITING", "READY" or "READING"
  slotData,      \* slot -> the payload bytes last copied into it
  slotSeq,       \* slot -> its sequenceNumber field
  validPackets_, \* packets counted as buffered
  wpc,           \* where the writer is in addPacket(), "idle" outside it
  wpkt,          \* the packet it is adding
  rpc,           \* where the reader is in getNextPacket(), "idle" outside it
  rseq,          \* the sequence number it asked for
  outputBuffer,  \* what it has copied out
  result         \* what its last call returned

writerVars == <<wpc, wpkt>>
readerVars == <<rpc, rseq, outputBuffer, result>>
slotVars == <<state, slotData, slotSeq>>
jbVars == <<state, slotData, slotSeq, validPackets_, wpc, wpkt,
            rpc, rseq, outputBuffer, result>>

\* The mask of a power of two.
getIndex(seq) == seq % BufferSize

\* size_t arithmetic on validPackets_.
inc(n) == IF n = SizeMax THEN 0 ELSE n + 1
dec(n) == IF n = 0 THEN SizeMax ELSE n - 1

JBInit ==
  /\ state = [i \in Slots |-> "EMPTY"]
  /\ slotData = [i \in Slots |-> NoPacket]
  /\ slotSeq = [i \in Slots |-> 0]
  /\ validPackets_ = 0
  /\ wpc = "idle" /\ wpkt = NoPacket
  /\ rpc = "idle" /\ rseq = 0 /\ outputBuffer = NoPacket /\ result = NoPacket

-----------------------------------------------------------------------------
(* addPacket() *)

\* The compare and swap from EMPTY; when it fails the packet is dropped and the
\* call returns, which changes nothing here.
ClaimSlot(p) ==
  /\ wpc = "idle"
  /\ state[getIndex(p.seq)] = "EMPTY"
  /\ state' = [state EXCEPT ![getIndex(p.seq)] = "WRITING"]
  /\ wpc' = "data" /\ wpkt' = p
  /\ UNCHANGED <<slotData, slotSeq, validPackets_, readerVars>>

WriteData ==
  /\ wpc = "data"
  /\ slotData' = [slotData EXCEPT ![getIndex(wpkt.seq)] = wpkt]
  /\ wpc' = "meta"
  /\ UNCHANGED <<state, slotSeq, validPackets_, wpkt, readerVars>>

WriteMeta ==
  /\ wpc = "meta"
  /\ slotSeq' = [slotSeq EXCEPT ![getIndex(wpkt.seq)] = wpkt.seq]
  /\ wpc' = "count"
  /\ UNCHANGED <<state, slotData, validPackets_, wpkt, readerVars>>

\* Before the slot is published, so that the count is never behind it.
CountPacket ==
  /\ wpc = "count"
  /\ validPackets_' = inc(validPackets_)
  /\ wpc' = "publish"
  /\ UNCHANGED <<slotVars, wpkt, readerVars>>

PublishSlot ==
  /\ wpc = "publish"
  /\ state' = [state EXCEPT ![getIndex(wpkt.seq)] = "READY"]
  /\ wpc' = "idle"
  /\ UNCHANGED <<slotData, slotSeq, validPackets_, wpkt, readerVars>>

-----------------------------------------------------------------------------
(* getNextPacket() *)

\* The compare and swap from READY; when it fails the call returns false.
TakeSlot(seq) ==
  /\ rpc = "idle"
  /\ rseq' = seq
  /\ IF state[getIndex(seq)] = "READY"
     THEN /\ state' = [state EXCEPT ![getIndex(seq)] = "READING"]
          /\ rpc' = "check"
          /\ UNCHANGED result
     ELSE /\ result' = NoPacket
          /\ UNCHANGED <<state, rpc>>
  /\ UNCHANGED <<slotData, slotSeq, validPackets_, writerVars, outputBuffer>>

\* Mutant: the early return empties the slot and leaves it counted.
DiscardSlot_uncounted ==
  /\ rpc = "check"
  /\ \/ slotSeq[getIndex(rseq)] # rseq
     \/ slotData[getIndex(rseq)].tag \in OversizeTags
  /\ state' = [state EXCEPT ![getIndex(rseq)] = "EMPTY"]
  /\ result' = NoPacket
  /\ rpc' = "idle"
  /\ UNCHANGED <<slotData, slotSeq, validPackets_, writerVars, rseq, outputBuffer>>

\* Another packet in the slot, or one longer than the output buffer: the slot
\* is emptied and the call is going to return false.
DiscardSlot ==
  /\ rpc = "check"
  /\ \/ slotSeq[getIndex(rseq)] # rseq
     \/ slotData[getIndex(rseq)].tag \in OversizeTags
  /\ state' = [state EXCEPT ![getIndex(rseq)] = "EMPTY"]
  /\ result' = NoPacket
  /\ rpc' = "uncount"
  /\ UNCHANGED <<slotData, slotSeq, validPackets_, writerVars, rseq, outputBuffer>>

\* Mutant: whatever is in the slot is returned.
CopyOut_unchecked ==
  /\ rpc = "check"
  /\ slotData[getIndex(rseq)].tag \notin OversizeTags
  /\ outputBuffer' = slotData[getIndex(rseq)]
  /\ rpc' = "release"
  /\ UNCHANGED <<slotVars, validPackets_, writerVars, rseq, result>>

CopyOut ==
  /\ rpc = "check"
  /\ slotSeq[getIndex(rseq)] = rseq
  /\ slotData[getIndex(rseq)].tag \notin OversizeTags
  /\ outputBuffer' = slotData[getIndex(rseq)]
  /\ rpc' = "release"
  /\ UNCHANGED <<slotVars, validPackets_, writerVars, rseq, result>>

\* Mutant: the slot is given back as it was found, READY.
ReleaseSlot_ready ==
  /\ rpc = "release"
  /\ state' = [state EXCEPT ![getIndex(rseq)] = "READY"]
  /\ result' = outputBuffer
  /\ rpc' = "uncount"
  /\ UNCHANGED <<slotData, slotSeq, validPackets_, writerVars, rseq, outputBuffer>>

ReleaseSlot ==
  /\ rpc = "release"
  /\ state' = [state EXCEPT ![getIndex(rseq)] = "EMPTY"]
  /\ result' = outputBuffer
  /\ rpc' = "uncount"
  /\ UNCHANGED <<slotData, slotSeq, validPackets_, writerVars, rseq, outputBuffer>>

Uncount ==
  /\ rpc = "uncount"
  /\ validPackets_' = dec(validPackets_)
  /\ rpc' = "idle"
  /\ UNCHANGED <<slotVars, writerVars, rseq, outputBuffer, result>>

-----------------------------------------------------------------------------

\* reset(): called by RTPReceiver::start() before either thread exists.
Reset ==
  /\ wpc = "idle" /\ rpc = "idle"
  /\ state' = [i \in Slots |-> "EMPTY"]
  /\ validPackets_' = 0
  /\ UNCHANGED <<slotData, slotSeq, writerVars, readerVars>>

AddSteps == WriteData \/ WriteMeta \/ CountPacket \/ PublishSlot
GetSteps == DiscardSlot \/ CopyOut \/ ReleaseSlot \/ Uncount

JBNext ==
  \/ \E p \in Packets : ClaimSlot(p)
  \/ AddSteps
  \/ \E seq \in Seqs : TakeSlot(seq)
  \/ GetSteps
  \/ Reset

JBSpec == JBInit /\ [][JBNext]_jbVars

-----------------------------------------------------------------------------
(* Properties *)

SlotStates == {"EMPTY", "WRITING", "READY", "READING"}

\* Every variable has its type.
JBTypeOK ==
  /\ state \in [Slots -> SlotStates]
  /\ slotData \in [Slots -> Packets \cup {NoPacket}]
  /\ slotSeq \in [Slots -> Seqs]
  /\ validPackets_ \in 0..SizeMax
  /\ wpc \in {"idle", "data", "meta", "count", "publish"}
  /\ wpkt \in Packets \cup {NoPacket}
  /\ wpc # "idle" => wpkt \in Packets
  /\ rpc \in {"idle", "check", "release", "uncount"}
  /\ rseq \in Seqs
  /\ outputBuffer \in Packets \cup {NoPacket}
  /\ result \in Packets \cup {NoPacket}

\* Slots whose packet the reader has not given back.
Held == {i \in Slots : state[i] \in {"READY", "READING"}}

\* validPackets_ is the number of published packets, plus the one the writer
\* has counted and not yet published, plus the one the reader has released and
\* not yet uncounted.  In particular it is never decremented at zero, which is
\* what counting before publishing is there for.
CountExact ==
  validPackets_ = Cardinality(Held) + (IF wpc = "publish" THEN 1 ELSE 0)
                                    + (IF rpc = "uncount" THEN 1 ELSE 0)

\* A slot is WRITING exactly while the writer is in it and READING exactly
\* while the reader is in it, so the plain copies on the two sides never touch
\* the same slot.
ExclusiveAccess ==
  /\ \A i \in Slots : state[i] = "WRITING"
                        <=> wpc # "idle" /\ i = getIndex(wpkt.seq)
  /\ \A i \in Slots : state[i] = "READING"
                        <=> rpc \in {"check", "release"} /\ i = getIndex(rseq)

\* What is in a published slot is one whole packet that belongs in that slot.
WholePackets ==
  \A i \in Held : /\ slotData[i] \in Packets
                  /\ slotData[i].seq = slotSeq[i]
                  /\ getIndex(slotSeq[i]) = i

\* A call that returns a packet returns the one that was asked for.
AnswersRequest ==
  /\ rpc = "release" => outputBuffer \in Packets /\ outputBuffer.seq = rseq
  /\ result # NoPacket => result.tag \notin OversizeTags
  /\ rpc = "uncount" /\ result # NoPacket => result.seq = rseq

\* What addPacket() and getNextPacket() owe each other without a lock: one owner
\* per slot, whole packets, the packet asked for, and a count that is exact.
JBSafe == JBTypeOK /\ CountExact /\ ExclusiveAccess /\ WholePackets /\ AnswersRequest

\* The fine-grained buffer implements the atomic one: a packet appears at the
\* store of READY, and leaves at the store of EMPTY.
content == [i \in Slots |-> IF i \in Held THEN slotData[i] ELSE NoPacket]
Abstract == INSTANCE SlotBuffer
RefinesSlotBuffer == Abstract!Spec
=============================================================================
