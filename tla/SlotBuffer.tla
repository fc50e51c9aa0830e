----------------------------- MODULE SlotBuffer -----------------------------
(***************************************************************************)
(* What the jitter buffer promises its two threads: an array of slots, one *)
(* per residue of the sequence number, in which a packet appears whole in  *)
(* one step and from which the packet asked for, and only that one, is     *)
(* returned in one step.  A packet whose slot is taken is refused; asking  *)
(* for one sequence number while another sits in its slot empties the slot *)
(* and returns nothing.                                                    *)
(*                                                                         *)
(* JitterBuffer implements this specification.                             *)
(***************************************************************************)
EXTENDS Naturals

CONSTANTS BufferSize,    \* slots
          Seqs,          \* sequence numbers
          Tags,          \* what distinguishes two packets of one sequence number
          OversizeTags,  \* packets that do not fit the reader's buffer
          NoPacket       \* no packet: an empty slot, a call that returned nothing

VARIABLES content,       \* slot -> the packet in it, or NoPacket
          result         \* what the last call of the reader returned

vars == <<content, result>>

Packets == [seq : Seqs, tag : Tags]

Init ==
  /\ content = [i \in 0..(BufferSize - 1) |-> NoPacket]
  /\ result = NoPacket

Add(p) ==
  LET i == p.seq % BufferSize IN
  /\ content[i] = NoPacket
  /\ content' = [content EXCEPT ![i] = p]
  /\ UNCHANGED result

Get(seq) ==
  LET i == seq % BufferSize
      p == content[i] IN
  /\ content' = [content EXCEPT ![i] = NoPacket]
  /\ result' = IF p # NoPacket /\ p.seq = seq /\ p.tag \notin OversizeTags
               THEN p ELSE NoPacket

Clear ==
  /\ content' = [i \in 0..(BufferSize - 1) |-> NoPacket]
  /\ UNCHANGED result

Next ==
  \/ \E p \in Packets : Add(p)
  \/ \E seq \in Seqs : Get(seq)
  \/ Clear

Spec == Init /\ [][Next]_vars
=============================================================================
