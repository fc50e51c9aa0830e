---------------------------- MODULE ControlProofs ----------------------------
(***************************************************************************)
(* What controllers are told, proved: the tables of PTP clocks and of RTCP *)
(* reporters, the routing matrix of the manager, the driver's Connection   *)
(* API and the patchbay.                                                   *)
(*                                                                         *)
(* Both tables are one table, proved for any number of identities and any  *)
(* capacity.  That an answer is true is not inductive, because answers are *)
(* given seldom and the table changes with every message: between two      *)
(* answers the invariant says that a row's age is the time since its       *)
(* identity was heard, and that an identity without a row that is not yet  *)
(* too old was crowded out by as many others as there are rows, all heard  *)
(* since (Tells).                                                          *)
(*                                                                         *)
(* The patchbay is proved for any number of receivers: one pass over the   *)
(* activations that are due is a recursive function over the receivers, so *)
(* its theorem rests on an induction over their numbers (SetInduction), as *)
(* does the one about a packet of many report blocks.                      *)
(***************************************************************************)
EXTENDS Patchbay, DriverConnection, RoutingController, PeerObserver,
        ReceiverMonitor,
        FiniteSetTheorems, NaturalsInduction, WellFoundedInduction, TLAPS

\* Induction, for a set of numbers.
LEMMA SetInduction ==
  ASSUME NEW S, 0 \in S, \A k \in Nat : k \in S => k + 1 \in S
  PROVE  Nat \subseteq S
<1> SUFFICES ASSUME Nat \ S # {} PROVE FALSE
  OBVIOUS
<1> DEFINE Less == OpToRel(<, Nat)
<1>1. IsWellFoundedOn(Less, Nat)
  BY NatLessThanWellFounded
<1> HIDE DEF Less
<1>2. PICK x \in Nat \ S : \A y \in Nat \ S : ~(<<y, x>> \in Less)
  <2>1. Nat \ S \subseteq Nat
    OBVIOUS
  <2> QED BY <1>1, <2>1, WFMin
<1>3. \A y \in Nat \ S : ~(y < x)
  BY <1>2 DEF Less, OpToRel
<1>4. x # 0 /\ x - 1 \in Nat /\ x - 1 < x /\ (x - 1) + 1 = x
  OBVIOUS
<1> QED BY <1>3, <1>4

-----------------------------------------------------------------------------
(***************************************************************************)
(* The bounded, ageing table, of any identities and any capacity: heard is *)
(* the age of the last message of each identity.                           *)
(***************************************************************************)

\* Those that stand before id: the others heard no longer ago.
heardSince(heard, id) == {x \in DOMAIN heard \ {id} : heard[x] <= heard[id]}

\* A row is as old as the last message of its identity, and who has no row
\* although it was heard in time was crowded out.
Tells(rows, heard, Row, ids, timeout, capacity) ==
  /\ heard \in [ids -> Ages]
  /\ DOMAIN rows \subseteq ids /\ rows \in [DOMAIN rows -> Row]
  /\ \A id \in DOMAIN rows : rows[id].age = heard[id]
  /\ \A id \in ids : id \notin DOMAIN rows /\ heard[id] <= timeout
                       => Cardinality(heardSince(heard, id)) >= capacity
  /\ Cardinality(DOMAIN rows) <= capacity

\* Of what a row may be only the age matters here.
Ageing(Row) ==
  \A r \in Row, a \in Ages : [r EXCEPT !.age = a] \in Row /\ [r EXCEPT !.age = a].age = a

LEMMA AgesAre == 0 \in Ages /\ Old \in Ages /\ \A a \in Ages : a \in Nat /\ a <= Old
BY AgeAssumption DEF Ages

\* More identities before id is all that a crowded table may need.
LEMMA MoreHeard ==
  ASSUME NEW T, IsFiniteSet(T), NEW S \in SUBSET T, NEW capacity \in Nat,
         Cardinality(S) >= capacity
  PROVE  Cardinality(T) >= capacity
<1>1. Cardinality(S) <= Cardinality(T)
  BY FS_Subset
<1>2. Cardinality(S) \in Nat /\ Cardinality(T) \in Nat
  BY FS_Subset, FS_CardinalityType
<1> QED BY <1>1, <1>2

LEMMA EmptyTells ==
  ASSUME NEW ids, NEW Row, NEW capacity \in Nat, NEW timeout \in Nat, timeout < Old
  PROVE  Tells([id \in {} |-> 0], [id \in ids |-> Old], Row, ids, timeout, capacity)
<1>1. ~(Old <= timeout) /\ 0 <= capacity
  BY AgeAssumption
<1>2. DOMAIN [id \in {} |-> 0] = {}
  OBVIOUS
<1> QED BY <1>1, <1>2, FS_EmptySet, AgesAre DEF Tells

\* record(): who is heard gets a row, for which the one heard longest ago may go.
LEMMA RowWritten ==
  ASSUME NEW ids, IsFiniteSet(ids), NEW Row, NEW capacity \in Nat \ {0}, NEW timeout \in Nat,
         NEW rows, NEW heard, Tells(rows, heard, Row, ids, timeout, capacity),
         NEW c \in ids, NEW room \in roomFor(rows, c, capacity), NEW row \in Row, row.age = 0
  PROVE  Tells(put(room, c, row), [heard EXCEPT ![c] = 0], Row, ids, timeout, capacity)
<1> DEFINE after == put(room, c, row)
           heardNow == [heard EXCEPT ![c] = 0]
<1>1. /\ heard \in [ids -> Ages] /\ DOMAIN rows \subseteq ids /\ rows \in [DOMAIN rows -> Row]
      /\ \A id \in DOMAIN rows : rows[id].age = heard[id]
      /\ IsFiniteSet(DOMAIN rows)
  BY FS_Subset DEF Tells
<1>2. /\ heardNow \in [ids -> Ages] /\ heardNow[c] = 0
      /\ \A x \in ids \ {c} : heardNow[x] = heard[x]
      /\ \A x \in ids : heardNow[x] <= heard[x] /\ heardNow[x] \in Nat /\ heard[x] \in Nat
  BY <1>1, AgesAre
<1> HIDE DEF heardNow
\* What is true of the table the row is written to, however room was made.
<1>3. /\ DOMAIN room \subseteq DOMAIN rows /\ \A x \in DOMAIN room : room[x] = rows[x]
      /\ room \in [DOMAIN room -> Row]
      /\ c \in DOMAIN rows => DOMAIN room = DOMAIN rows
      /\ c \notin DOMAIN rows => Cardinality(DOMAIN room) + 1 <= capacity
      /\ \A x \in DOMAIN rows \ DOMAIN room :
           /\ c \notin DOMAIN rows /\ DOMAIN room = DOMAIN rows \ {x}
           /\ Cardinality(DOMAIN rows) >= capacity
           /\ \A y \in DOMAIN rows : rows[y].age <= rows[x].age
  <2>1. PICK k \in Nat : k = Cardinality(DOMAIN rows)
    BY <1>1, FS_CardinalityType
  <2>2. k <= capacity
    BY <2>1 DEF Tells
  <2>3. CASE c \notin DOMAIN rows /\ k >= capacity
    <3>1. PICK oldest \in leastRecentlySeen(rows) : room = rowsWithout(rows, {oldest})
      BY <2>1, <2>3 DEF roomFor
    <3>2. oldest \in DOMAIN rows /\ \A y \in DOMAIN rows : rows[y].age <= rows[oldest].age
      BY DEF leastRecentlySeen
    <3>3. DOMAIN room = DOMAIN rows \ {oldest} /\ \A x \in DOMAIN room : room[x] = rows[x]
      BY <3>1 DEF rowsWithout
    <3>4. room \in [DOMAIN room -> Row]
      BY <1>1, <3>1, <3>3 DEF rowsWithout
    <3>5. Cardinality(DOMAIN room) = k - 1
      BY <1>1, <2>1, <3>2, <3>3, FS_RemoveElement
    <3>6. (k - 1) + 1 <= capacity
      BY <2>2
    <3> QED BY <2>1, <2>3, <3>2, <3>3, <3>4, <3>5, <3>6
  <2>4. CASE ~(c \notin DOMAIN rows /\ k >= capacity)
    <3>1. room = rows
      BY <2>1, <2>4 DEF roomFor
    <3>2. c \notin DOMAIN rows => k + 1 <= capacity
      BY <2>4
    <3> QED BY <1>1, <2>1, <3>1, <3>2
  <2> QED BY <2>3, <2>4
<1>4. /\ DOMAIN after = DOMAIN room \cup {c}
      /\ \A x \in DOMAIN room \ {c} : after[x] = rows[x]
      /\ after[c] = row /\ after \in [DOMAIN after -> Row]
  BY <1>3 DEF put
<1> HIDE DEF after
<1>5. DOMAIN after \subseteq ids /\ \A id \in DOMAIN after : after[id].age = heardNow[id]
  BY <1>1, <1>2, <1>3, <1>4
<1>6. Cardinality(DOMAIN after) <= capacity
  <2>1. CASE c \in DOMAIN rows
    BY <1>3, <1>4, <2>1 DEF Tells
  <2>2. CASE c \notin DOMAIN rows
    <3>1. c \notin DOMAIN room /\ IsFiniteSet(DOMAIN room)
      BY <1>1, <1>3, <2>2, FS_Subset
    <3>2. Cardinality(DOMAIN after) = Cardinality(DOMAIN room) + 1
      BY <1>4, <3>1, FS_AddElement
    <3> QED BY <1>3, <2>2, <3>2
  <2> QED BY <2>1, <2>2
<1>7. ASSUME NEW x \in ids, x \notin DOMAIN after, heardNow[x] <= timeout
      PROVE  Cardinality(heardSince(heardNow, x)) >= capacity
  <2>1. x # c /\ heardNow[x] = heard[x] /\ x \notin DOMAIN room
    BY <1>2, <1>4, <1>7
  <2>2. DOMAIN heardNow = ids /\ DOMAIN heard = ids
    BY <1>1, <1>2
  <2>3. IsFiniteSet(heardSince(heardNow, x))
    BY <2>2, FS_Subset DEF heardSince
  <2>4. CASE x \notin DOMAIN rows
    <3>1. Cardinality(heardSince(heard, x)) >= capacity
      BY <1>7, <2>1, <2>4 DEF Tells
    <3>2. heardSince(heard, x) \subseteq heardSince(heardNow, x)
      <4> SUFFICES ASSUME NEW y \in ids \ {x}, heard[y] <= heard[x]
                   PROVE  heardNow[y] <= heardNow[x]
        BY <2>2 DEF heardSince
      <4>1. /\ heardNow[y] <= heard[y] /\ heardNow[x] = heard[x]
            /\ heardNow[y] \in Nat /\ heard[y] \in Nat /\ heard[x] \in Nat
        BY <1>2, <2>1
      <4> QED BY <4>1
    <3> QED BY <2>3, <3>1, <3>2, MoreHeard
  <2>5. CASE x \in DOMAIN rows
    <3>1. /\ c \notin DOMAIN rows /\ DOMAIN room = DOMAIN rows \ {x}
          /\ Cardinality(DOMAIN rows) >= capacity
          /\ \A y \in DOMAIN rows : heard[y] <= heard[x]
      BY <1>1, <1>3, <2>1, <2>5
    <3>2. (DOMAIN rows \ {x}) \cup {c} \subseteq heardSince(heardNow, x)
      <4>1. \A y \in DOMAIN rows \ {x} : heardNow[y] = heard[y] /\ y \in ids \ {x}
        BY <1>1, <1>2, <3>1
      <4>2. heardNow[c] <= heardNow[x]
        BY <1>2
      <4> QED BY <2>1, <2>2, <3>1, <4>1, <4>2 DEF heardSince
    <3>3. PICK k \in Nat : k = Cardinality(DOMAIN rows)
      BY <1>1, FS_CardinalityType
    <3>4. Cardinality(DOMAIN rows \ {x}) = k - 1 /\ IsFiniteSet(DOMAIN rows \ {x})
      BY <1>1, <2>5, <3>3, FS_RemoveElement
    <3>5. Cardinality((DOMAIN rows \ {x}) \cup {c}) = (k - 1) + 1
      <4>1. PICK rest : rest = DOMAIN rows \ {x}
        OBVIOUS
      <4>2. IsFiniteSet(rest) /\ c \notin rest /\ Cardinality(rest) = k - 1
        BY <3>1, <3>4, <4>1
      <4>3. Cardinality(rest \cup {c}) = Cardinality(rest) + 1
        BY <4>2, FS_AddElement
      <4> QED BY <4>1, <4>2, <4>3
    <3>6. (k - 1) + 1 >= capacity
      BY <3>1, <3>3
    <3> QED BY <2>3, <3>2, <3>5, <3>6, MoreHeard
  <2> QED BY <2>4, <2>5
<1> QED BY <1>2, <1>4, <1>5, <1>6, <1>7 DEF Tells, after, heardNow

\* Time passes for the rows and for the identities alike.
LEMMA RowsAge ==
  ASSUME NEW ids, IsFiniteSet(ids), NEW Row, Ageing(Row), NEW capacity \in Nat,
         NEW timeout \in Nat, timeout < Old,
         NEW rows, NEW heard, Tells(rows, heard, Row, ids, timeout, capacity)
  PROVE  Tells(aged(rows), [id \in ids |-> grownOlder(heard[id])], Row, ids, timeout, capacity)
<1> DEFINE after == aged(rows)
           heardNow == [id \in ids |-> grownOlder(heard[id])]
<1>1. \A a \in Ages : a \in Nat /\ a <= Old /\ grownOlder(a) \in Ages
                      /\ (a < Old => grownOlder(a) = a + 1) /\ a <= grownOlder(a)
  BY AgeAssumption DEF Ages, grownOlder
<1>2. /\ heard \in [ids -> Ages] /\ DOMAIN rows \subseteq ids /\ rows \in [DOMAIN rows -> Row]
      /\ \A id \in DOMAIN rows : rows[id].age = heard[id]
  BY DEF Tells
<1>3. heardNow \in [ids -> Ages] /\ \A id \in ids : heardNow[id] = grownOlder(heard[id])
  BY <1>1, <1>2
<1>4. /\ DOMAIN after = DOMAIN rows
      /\ \A id \in DOMAIN rows : after[id] = [rows[id] EXCEPT !.age = grownOlder(rows[id].age)]
  BY DEF aged
<1>5. \A id \in DOMAIN rows : after[id] \in Row /\ after[id].age = heardNow[id]
  <2> SUFFICES ASSUME NEW id \in DOMAIN rows
               PROVE  after[id] \in Row /\ after[id].age = heardNow[id]
    OBVIOUS
  <2>1. PICK r \in Row : r = rows[id]
    BY <1>2
  <2>2. heard[id] \in Ages /\ r.age = heard[id] /\ id \in ids
    BY <1>2, <2>1
  <2>3. PICK a \in Ages : a = grownOlder(r.age)
    BY <1>1, <2>2
  <2>4. after[id] = [r EXCEPT !.age = a] /\ heardNow[id] = a
    BY <1>3, <1>4, <2>1, <2>2, <2>3
  <2>5. [r EXCEPT !.age = a] \in Row /\ [r EXCEPT !.age = a].age = a
    BY DEF Ageing
  <2> QED BY <2>4, <2>5
<1>6. after \in [DOMAIN after -> Row]
  BY <1>4, <1>5 DEF aged
<1> HIDE DEF after, heardNow
<1>7. ASSUME NEW x \in ids, x \notin DOMAIN rows, heardNow[x] <= timeout
      PROVE  Cardinality(heardSince(heardNow, x)) >= capacity
  <2>1. PICK b \in Ages : b = heard[x] /\ heardNow[x] = grownOlder(b)
    BY <1>2, <1>3
  <2>2. grownOlder(b) <= timeout
    BY <1>7, <2>1
  <2>3. b < Old /\ grownOlder(b) = b + 1 /\ b <= timeout
    BY <1>1, <2>2, AgeAssumption DEF Ages, grownOlder
  <2>4. DOMAIN heardNow = ids /\ DOMAIN heard = ids
    BY <1>2, <1>3
  <2>5. heardSince(heard, x) \subseteq heardSince(heardNow, x)
    <3> SUFFICES ASSUME NEW y \in ids \ {x}, heard[y] <= heard[x]
                 PROVE  heardNow[y] <= heardNow[x]
      BY <2>4 DEF heardSince
    <3>1. PICK a \in Ages : a = heard[y] /\ heardNow[y] = grownOlder(a)
      BY <1>2, <1>3
    <3> QED BY <1>1, <2>1, <2>3, <3>1, AgeAssumption DEF Ages
  <2>6. Cardinality(heardSince(heard, x)) >= capacity
    BY <1>7, <2>1, <2>3 DEF Tells
  <2>7. IsFiniteSet(heardSince(heardNow, x))
    BY <2>4, FS_Subset DEF heardSince
  <2> QED BY <2>5, <2>6, <2>7, MoreHeard
<1> QED BY <1>2, <1>3, <1>4, <1>5, <1>6, <1>7 DEF Tells, after, heardNow

\* A question sweeps what is too old, and only that; what is left is the truth.
LEMMA RowsSwept ==
  ASSUME NEW ids, IsFiniteSet(ids), NEW Row, NEW capacity \in Nat, NEW timeout \in Nat,
         NEW rows, NEW heard, Tells(rows, heard, Row, ids, timeout, capacity)
  PROVE  LET after == sweep(rows, timeout)
         IN  /\ Tells(after, heard, Row, ids, timeout, capacity)
             /\ AnswersTruly(DOMAIN after, heard, timeout, capacity)
             /\ Cardinality(DOMAIN after) <= capacity
<1> DEFINE after == sweep(rows, timeout)
<1>1. /\ heard \in [ids -> Ages] /\ DOMAIN rows \subseteq ids /\ rows \in [DOMAIN rows -> Row]
      /\ \A id \in DOMAIN rows : rows[id].age = heard[id]
  BY DEF Tells
<1>2. /\ DOMAIN after = {id \in DOMAIN rows : ~(rows[id].age > timeout)}
      /\ \A id \in DOMAIN after : after[id] = rows[id]
      /\ after \in [DOMAIN after -> Row]
  BY <1>1 DEF sweep, rowsWithout
<1> HIDE DEF after
<1>3. \A id \in DOMAIN rows : heard[id] \in Nat
  BY <1>1, AgesAre
<1>4. \A id \in ids : id \notin DOMAIN after /\ heard[id] <= timeout => id \notin DOMAIN rows
  BY <1>1, <1>2, <1>3
<1>5. \A id \in ids : id \notin DOMAIN after /\ heard[id] <= timeout
                         => Cardinality(heardSince(heard, id)) >= capacity
  BY <1>4 DEF Tells
<1>6. Cardinality(DOMAIN after) <= capacity
  <2>1. IsFiniteSet(DOMAIN rows) /\ DOMAIN after \subseteq DOMAIN rows
    BY <1>1, <1>2, FS_Subset
  <2>2. PICK j \in Nat : j = Cardinality(DOMAIN after)
    BY <2>1, FS_Subset, FS_CardinalityType
  <2>3. PICK k \in Nat : k = Cardinality(DOMAIN rows)
    BY <2>1, FS_CardinalityType
  <2>4. j <= k
    BY <2>1, <2>2, <2>3, FS_Subset
  <2> QED BY <2>2, <2>3, <2>4 DEF Tells
<1>7. Tells(after, heard, Row, ids, timeout, capacity)
  BY <1>1, <1>2, <1>5, <1>6 DEF Tells
<1>8. AnswersTruly(DOMAIN after, heard, timeout, capacity)
  <2>1. DOMAIN heard = ids
    BY <1>1
  <2>2. \A id \in ids : id \in DOMAIN after => heard[id] <= timeout
    BY <1>1, <1>2, <1>3
  <2> QED BY <1>5, <2>1, <2>2 DEF AnswersTruly, heardSince
<1> QED BY <1>6, <1>7, <1>8 DEF after

-----------------------------------------------------------------------------
(* The observer of PTP clocks *)

PeerTypes == {"Sync", "DelayReq", "Short", "Announce"}
PeerRow == [types : SUBSET PeerTypes, age : Ages]

PeersTell == Tells(peers, peersHeard, PeerRow, Clocks, PeerTimeout, MaxPeers)

PeerInv ==
  /\ arrived \in [Ports -> SUBSET [clock : Clocks, type : PeerTypes]]
  /\ PeersTell /\ PeersShownTruly

LEMMA PeerRowAges == Ageing(PeerRow)
BY DEF Ageing, PeerRow

LEMMA InitPeerInv == PeerInit => PeerInv
<1> SUFFICES ASSUME PeerInit PROVE PeerInv
  OBVIOUS
<1>1. PeersTell
  BY EmptyTells, PeerAssumption DEF PeerInit, PeersTell
<1> QED BY <1>1 DEF PeerInit, PeerInv, PeersShownTruly

LEMMA RecordKeeps ==
  ASSUME PeersTell, NEW m \in [clock : Clocks, type : PeerTypes], recordPeer(m),
         m.type # "Short"
  PROVE  PeersTell'
<1>1. PICK rows \in roomFor(peers, m.clock, MaxPeers) :
         peers' = put(rows, m.clock,
                      [types |-> {m.type} \cup
                                 (IF m.clock \in DOMAIN rows THEN rows[m.clock].types ELSE {}),
                       age |-> 0])
  BY DEF recordPeer
<1>2. m.clock \in Clocks /\ m.type \in PeerTypes
  OBVIOUS
<1>3. \A x \in DOMAIN rows : x \in DOMAIN peers /\ rows[x] = peers[x] /\ peers[x] \in PeerRow
  BY DEF roomFor, rowsWithout, leastRecentlySeen, PeersTell, Tells
<1>4. (IF m.clock \in DOMAIN rows THEN rows[m.clock].types ELSE {}) \in SUBSET PeerTypes
  BY <1>3 DEF PeerRow
<1>5. PICK row \in PeerRow : row.age = 0 /\ peers' = put(rows, m.clock, row)
  BY <1>1, <1>2, <1>4, AgesAre DEF PeerRow
<1>6. peersHeard' = [peersHeard EXCEPT ![m.clock] = 0]
  BY DEF recordPeer
<1> QED BY <1>2, <1>5, <1>6, RowWritten, PeerAssumption DEF PeersTell

LEMMA NextKeepsPeerInv == PeerInv /\ [PeerNext]_peerVars => PeerInv'
<1> SUFFICES ASSUME PeerInv, [PeerNext]_peerVars PROVE PeerInv'
  OBVIOUS
<1> DEFINE Messages == [clock : Clocks, type : PeerTypes]
\* What touches neither the table nor the clocks.
<1>1. ASSUME UNCHANGED <<peers, peersHeard>>, arrived' \in [Ports -> SUBSET Messages],
             peersShown' = {} \/ peersShown' = peersShown
      PROVE  PeerInv'
  BY <1>1 DEF PeerInv, PeersTell, PeersShownTruly
<1>2. CASE UNCHANGED peerVars
  BY <1>1, <1>2 DEF peerVars, PeerInv
<1>3. CASE startObserver \/ joinObserver
  <2>1. arrived' \in [Ports -> SUBSET Messages]
    BY <1>3 DEF startObserver, joinObserver
  <2> QED BY <1>1, <1>3, <2>1 DEF startObserver, joinObserver
<1>4. CASE stopObserver \/ watcherEnds
  BY <1>1, <1>4 DEF stopObserver, watcherEnds, PeerInv
<1>5. ASSUME NEW port \in Ports, NEW clock \in Clocks, NEW type \in TypesOn(port),
             Datagram(port, clock, type)
      PROVE  PeerInv'
  <2>1. type \in PeerTypes
    BY DEF TypesOn, PeerTypes
  <2>2. arrived' \in [Ports -> SUBSET Messages]
    BY <1>5, <2>1 DEF Datagram, PeerInv
  <2> QED BY <1>1, <1>5, <2>2 DEF Datagram
<1>6. ASSUME NEW port \in Ports, readPort(port) PROVE PeerInv'
  <2>1. arrived' \in [Ports -> SUBSET Messages]
    BY <1>6 DEF readPort, PeerInv
  <2>2. PICK m \in arrived[port] : recordPeer(m)
    BY <1>6 DEF readPort
  <2>3. m \in Messages
    BY <2>2 DEF PeerInv
  <2>4. CASE m.type = "Short"
    BY <1>1, <1>6, <2>1, <2>2, <2>4 DEF readPort, recordPeer
  <2>5. CASE m.type # "Short"
    BY <1>6, <2>1, <2>2, <2>3, <2>5, RecordKeeps DEF readPort, PeerInv, PeersShownTruly
  <2> QED BY <2>4, <2>5
<1>7. CASE askPeers
  <2>1. /\ peers' = sweep(peers, PeerTimeout) /\ UNCHANGED <<arrived, peersHeard>>
        /\ \A answer \in peersShown' : DOMAIN answer = DOMAIN peers'
    BY <1>7 DEF askPeers
  <2>2. /\ Tells(peers', peersHeard, PeerRow, Clocks, PeerTimeout, MaxPeers)
        /\ AnswersTruly(DOMAIN peers', peersHeard, PeerTimeout, MaxPeers)
        /\ Cardinality(DOMAIN peers') <= MaxPeers
    BY <2>1, RowsSwept, PeerAssumption DEF PeerInv, PeersTell
  <2> QED BY <2>1, <2>2 DEF PeerInv, PeersTell, PeersShownTruly
<1>8. CASE PeerTick
  BY <1>8, RowsAge, PeerRowAges, PeerAssumption DEF PeerTick, PeerInv, PeersTell, PeersShownTruly
<1> QED BY <1>2, <1>3, <1>4, <1>5, <1>6, <1>7, <1>8 DEF PeerNext

\* What peers() answers is true whenever it is asked: nobody silent for longer
\* than kPeerTimeout, and nobody heard since left out unless the table was full of
\* clocks heard no longer ago (PTPPeerTable.cpp), for any traffic and capacity.
THEOREM PeersAlwaysShownTruly == PeerSpec => []PeersShownTruly
<1>1. PeerInit => PeerInv
  BY InitPeerInv
<1>2. PeerInv /\ [PeerNext]_peerVars => PeerInv'
  BY NextKeepsPeerInv
<1>3. PeerInv => PeersShownTruly
  BY DEF PeerInv
<1> QED BY <1>1, <1>2, <1>3, PTL DEF PeerSpec

-----------------------------------------------------------------------------
(* The monitor of our receivers *)

ReporterRow == [named : BOOLEAN, age : Ages]

\* The table after some reports, with what has then been heard.
ReportersTell(rows, heard) ==
  Tells(rows, heard, ReporterRow, Ssrcs, ReporterTimeout, MaxReporters)

MonitorInv == ReportersTell(reporters, reportersHeard) /\ ReportersShownTruly

\* What has been heard once the first n blocks of a packet are filed.
heardOf(packet, n) ==
  [s \in Ssrcs |-> IF \E i \in reports(packet) : i <= n /\ packet[i].ssrc = s
                   THEN 0 ELSE reportersHeard[s]]

LEMMA ReporterRowAges == Ageing(ReporterRow)
<1> SUFFICES ASSUME NEW r \in ReporterRow, NEW a \in Ages
             PROVE  [r EXCEPT !.age = a] \in ReporterRow /\ [r EXCEPT !.age = a].age = a
  BY DEF Ageing
<1>1. [r EXCEPT !.age = a] = [named |-> r.named, age |-> a]
  BY DEF ReporterRow
<1> QED BY <1>1 DEF ReporterRow

LEMMA InitMonitorInv == MonitorInit => MonitorInv
<1> SUFFICES ASSUME MonitorInit PROVE MonitorInv
  OBVIOUS
<1>1. ReportersTell(reporters, reportersHeard)
  BY EmptyTells, MonitorAssumption DEF MonitorInit, ReportersTell
<1> QED BY <1>1 DEF MonitorInit, MonitorInv, ReportersShownTruly

\* The packets are sequences whose blocks name reporters there may be.
LEMMA PacketsOfReports ==
  ASSUME NEW packet \in Packets
  PROVE  /\ Len(packet) \in Nat /\ DOMAIN packet = 1..Len(packet)
         /\ \A i \in 1..Len(packet) : packet[i].ssrc \in Ssrcs
BY DEF Packets, Block

LEMMA ReportFiled ==
  ASSUME NEW rows, NEW heard, ReportersTell(rows, heard), NEW ssrc \in Ssrcs,
         NEW named, NEW after \in recordReporter(rows, ssrc, named)
  PROVE  ReportersTell(after, [heard EXCEPT ![ssrc] = 0])
<1>1. PICK room \in roomFor(rows, ssrc, MaxReporters) :
         after = put(room, ssrc, [named |-> named \/ (ssrc \in DOMAIN room /\ room[ssrc].named),
                                  age |-> 0])
  BY DEF recordReporter
<1>2. PICK flag \in BOOLEAN : flag = (named \/ (ssrc \in DOMAIN room /\ room[ssrc].named))
  OBVIOUS
<1>3. after = put(room, ssrc, [named |-> flag, age |-> 0])
  BY <1>1, <1>2
<1>4. PICK row \in ReporterRow : row.age = 0 /\ after = put(room, ssrc, row)
  BY <1>3, AgesAre DEF ReporterRow
<1> QED BY <1>4, RowWritten, MonitorAssumption DEF ReportersTell

\* Every report of a packet in turn: an induction over its blocks.
LEMMA PacketFiled ==
  ASSUME MonitorInv, NEW packet \in Packets, NEW after \in deliverPacket(packet)
  PROVE  ReportersTell(after, [s \in Ssrcs |-> IF s \in reporterSSRCs(packet)
                                              THEN 0 ELSE reportersHeard[s]])
<1>1. PICK N \in Nat : N = Len(packet)
  BY PacketsOfReports
<1>2. reports(packet) \subseteq 1..N /\ \A i \in reports(packet) : packet[i].ssrc \in Ssrcs
  BY <1>1, PacketsOfReports DEF reports, readableBlocks
<1> DEFINE filedInto(tables, n) ==
             UNION {recordReporter(rows, packet[n].ssrc, packet[n].ssrc \in cnames(packet))
                       : rows \in tables}
           Steps(f) == [n \in 0..N |-> IF n = 0 THEN {reporters}
                                       ELSE IF n \notin reports(packet) THEN f[n - 1]
                                       ELSE filedInto(f[n - 1], n)]
           recorded == CHOOSE f : f = Steps(f)
<1>3. after \in recorded[N]
  BY <1>1 DEF deliverPacket
<1> HIDE DEF filedInto
\* The recursion is well defined, by induction on how far it has come.
<1>4. \E f : f = Steps(f)
  <2> DEFINE Upto(f, k) == \A n \in 0..k : f[n] = IF n = 0 THEN {reporters}
                                                 ELSE IF n \notin reports(packet) THEN f[n - 1]
                                                 ELSE filedInto(f[n - 1], n)
             S == {k \in Nat : \E f : Upto(f, k)}
  <2>1. 0 \in S
    <3> DEFINE f == [n \in 0..0 |-> {reporters}]
    <3>1. 0..0 = {0} /\ f[0] = {reporters}
      OBVIOUS
    <3> HIDE DEF f
    <3>2. Upto(f, 0)
      BY <3>1
    <3> HIDE DEF Upto
    <3> QED BY <3>2
  <2>2. \A k \in Nat : k \in S => k + 1 \in S
    <3> HIDE DEF Upto
    <3> SUFFICES ASSUME NEW k \in Nat, NEW f, Upto(f, k) PROVE \E g : Upto(g, k + 1)
      OBVIOUS
    <3> USE DEF Upto
    <3> DEFINE last == IF k + 1 \notin reports(packet) THEN f[k] ELSE filedInto(f[k], k + 1)
               g == [n \in 0..(k + 1) |-> IF n = k + 1 THEN last ELSE f[n]]
    <3>1. ASSUME NEW n \in 0..(k + 1)
          PROVE  g[n] = IF n = 0 THEN {reporters}
                        ELSE IF n \notin reports(packet) THEN g[n - 1]
                        ELSE filedInto(g[n - 1], n)
      <4>1. CASE n = k + 1
        <5>1. g[n] = last /\ g[n - 1] = f[k] /\ n # 0 /\ n - 1 = k
          BY <4>1
        <5> QED BY <4>1, <5>1
      <4>2. CASE n # k + 1
        <5>1. n \in 0..k /\ g[n] = f[n]
          BY <4>2
        <5>2. n # 0 => n - 1 \in 0..(k + 1) /\ n - 1 # k + 1
          BY <5>1
        <5>3. n # 0 => g[n - 1] = f[n - 1]
          BY <5>2
        <5> HIDE DEF g
        <5> QED BY <5>1, <5>3
      <4> QED BY <4>1, <4>2
    <3> QED BY <3>1
  <2> HIDE DEF S
  <2>3. N \in S
    BY <2>1, <2>2, SetInduction
  <2>4. PICK f : Upto(f, N)
    BY <2>3 DEF S
  <2> DEFINE g == [n \in 0..N |-> f[n]]
  <2>5. g = Steps(g)
    <3>1. ASSUME NEW n \in 0..N
          PROVE  f[n] = IF n = 0 THEN {reporters}
                        ELSE IF n \notin reports(packet) THEN g[n - 1]
                        ELSE filedInto(g[n - 1], n)
      <4>1. n # 0 => n - 1 \in 0..N
        OBVIOUS
      <4>2. n # 0 => g[n - 1] = f[n - 1]
        BY <4>1
      <4> HIDE DEF g
      <4> QED BY <2>4, <4>2
    <3> QED BY <3>1
  <2> QED BY <2>5
<1>5. recorded = Steps(recorded)
  BY <1>4
<1> HIDE DEF recorded
<1> DEFINE Good(k) == \A rows \in recorded[k] : ReportersTell(rows, heardOf(packet, k))
           G == {k \in Nat : k <= N => Good(k)}
<1>6. reportersHeard \in [Ssrcs -> Ages] /\ ReportersTell(reporters, reportersHeard)
  BY DEF MonitorInv, ReportersTell, Tells
<1>7. 0 \in G
  <2>1. recorded[0] = {reporters}
    BY <1>5
  <2>2. heardOf(packet, 0) = reportersHeard
    <3>1. ~ \E i \in reports(packet) : i <= 0
      BY <1>2
    <3> QED BY <1>6, <3>1 DEF heardOf
  <2> QED BY <1>6, <2>1, <2>2
<1>8. \A k \in Nat : k \in G => k + 1 \in G
  <2> SUFFICES ASSUME NEW k \in Nat, Good(k), k + 1 <= N PROVE Good(k + 1)
    OBVIOUS
  <2>1. recorded[k + 1] = IF k + 1 \notin reports(packet) THEN recorded[k]
                          ELSE filedInto(recorded[k], k + 1)
    <3>1. k + 1 \in 0..N /\ k + 1 # 0 /\ (k + 1) - 1 = k
      OBVIOUS
    <3> QED BY <1>5, <3>1
  <2>2. \A i \in reports(packet) : i <= k + 1 <=> (i <= k \/ i = k + 1)
    BY <1>2
  <2>3. CASE k + 1 \notin reports(packet)
    <3>1. \A i \in reports(packet) : i <= k + 1 <=> i <= k
      BY <2>2, <2>3
    <3>2. heardOf(packet, k + 1) = heardOf(packet, k)
      BY <3>1 DEF heardOf
    <3> QED BY <2>1, <2>3, <3>2
  <2>4. CASE k + 1 \in reports(packet)
    <3> DEFINE ssrc == packet[k + 1].ssrc
    <3>1. ssrc \in Ssrcs
      BY <1>2, <2>4
    <3>2. heardOf(packet, k + 1) = [heardOf(packet, k) EXCEPT ![ssrc] = 0]
      BY <2>2, <2>4, <3>1 DEF heardOf
    <3>3. \A rows \in recorded[k] :
             \A filed \in recordReporter(rows, ssrc, ssrc \in cnames(packet)) :
               ReportersTell(filed, [heardOf(packet, k) EXCEPT ![ssrc] = 0])
      <4> HIDE DEF ssrc
      <4> QED BY <3>1, ReportFiled
    <3>4. \A filed \in recorded[k + 1] :
             \E rows \in recorded[k] : filed \in recordReporter(rows, ssrc, ssrc \in cnames(packet))
      BY <2>1, <2>4 DEF filedInto
    <3> QED BY <3>2, <3>3, <3>4
  <2> QED BY <2>3, <2>4
<1> HIDE DEF G
<1>9. N \in G
  BY <1>7, <1>8, SetInduction
<1>10. heardOf(packet, N) = [s \in Ssrcs |-> IF s \in reporterSSRCs(packet)
                                            THEN 0 ELSE reportersHeard[s]]
  <2>1. \A i \in reports(packet) : i <= N
    BY <1>2
  <2> QED BY <2>1 DEF heardOf, reporterSSRCs
<1> QED BY <1>3, <1>9, <1>10 DEF G

LEMMA NextKeepsMonitorInv == MonitorInv /\ [MonitorNext]_monitorVars => MonitorInv'
<1> SUFFICES ASSUME MonitorInv, [MonitorNext]_monitorVars PROVE MonitorInv'
  OBVIOUS
\* What touches neither the table nor what was heard.
<1>1. ASSUME UNCHANGED <<reporters, reportersHeard>>,
             reportersShown' = {} \/ reportersShown' = reportersShown
      PROVE  MonitorInv'
  BY <1>1 DEF MonitorInv, ReportersTell, ReportersShownTruly
<1>2. CASE UNCHANGED monitorVars
  BY <1>1, <1>2 DEF monitorVars
<1>3. CASE startMonitor \/ stopMonitor \/ joinMonitor \/ monitorEnds
  BY <1>1, <1>3 DEF startMonitor, stopMonitor, joinMonitor, monitorEnds
<1>4. CASE StreamChanges \/ InterfaceFlaps
  BY <1>1, <1>4 DEF StreamChanges, InterfaceFlaps
<1>5. CASE monitorPass
  <2>1. reportersShown' = {} /\ afterSelect
    BY <1>5 DEF monitorPass
  <2>2. CASE UNCHANGED <<reporters, reportersHeard>>
    BY <1>1, <2>1, <2>2
  <2>3. ASSUME NEW packet \in Packets, reporters' \in deliverPacket(packet),
               reportersHeard' = [s \in Ssrcs |-> IF s \in reporterSSRCs(packet)
                                                  THEN 0 ELSE reportersHeard[s]]
        PROVE  MonitorInv'
    <3>1. ReportersTell(reporters', reportersHeard')
      BY <2>3, PacketFiled
    <3> QED BY <2>1, <3>1 DEF MonitorInv, ReportersShownTruly
  <2> QED BY <2>1, <2>2, <2>3 DEF afterSelect
<1>6. CASE askReporters
  <2>1. /\ reporters' = sweep(reporters, ReporterTimeout) /\ UNCHANGED reportersHeard
        /\ reportersShown' = {DOMAIN reporters'}
    BY <1>6 DEF askReporters
  <2>2. /\ ReportersTell(reporters', reportersHeard)
        /\ AnswersTruly(DOMAIN reporters', reportersHeard, ReporterTimeout, MaxReporters)
        /\ Cardinality(DOMAIN reporters') <= MaxReporters
    BY <2>1, RowsSwept, MonitorAssumption DEF MonitorInv, ReportersTell
  <2> QED BY <2>1, <2>2 DEF MonitorInv, ReportersShownTruly
<1>7. CASE MonitorTick
  BY <1>7, RowsAge, ReporterRowAges, MonitorAssumption
  DEF MonitorTick, MonitorInv, ReportersTell, ReportersShownTruly
<1> QED BY <1>2, <1>3, <1>4, <1>5, <1>6, <1>7 DEF MonitorNext

\* What reporters() answers is true whenever it is asked: nobody silent for longer
\* than kReporterTimeout, and nobody heard since left out unless the table was full
\* of receivers heard no longer ago (RTCPReceiverTable), whatever compound packets
\* were filed and for any capacity.
THEOREM ReportersAlwaysShownTruly == MonitorSpec => []ReportersShownTruly
<1>1. MonitorInv => ReportersShownTruly
  BY DEF MonitorInv
<1> QED BY <1>1, InitMonitorInv, NextKeepsMonitorInv, PTL DEF MonitorSpec

-----------------------------------------------------------------------------
(***************************************************************************)
(* The routing matrix.  That the matrix is right once everything is quiet  *)
(* needs to be said of the moments before: a device changes only under a   *)
(* task, and what a pass has read of it is still true unless the pass is   *)
(* to be run again or a move has stopped one sender and not yet started    *)
(* the other (Halfway), which ends in a refresh as well.                   *)
(***************************************************************************)

\* What was read of a node, whole, is what the node has.
Fresh(n, shown) ==
  shown.reachable /\ shown.whole => shown.takes = takes[n] /\ shown.atSink = (n \in atSink)

\* A move between its two PATCHes.
Halfway == \E t \in tasks : t.pc = "send"

\* Records that are changed field by field are records.
TaskFields == {"kind", "node", "arg", "pc", "number"}
ControllerShapes ==
  /\ \A t \in tasks : DOMAIN t = TaskFields /\ t = [f \in TaskFields |-> t[f]]
  /\ pass = [targets |-> pass.targets, known |-> pass.known, read |-> pass.read]
  /\ refreshing \in BOOLEAN /\ refreshAgain \in BOOLEAN
  /\ refreshAgain => refreshing

PassIsFresh ==
  refreshing /\ ~refreshAgain /\ ~Halfway => \A n \in DOMAIN pass.read : Fresh(n, pass.read[n])

MatrixIsFresh ==
  ~refreshing /\ ~Halfway => \A n \in DOMAIN nodesShown : Fresh(n, nodesShown[n])

ControllerInv == ControllerShapes /\ PassIsFresh /\ MatrixIsFresh

\* A new pass has read nothing.
LEMMA NewPass ==
  ASSUME NEW targets, NEW known
  PROVE  LET p == newPass(targets, known)
         IN  /\ p = [targets |-> p.targets, known |-> p.known, read |-> p.read]
             /\ DOMAIN p.read = {}
BY DEF newPass

LEMMA InitControllerInv == ControllerInit => ControllerInv
<1> SUFFICES ASSUME ControllerInit PROVE ControllerInv
  OBVIOUS
<1>1. ControllerShapes
  BY DEF ControllerInit, ControllerShapes, NoPass
<1> QED BY <1>1 DEF ControllerInit, ControllerInv, PassIsFresh, MatrixIsFresh

\* After refresh() a pass is under way that began later, or will be.
LEMMA RefreshRestarts ==
  ASSUME ControllerInv, NEW targets, refresh(targets)
  PROVE  /\ refreshing' = TRUE /\ refreshAgain' \in BOOLEAN
         /\ pass' = [targets |-> pass'.targets, known |-> pass'.known, read |-> pass'.read]
         /\ ~refreshAgain' => DOMAIN pass'.read = {}
<1>1. CASE refreshing
  BY <1>1 DEF refresh, ControllerInv, ControllerShapes
<1>2. CASE ~refreshing
  <2>1. pass' = newPass(targets, nodesShown) /\ refreshing' = TRUE /\ refreshAgain' = refreshAgain
    BY <1>2 DEF refresh
  <2> QED BY <2>1, NewPass DEF ControllerInv, ControllerShapes
<1> QED BY <1>1, <1>2

\* With that, whatever happened to the devices, nothing stale is to be shown.
LEMMA RefreshKeeps ==
  ASSUME ControllerInv, NEW targets, refresh(targets),
         \A t \in tasks' : DOMAIN t = TaskFields /\ t = [f \in TaskFields |-> t[f]]
  PROVE  ControllerInv'
BY RefreshRestarts DEF ControllerInv, ControllerShapes, PassIsFresh, MatrixIsFresh

\* A task keeps its shape when its counter moves.
LEMMA TaskMoves ==
  ASSUME NEW t, DOMAIN t = TaskFields, t = [f \in TaskFields |-> t[f]], NEW pc1
  PROVE  LET u == [t EXCEPT !.pc = pc1]
         IN  DOMAIN u = TaskFields /\ u = [f \in TaskFields |-> u[f]] /\ u.pc = pc1
BY DEF TaskFields

LEMMA BonjourKeeps ==
  ASSUME ControllerInv,
         (\E n \in Nodes : ServiceChanges(n) \/ serviceResolved(n)) \/ browseResultsChanged
  PROVE  ControllerInv'
<1>1. UNCHANGED <<tasks, takes, atSink>>
  BY DEF ServiceChanges, serviceResolved, browseResultsChanged, taskVars, deviceVars
<1>2. ASSUME NEW n \in Nodes, ServiceChanges(n) PROVE ControllerInv'
  BY <1>1, <1>2 DEF ServiceChanges, refreshVars, ControllerInv, ControllerShapes, PassIsFresh,
                    MatrixIsFresh, Halfway, Fresh
<1>3. ASSUME NEW n \in Nodes, serviceResolved(n) PROVE ControllerInv'
  <2>1. CASE refresh(endpoints')
    BY <1>1, <2>1, RefreshKeeps DEF ControllerInv, ControllerShapes
  <2>2. CASE UNCHANGED refreshVars
    BY <1>1, <1>3, <2>2 DEF serviceResolved, refreshVars, ControllerInv, ControllerShapes, PassIsFresh,
                            MatrixIsFresh, Halfway, Fresh
  <2> QED BY <1>3, <2>1, <2>2 DEF serviceResolved
<1>4. CASE browseResultsChanged
  <2>1. UNCHANGED refreshVars
    BY <1>4 DEF browseResultsChanged
  <2>2. DOMAIN nodesShown' \subseteq DOMAIN nodesShown
        /\ \A n \in DOMAIN nodesShown' : nodesShown'[n] = nodesShown[n]
    BY <1>4 DEF browseResultsChanged, withoutGone
  <2> QED BY <1>1, <2>1, <2>2 DEF refreshVars, ControllerInv, ControllerShapes, PassIsFresh,
                                  MatrixIsFresh, Halfway, Fresh
<1> QED BY <1>2, <1>3, <1>4

LEMMA ReadingKeeps ==
  ASSUME ControllerInv, timerFires \/ (\E n \in Nodes : readNode(n)) \/ passEnds
  PROVE  ControllerInv'
<1>1. UNCHANGED <<tasks, takes, atSink>>
  BY DEF timerFires, readNode, passEnds, taskVars, deviceVars
<1>2. CASE timerFires
  BY <1>1, <1>2, RefreshKeeps DEF timerFires, ControllerInv, ControllerShapes
<1>3. ASSUME NEW n \in Nodes, readNode(n) PROVE ControllerInv'
  <2>1. PICK shown \in answers(n) \cup {unreachable(n)} :
          pass' = [pass EXCEPT !.read = [x \in DOMAIN @ \cup {n} |-> IF x = n THEN shown ELSE @[x]]]
    BY <1>3 DEF readNode
  <2>2. Fresh(n, shown)
    <3>1. CASE shown \in answers(n)
      BY <3>1 DEF answers, Fresh
    <3>2. CASE shown = unreachable(n)
      BY <3>2 DEF unreachable, Fresh
    <3> QED BY <3>1, <3>2
  <2>3. pass' = [targets |-> pass.targets, known |-> pass.known,
                 read |-> [x \in DOMAIN pass.read \cup {n} |-> IF x = n THEN shown ELSE pass.read[x]]]
    BY <2>1 DEF ControllerInv, ControllerShapes
  <2>4. DOMAIN pass'.read = DOMAIN pass.read \cup {n} /\ pass'.read[n] = shown
        /\ \A x \in DOMAIN pass.read \ {n} : pass'.read[x] = pass.read[x]
    BY <2>3
  <2>5. pass' = [targets |-> pass'.targets, known |-> pass'.known, read |-> pass'.read]
    BY <2>3
  <2>6. UNCHANGED <<refreshing, refreshAgain, nodesShown>>
    BY <1>3 DEF readNode
  <2>7. refreshing /\ ~refreshAgain /\ ~Halfway => \A x \in DOMAIN pass'.read : Fresh(x, pass'.read[x])
    BY <2>2, <2>4 DEF ControllerInv, PassIsFresh
  <2> QED BY <1>1, <2>5, <2>6, <2>7 DEF ControllerInv, ControllerShapes, PassIsFresh, MatrixIsFresh,
                                        Halfway, Fresh
<1>4. CASE passEnds
  <2>1. CASE refreshAgain
    <3>1. pass' = newPass(endpoints, nodesShown') /\ refreshing' = refreshAgain /\ refreshAgain' = FALSE
      BY <1>4, <2>1 DEF passEnds
    <3> QED BY <1>1, <2>1, <3>1, NewPass
            DEF ControllerInv, ControllerShapes, PassIsFresh, MatrixIsFresh, Halfway, Fresh
  <2>2. CASE ~refreshAgain
    <3>1. /\ refreshing /\ refreshing' = FALSE /\ refreshAgain' = FALSE /\ nodesShown' = pass.read
          /\ pass' = NoPass
      BY <1>4, <2>2 DEF passEnds, ControllerInv, ControllerShapes
    <3>2. pass' = [targets |-> pass'.targets, known |-> pass'.known, read |-> pass'.read]
      BY <3>1 DEF NoPass
    <3> QED BY <1>1, <2>2, <3>1, <3>2
            DEF ControllerInv, ControllerShapes, PassIsFresh, MatrixIsFresh, Halfway, Fresh
  <2> QED BY <2>1, <2>2
<1> QED BY <1>2, <1>3, <1>4

\* A click makes a task, which has not begun.
LEMMA ClicksKeep ==
  ASSUME ControllerInv,
         (\E r, s \in Nodes : clickCrosspoint(r, s)) \/ (\E n \in Nodes : clickSink(n))
  PROVE  ControllerInv'
<1>1. ASSUME NEW kind, NEW n, NEW arg, NEW pc1 \in {"file", "patch", "start"}, NEW marks,
             Clicked(Task(kind, n, arg, pc1), marks)
      PROVE  ControllerInv'
  <2> DEFINE t == Task(kind, n, arg, pc1)
  <2>1. DOMAIN t = TaskFields /\ t = [f \in TaskFields |-> t[f]] /\ t.pc = pc1
    BY DEF Task, TaskFields
  <2> HIDE DEF t
  <2>2. tasks' = tasks \cup {t} /\ UNCHANGED <<refreshVars, nodesShown, deviceVars>>
    BY <1>1 DEF Clicked, t
  <2>3. Halfway' <=> Halfway
    BY <2>1, <2>2 DEF Halfway
  <2> QED BY <2>1, <2>2, <2>3 DEF refreshVars, deviceVars, ControllerInv, ControllerShapes,
                                  PassIsFresh, MatrixIsFresh, Fresh
<1>2. ASSUME NEW r \in Nodes, NEW s \in Nodes, clickCrosspoint(r, s) PROVE ControllerInv'
  BY <1>1, <1>2 DEF clickCrosspoint
<1>3. ASSUME NEW n \in Nodes, clickSink(n) PROVE ControllerInv'
  BY <1>1, <1>3 DEF clickSink
<1> QED BY <1>2, <1>3

LEMMA TasksKeep ==
  ASSUME ControllerInv, NEW t \in tasks,
         transportFile(t) \/ sendPatch(t) \/ moveStarts(t) \/ moveStops(t) \/ moveSends(t)
  PROVE  ControllerInv'
<1>1. DOMAIN t = TaskFields /\ t = [f \in TaskFields |-> t[f]]
  BY DEF ControllerInv, ControllerShapes
\* A step that ends the task ends in a refresh.
<1>2. ASSUME NEW off, NEW on, Goes(t, {}, off, on), refresh(endpoints) PROVE ControllerInv'
  <2>1. tasks' \subseteq tasks
    BY <1>2 DEF Goes
  <2> QED BY <1>2, <2>1, RefreshKeeps DEF ControllerInv, ControllerShapes
<1>3. ASSUME NEW mark, Ends(t, mark) PROVE ControllerInv'
  BY <1>2, <1>3 DEF Ends
\* One that goes on to the second PATCH of a move is half-way.
<1>4. ASSUME NEW off, sendTo(t, off) PROVE ControllerInv'
  <2>1. CASE t.node \in DOMAIN nodesShown
    <3> DEFINE u == [t EXCEPT !.pc = "send"]
    <3>1. DOMAIN u = TaskFields /\ u = [f \in TaskFields |-> u[f]] /\ u.pc = "send"
      BY <1>1, TaskMoves
    <3> HIDE DEF u
    <3>2. tasks' = (tasks \ {t}) \cup {u} /\ UNCHANGED refreshVars
      BY <1>4, <2>1 DEF sendTo, Goes, u
    <3>3. Halfway'
      BY <3>1, <3>2 DEF Halfway
    <3> QED BY <3>1, <3>2, <3>3 DEF refreshVars, ControllerInv, ControllerShapes, PassIsFresh,
                                    MatrixIsFresh
  <2>2. CASE t.node \notin DOMAIN nodesShown
    BY <1>2, <1>4, <2>2 DEF sendTo
  <2> QED BY <2>1, <2>2
\* One that only waits for the next answer changes no device.
<1>5. ASSUME NEW pc1 \in {"patch", "stop"}, NEW off, NEW on, t.pc # "send",
             Goes(t, {[t EXCEPT !.pc = pc1]}, off, on), UNCHANGED refreshVars, UNCHANGED deviceVars
      PROVE  ControllerInv'
  <2> DEFINE u == [t EXCEPT !.pc = pc1]
  <2>1. DOMAIN u = TaskFields /\ u = [f \in TaskFields |-> u[f]] /\ u.pc = pc1
    BY <1>1, TaskMoves
  <2> HIDE DEF u
  <2>2. tasks' = (tasks \ {t}) \cup {u} /\ UNCHANGED nodesShown
    BY <1>5 DEF Goes, u
  <2>3. Halfway' <=> Halfway
    BY <1>5, <2>1, <2>2 DEF Halfway
  <2> QED BY <1>5, <2>1, <2>2, <2>3 DEF refreshVars, deviceVars, ControllerInv, ControllerShapes,
                                        PassIsFresh, MatrixIsFresh, Fresh
<1>6. CASE transportFile(t)
  BY <1>3, <1>5, <1>6 DEF transportFile
<1>7. CASE sendPatch(t)
  BY <1>3, <1>7 DEF sendPatch
<1>8. CASE moveStarts(t)
  BY <1>4, <1>5, <1>8 DEF moveStarts
<1>9. CASE moveStops(t)
  BY <1>4, <1>9 DEF moveStops
<1>10. CASE moveSends(t)
  BY <1>3, <1>10 DEF moveSends
<1> QED BY <1>6, <1>7, <1>8, <1>9, <1>10

LEMMA NextKeepsControllerInv ==
  ControllerInv /\ [ControllerNext]_controllerVars => ControllerInv'
<1> SUFFICES ASSUME ControllerInv, [ControllerNext]_controllerVars PROVE ControllerInv'
  OBVIOUS
<1>1. CASE UNCHANGED controllerVars
  BY <1>1 DEF controllerVars, refreshVars, taskVars, deviceVars, ControllerInv, ControllerShapes,
              PassIsFresh, MatrixIsFresh, Halfway, Fresh
<1>2. CASE ControllerNext
  BY <1>2, BonjourKeeps, ReadingKeeps, ClicksKeep, TasksKeep DEF ControllerNext
<1> QED BY <1>1, <1>2

\* When no click and no pass is under way, the matrix shows what the receivers and
\* senders have, however passes, PATCHes and browse changes overlapped
\* (NmosController.swift), for any number of nodes and clicks.
THEOREM ShownAlwaysActive == ControllerSpec => []ShownIsActive
<1>1. ControllerInit => ControllerInv
  BY InitControllerInv
<1>2. ControllerInv /\ [ControllerNext]_controllerVars => ControllerInv'
  BY NextKeepsControllerInv
<1>3. ControllerInv => ShownIsActive
  BY DEF ControllerInv, MatrixIsFresh, Halfway, Fresh, ShownIsActive
<1> QED BY <1>1, <1>2, <1>3, PTL DEF ControllerSpec

-----------------------------------------------------------------------------
(***************************************************************************)
(* The driver's Connection API.  OnIsOn speaks of the moment after a copy; *)
(* what makes the copy right is said of every moment: a resource that      *)
(* still is what the driver has (Levelled) is active (OnWhenLevelled).  It *)
(* holds because each call to the manager either leaves the stream as it   *)
(* was, takes it away, or ends its activation in the same step; which of   *)
(* them is to come is kept with the activation under way (Underway).       *)
(***************************************************************************)

\* The tables have their keys, a resource its three parts, and what a request has
\* still to do is about resources there are.
DriverShapes ==
  /\ DOMAIN streams = {Sender, Receiver}
  /\ DOMAIN api = Ids /\ DOMAIN seeded = Ids
  /\ \A id \in Ids : api[id] # Absent => {"staged", "active", "pending"} \subseteq DOMAIN api[id][1]
  /\ dueNow \in Seq(Ids) /\ asking \in Seq(Ids \X DriverPatches)
  /\ pc = "handling" => \A k \in DOMAIN dueNow : api[dueNow[k]] # Absent

\* What was never copied is not in the API.
SeededFirst == \A id \in Ids : seeded[id] = Absent => api[id] = Absent

\* A request is served on a copy that is current unless somebody else meddles.
CopyIsCurrent == pc = "synced" => \A id \in {Sender, Receiver} \ touched : seeded[id] = listed(id)

Levelled(id) == seeded[id] = listed(id) /\ listed(id) # Absent

OnWhenLevelled ==
  \A id \in {Sender, Receiver} \ touched :
    Levelled(id) => api[id] # Absent /\ api[id][1].active.enable

\* What each patcher may be about to ask of the manager.
PlanOf(id, chosen, plan) ==
  /\ {"calls", "want", "park", "intact"} \subseteq DOMAIN plan
  /\ plan.calls \notin {"close", "none", "refuse"} => chosen.enable
  /\ id = Sender => plan.calls \in {"none", "refuse", "close", "open", "closeThenOpen", "reopen"}
  /\ id = Receiver => plan.calls \in {"refuse", "close", "repoint"}
  /\ id = Free => plan.calls \in {"none", "refuse", "open"}
  /\ id = Sender /\ plan.calls \in {"open", "closeThenOpen", "reopen"} =>
       plan.want # Absent /\ plan.want[1].port = OwnPort

Underway(d) ==
  /\ pc = "handling"
  /\ {"id", "chosen", "plan"} \subseteq DOMAIN d
  /\ d.id \in Ids /\ api[d.id] # Absent
  /\ PlanOf(d.id, d.chosen, d.plan)

DoingIsUnderway == \A k \in DOMAIN doing : Underway(doing[k])

DriverInv ==
  DriverShapes /\ SeededFirst /\ CopyIsCurrent /\ OnWhenLevelled /\ DoingIsUnderway /\ PortIsKept

\* What the server finds when it asks the driver.
LEMMA Listed ==
  /\ listed(Sender) = present(streams[Sender])
  /\ listed(Receiver) = present(streams[Receiver])
  /\ listed(Free) = <<[enable |-> FALSE, group |-> Null, width |-> 0]>>
BY DEF listed, connectionSenders, connectionReceivers, Sender, Receiver, Free

LEMMA ListedThen == \A id \in {Sender, Receiver} : listed(id)' = present(streams'[id])
BY DEF listed, connectionSenders, connectionReceivers, present, Sender, Receiver, Free

LEMMA PresentUnlessAbsent == \A x : present(x) = Absent <=> x = Absent
BY DEF present, Absent

LEMMA StreamIsPresent == \A g, w, p : Stream(g, w, p) # Absent /\ Stream(g, w, p)[1].port = p
BY DEF Stream, Absent

\* The three patchers: what each asks for, that a sender which needs nothing done is
\* either on or not there, and that what is remembered of it has its port.
LEMMA SenderPlan ==
  ASSUME PortIsKept, NEW x, NEW chosen
  PROVE  LET plan == applySenderConnectionPatch(x, chosen)
         IN  /\ PlanOf(Sender, chosen, plan)
             /\ plan.calls = "none" => streams[Sender] = Absent \/ chosen.enable
             /\ plan.park = Absent \/ plan.park = streams[Sender]
BY StreamIsPresent DEF applySenderConnectionPatch, Plan, Taken, NotTaken, PlanOf, sourcePort,
                       PortIsKept, Sender, Receiver, Free

LEMMA ReceiverPlan ==
  ASSUME NEW x, NEW chosen
  PROVE  LET plan == applyConnectionPatch(x, chosen)
         IN  PlanOf(Receiver, chosen, plan) /\ plan.park = Absent
BY DEF applyConnectionPatch, Plan, NotTaken, PlanOf, Sender, Receiver, Free

LEMMA FreePlan ==
  ASSUME NEW x, NEW chosen
  PROVE  LET plan == subscribeSpareReceiver(x, chosen)
         IN  PlanOf(Free, chosen, plan) /\ plan.park = Absent
BY DEF subscribeSpareReceiver, Plan, Taken, NotTaken, PlanOf, Sender, Receiver, Free

LEMMA PatcherPlan ==
  ASSUME PortIsKept, NEW id \in Ids, NEW x, NEW chosen
  PROVE  LET plan == patcher(id, x, chosen)
         IN  /\ PlanOf(id, chosen, plan)
             /\ id \in {Sender, Receiver} /\ plan.calls = "none" =>
                  streams[id] = Absent \/ chosen.enable
             /\ plan.park = Absent \/ plan.park = streams[Sender]
<1>1. CASE id = Sender
  <2>1. patcher(id, x, chosen) = applySenderConnectionPatch(x, chosen)
    BY <1>1 DEF patcher, Sender, Receiver, Free
  <2> QED BY <1>1, <2>1, SenderPlan
<1>2. CASE id = Receiver
  <2>1. patcher(id, x, chosen) = applyConnectionPatch(x, chosen)
    BY <1>2 DEF patcher, Sender, Receiver, Free
  <2>2. PlanOf(Receiver, chosen, patcher(id, x, chosen)) /\ patcher(id, x, chosen).park = Absent
    BY <2>1, ReceiverPlan
  <2> QED BY <1>2, <2>2 DEF PlanOf
<1>3. CASE id = Free
  <2>1. patcher(id, x, chosen) = subscribeSpareReceiver(x, chosen)
    BY <1>3 DEF patcher, Sender, Receiver, Free
  <2>2. PlanOf(Free, chosen, patcher(id, x, chosen)) /\ patcher(id, x, chosen).park = Absent
    BY <2>1, FreePlan
  <2> QED BY <1>3, <2>2 DEF Sender, Receiver, Free
<1> QED BY <1>1, <1>2, <1>3 DEF Ids

LEMMA InitDriverInv == DriverInit => DriverInv
<1> SUFFICES ASSUME DriverInit PROVE DriverInv
  OBVIOUS
<1>1. /\ DOMAIN streams = {Sender, Receiver}
      /\ streams[Sender] = Stream(1, 2, OwnPort) /\ streams[Receiver] = Stream(1, 2, Ephemeral)
  BY DEF DriverInit, Sender, Receiver, Stream
<1>2. DriverShapes /\ SeededFirst
  BY <1>1 DEF DriverInit, DriverShapes, SeededFirst
<1>3. CopyIsCurrent
  BY DEF DriverInit, CopyIsCurrent
<1>4. OnWhenLevelled
  BY DEF DriverInit, OnWhenLevelled, Levelled, Ids
<1>5. PortIsKept
  BY <1>1, StreamIsPresent DEF DriverInit, PortIsKept
<1>6. DoingIsUnderway
  BY DEF DriverInit, DoingIsUnderway
<1> QED BY <1>2, <1>3, <1>4, <1>5, <1>6 DEF DriverInv

\* The copy.
LEMMA SyncKeeps == ASSUME DriverInv, syncResources PROVE DriverInv'
<1>1. /\ api' = [id \in Ids |-> level(id)] /\ seeded' = [id \in Ids |-> listed(id)]
      /\ touched' = {id \in touched : listed(id) # Absent /\ ~changed(id)}
      /\ pc = "idle" /\ pc' = "synced"
      /\ UNCHANGED <<streams, stopped, doing, dueNow, asking>>
  BY DEF syncResources
<1>2. \A id \in Ids : listed(id)' = listed(id)
  BY <1>1 DEF listed, connectionSenders, connectionReceivers, Sender, Receiver, Free, Ids
<1>3. \A id \in Ids : listed(id) # Absent /\ changed(id) =>
         /\ level(id) # Absent /\ {"staged", "active", "pending"} \subseteq DOMAIN level(id)[1]
         /\ level(id)[1].active.enable = listed(id)[1].enable
  BY DEF level, fresh, Resource, Absent
<1>4. DriverShapes'
  BY <1>1, <1>3 DEF level, DriverInv, DriverShapes
<1>5. SeededFirst'
  BY <1>1 DEF level, SeededFirst
<1>6. CopyIsCurrent'
  <2>1. {Sender, Receiver} \subseteq Ids
    BY DEF Ids
  <2> QED BY <1>1, <1>2, <2>1 DEF CopyIsCurrent
<1>7. OnWhenLevelled'
  <2> SUFFICES ASSUME NEW id \in {Sender, Receiver}, id \notin touched', listed(id) # Absent
               PROVE  level(id) # Absent /\ level(id)[1].active.enable
    BY <1>1, <1>2 DEF OnWhenLevelled, Levelled, Ids
  <2>1. id \in Ids
    BY DEF Ids
  <2>2. CASE changed(id)
    <3>1. listed(id)[1].enable = TRUE
      BY Listed, PresentUnlessAbsent DEF present
    <3> QED BY <1>3, <2>1, <2>2, <3>1
  <2>3. CASE ~changed(id)
    <3>1. id \notin touched
      BY <1>1, <2>3
    <3> QED BY <2>1, <2>3, <3>1 DEF changed, level, DriverInv, OnWhenLevelled, Levelled
  <2> QED BY <2>2, <2>3
<1>8. PortIsKept'
  BY <1>1 DEF DriverInv, PortIsKept
<1>9. DoingIsUnderway'
  BY <1>1 DEF DriverInv, DoingIsUnderway, Underway
<1> QED BY <1>4, <1>5, <1>6, <1>7, <1>8, <1>9 DEF DriverInv

\* A step of a request, which replaces one resource and perhaps moves its stream: what
\* it has to show of the three.
LEMMA StepKeeps ==
  ASSUME DriverInv, pc = "handling", pc' = "handling", UNCHANGED seeded,
         dueNow' \in Seq(Ids), asking' \in Seq(Ids \X DriverPatches),
         \A k \in DOMAIN dueNow' : api[dueNow'[k]] # Absent,
         NEW id \in Ids, api[id] # Absent, DOMAIN api' = Ids, api'[id] # Absent,
         \A k \in Ids : k # id => api'[k] = api[k],
         NEW y, api'[id][1] = y, {"staged", "active", "pending"} \subseteq DOMAIN y,
         DOMAIN streams' = {Sender, Receiver},
         touched \subseteq touched',
         \A k \in {Sender, Receiver} \ touched' :
            k # id => streams'[k] = streams[k],
         id \in {Sender, Receiver} \ touched' =>
           \/ streams'[id] = Absent
           \/ y.active.enable
           \/ streams'[id] = streams[id] /\ y.active = api[id][1].active,
         \A x \in {streams'[Sender], stopped'} : x # Absent => x[1].port = OwnPort,
         \A k \in DOMAIN doing' :
            /\ {"id", "chosen", "plan"} \subseteq DOMAIN doing'[k]
            /\ doing'[k].id \in Ids /\ api[doing'[k].id] # Absent
            /\ PlanOf(doing'[k].id, doing'[k].chosen, doing'[k].plan)
  PROVE  DriverInv'
<1>2. \A k \in Ids : api'[k] = Absent <=> api[k] = Absent
  OBVIOUS
<1>3. \A k \in DOMAIN dueNow' : dueNow'[k] \in Ids
  OBVIOUS
<1>4. DriverShapes'
  BY <1>2, <1>3 DEF DriverInv, DriverShapes
<1>5. SeededFirst' /\ CopyIsCurrent'
  BY <1>2 DEF DriverInv, SeededFirst, CopyIsCurrent
<1>6. PortIsKept'
  BY DEF PortIsKept
<1>7. DoingIsUnderway'
  <2> SUFFICES ASSUME NEW k \in DOMAIN doing' PROVE Underway(doing[k])'
    BY DEF DoingIsUnderway
  <2>1. /\ {"id", "chosen", "plan"} \subseteq DOMAIN doing'[k]
        /\ doing'[k].id \in Ids /\ api'[doing'[k].id] # Absent
        /\ PlanOf(doing'[k].id, doing'[k].chosen, doing'[k].plan)
    BY <1>2
  <2> QED BY <2>1 DEF Underway, PlanOf
<1>8. OnWhenLevelled'
  <2> SUFFICES ASSUME NEW k \in {Sender, Receiver} \ touched',
                      seeded[k] = present(streams'[k]), present(streams'[k]) # Absent
               PROVE  api'[k] # Absent /\ api'[k][1].active.enable
    BY ListedThen DEF OnWhenLevelled, Levelled
  <2>1. k \in Ids /\ streams'[k] # Absent /\ k \in {Sender, Receiver} \ touched
    BY PresentUnlessAbsent DEF Ids
  <2>2. streams'[k] = streams[k] => api[k] # Absent /\ api[k][1].active.enable
    BY <2>1, Listed DEF DriverInv, OnWhenLevelled, Levelled
  <2>3. CASE k # id
    BY <2>1, <2>2, <2>3
  <2>4. CASE k = id
    BY <2>1, <2>2, <2>4
  <2> QED BY <2>3, <2>4
<1> QED BY <1>4, <1>5, <1>6, <1>7, <1>8 DEF DriverInv

\* The activation ends: its resource is as it was or as chosen.
LEMMA ActivationEnds ==
  ASSUME DOMAIN api = Ids, NEW id \in Ids, NEW x, {"staged", "active", "pending"} \subseteq DOMAIN x,
         NEW chosen, NEW taken \in BOOLEAN, ends(id, x, chosen, taken)
  PROVE  \E y : /\ DOMAIN api' = Ids /\ api'[id] # Absent /\ api'[id][1] = y
                /\ \A k \in Ids : k # id => api'[k] = api[k]
                /\ {"staged", "active", "pending"} \subseteq DOMAIN y
                /\ y.active = IF taken THEN chosen ELSE x.active
                /\ DOMAIN doing' = {}
<1> DEFINE y == IF taken THEN refiled(id, took(x, chosen)) ELSE x
<1>1. api' = [api EXCEPT ![id] = <<y>>] /\ DOMAIN doing' = {}
  BY DEF ends
<1>2. {"staged", "active", "pending"} \subseteq DOMAIN y
  BY DEF refiled, took
<1>3. y.active = IF taken THEN chosen ELSE x.active
  BY DEF refiled, took
<1> HIDE DEF y
<1> QED BY <1>1, <1>2, <1>3 DEF Absent

\* An activation begins.
LEMMA ActivationKeeps ==
  ASSUME DriverInv, NEW id \in Ids, api[id] # Absent, NEW x, NEW s,
         {"staged", "active", "pending"} \subseteq DOMAIN x, x.active = api[id][1].active,
         activate(id, x, s), pc = "handling", UNCHANGED <<seeded, pc>>,
         dueNow' \in Seq(Ids), asking' \in Seq(Ids \X DriverPatches),
         \A k \in DOMAIN dueNow' : api[dueNow'[k]] # Absent
  PROVE  DriverInv'
<1> DEFINE chosen == resolved(ownFile(id, x, s))
           plan == patcher(id, x, chosen)
           d == [id |-> id, chosen |-> chosen, plan |-> plan]
<1>1. /\ PlanOf(id, chosen, plan)
      /\ id \in {Sender, Receiver} /\ plan.calls = "none" => streams[id] = Absent \/ chosen.enable
      /\ plan.park = Absent \/ plan.park = streams[Sender]
  BY PatcherPlan DEF DriverInv
<1>2. /\ plan.calls \in {"none", "refuse"} => ends(id, x, chosen, plan.calls = "none")
      /\ plan.calls \notin {"none", "refuse"} => doing' = <<d>> /\ api' = [api EXCEPT ![id] = <<x>>]
      /\ stopped' = IF plan.park = Absent THEN stopped ELSE plan.park
      /\ UNCHANGED <<streams, touched>>
  BY DEF activate
<1> HIDE DEF chosen, plan
<1>3. /\ DOMAIN streams' = {Sender, Receiver}
      /\ \A k \in {Sender, Receiver} : streams'[k] = streams[k]
      /\ \A z \in {streams'[Sender], stopped'} : z # Absent => z[1].port = OwnPort
  BY <1>1, <1>2 DEF DriverInv, DriverShapes, PortIsKept
<1>4. CASE plan.calls \in {"none", "refuse"}
  <2>1. PICK taken \in BOOLEAN : taken = (plan.calls = "none")
    OBVIOUS
  <2>2. PICK y : /\ DOMAIN api' = Ids /\ api'[id] # Absent /\ api'[id][1] = y
                 /\ \A k \in Ids : k # id => api'[k] = api[k]
                 /\ {"staged", "active", "pending"} \subseteq DOMAIN y
                 /\ y.active = IF taken THEN chosen ELSE x.active
                 /\ DOMAIN doing' = {}
    <3>1. DOMAIN api = Ids
      BY DEF DriverInv, DriverShapes
    <3>2. ends(id, x, chosen, taken)
      BY <1>2, <1>4, <2>1
    <3> QED BY <3>1, <3>2, ActivationEnds
  <2>3. id \in {Sender, Receiver} =>
           \/ streams'[id] = Absent
           \/ y.active.enable
           \/ streams'[id] = streams[id] /\ y.active = api[id][1].active
    BY <1>1, <1>3, <2>1, <2>2
  <2> QED BY <1>2, <1>3, <2>2, <2>3, StepKeeps
<1>5. CASE plan.calls \notin {"none", "refuse"}
  <2>1. doing' = <<d>> /\ api' = [api EXCEPT ![id] = <<x>>]
    BY <1>2, <1>5
  <2>2. \A k \in DOMAIN doing' :
            /\ {"id", "chosen", "plan"} \subseteq DOMAIN doing'[k]
            /\ doing'[k].id \in Ids /\ api[doing'[k].id] # Absent
            /\ PlanOf(doing'[k].id, doing'[k].chosen, doing'[k].plan)
    <3>1. /\ {"id", "chosen", "plan"} \subseteq DOMAIN d
          /\ d.id \in Ids /\ api[d.id] # Absent /\ PlanOf(d.id, d.chosen, d.plan)
      BY <1>1
    <3> HIDE DEF d
    <3>2. \A k \in DOMAIN doing' : doing'[k] = d
      BY <2>1
    <3> QED BY <3>1, <3>2
  <2>3. /\ DOMAIN api' = Ids /\ api'[id] # Absent /\ api'[id][1] = x
        /\ \A k \in Ids : k # id => api'[k] = api[k]
    BY <2>1 DEF DriverInv, DriverShapes, Absent
  <2> QED BY <1>2, <1>3, <2>2, <2>3, StepKeeps
<1> QED BY <1>4, <1>5

\* A call of the activation under way.
LEMMA CallOf ==
  ASSUME DriverInv, NEW d \in {doing[k] : k \in DOMAIN doing}, NEW calls, Calling(d, calls)
  PROVE  /\ Underway(d) /\ d.plan.calls \in calls
         /\ {"staged", "active", "pending"} \subseteq DOMAIN api[d.id][1]
         /\ UNCHANGED <<seeded, pc>> /\ pc = "handling"
         /\ dueNow' \in Seq(Ids) /\ asking' \in Seq(Ids \X DriverPatches)
         /\ \A k \in DOMAIN dueNow' : api[dueNow'[k]] # Absent
<1>1. Underway(d)
  BY DEF DriverInv, DoingIsUnderway
<1> QED BY <1>1 DEF Calling, DriverInv, DriverShapes, Underway

LEMMA RemoveKeeps == ASSUME DriverInv, removeStream PROVE DriverInv'
<1>1. PICK d \in {doing[k] : k \in DOMAIN doing} :
        /\ Calling(d, {"close", "closeThenOpen"})
        /\ LET still == d.plan.intact \/ d.id = Receiver
           IN /\ streams' = IF still THEN [streams EXCEPT ![d.id] = Absent] ELSE streams
              /\ IF still /\ d.plan.calls = "closeThenOpen"
                 THEN /\ doing' = <<[d EXCEPT !.plan.calls = "reopen"]>>
                      /\ UNCHANGED api
                 ELSE ends(d.id, api[d.id][1], d.chosen, still)
        /\ UNCHANGED <<stopped, touched>>
  BY DEF removeStream
<1> DEFINE x == api[d.id][1]
<1>2. /\ Underway(d) /\ d.plan.calls \in {"close", "closeThenOpen"}
      /\ {"staged", "active", "pending"} \subseteq DOMAIN x
      /\ UNCHANGED <<seeded, pc>> /\ pc = "handling"
      /\ dueNow' \in Seq(Ids) /\ asking' \in Seq(Ids \X DriverPatches)
      /\ \A k \in DOMAIN dueNow' : api[dueNow'[k]] # Absent
  BY <1>1, CallOf
<1>3. d.id \in {Sender, Receiver} /\ d.id \in Ids /\ api[d.id] # Absent
  BY <1>2 DEF Underway, PlanOf, Ids
<1>4. PICK still \in BOOLEAN : still = (d.plan.intact \/ d.id = Receiver)
  OBVIOUS
<1>5. streams' = IF still THEN [streams EXCEPT ![d.id] = Absent] ELSE streams
  BY <1>1, <1>4
<1>6. /\ DOMAIN streams' = {Sender, Receiver}
      /\ \A k \in {Sender, Receiver} : k # d.id => streams'[k] = streams[k]
      /\ streams'[d.id] = IF still THEN Absent ELSE streams[d.id]
  BY <1>3, <1>5 DEF DriverInv, DriverShapes
<1>7. UNCHANGED touched /\ \A z \in {streams'[Sender], stopped'} : z # Absent => z[1].port = OwnPort
  BY <1>1, <1>3, <1>6 DEF DriverInv, PortIsKept
<1>8. CASE still /\ d.plan.calls = "closeThenOpen"
  <2> DEFINE e == [d EXCEPT !.plan.calls = "reopen"]
  <2>1. doing' = <<e>> /\ UNCHANGED api
    BY <1>1, <1>4, <1>8
  <2>2. /\ e = [d EXCEPT !.plan = [d.plan EXCEPT !.calls = "reopen"]]
        /\ {"id", "chosen", "plan"} \subseteq DOMAIN e
        /\ e.id = d.id /\ e.chosen = d.chosen /\ e.plan = [d.plan EXCEPT !.calls = "reopen"]
    BY <1>2 DEF Underway
  <2> HIDE DEF e
  <2>3. PlanOf(e.id, e.chosen, e.plan)
    <3>1. d.id = Sender
      BY <1>2, <1>3, <1>8 DEF Underway, PlanOf
    <3>2. /\ DOMAIN e.plan = DOMAIN d.plan /\ e.plan.calls = "reopen" /\ e.plan.want = d.plan.want
      BY <1>2, <2>2 DEF Underway, PlanOf
    <3> QED BY <1>2, <1>8, <2>2, <3>1, <3>2 DEF Underway, PlanOf, Sender, Receiver, Free
  <2>4. \A k \in DOMAIN doing' : doing'[k] = e
    BY <2>1
  <2>5. /\ DOMAIN api' = Ids /\ api'[d.id] # Absent /\ api'[d.id][1] = x
        /\ \A k \in Ids : k # d.id => api'[k] = api[k]
    BY <1>3, <2>1 DEF DriverInv, DriverShapes
  <2> QED BY <1>2, <1>3, <1>6, <1>7, <1>8, <2>2, <2>3, <2>4, <2>5, StepKeeps
<1>9. CASE ~(still /\ d.plan.calls = "closeThenOpen")
  <2>1. ends(d.id, x, d.chosen, still)
    BY <1>1, <1>4, <1>9
  <2>2. PICK y : /\ DOMAIN api' = Ids /\ api'[d.id] # Absent /\ api'[d.id][1] = y
                 /\ \A k \in Ids : k # d.id => api'[k] = api[k]
                 /\ {"staged", "active", "pending"} \subseteq DOMAIN y
                 /\ y.active = IF still THEN d.chosen ELSE x.active
                 /\ DOMAIN doing' = {}
    <3>1. DOMAIN api = Ids /\ {"staged", "active", "pending"} \subseteq DOMAIN x
      BY <1>2 DEF DriverInv, DriverShapes
    <3> HIDE DEF x
    <3> QED BY <1>3, <2>1, <3>1, ActivationEnds
  <2>3. \/ streams'[d.id] = Absent
        \/ streams'[d.id] = streams[d.id] /\ y.active = x.active
    BY <1>6, <2>2
  <2> QED BY <1>2, <1>3, <1>6, <1>7, <2>2, <2>3, StepKeeps
<1> QED BY <1>8, <1>9

LEMMA OpenKeeps == ASSUME DriverInv, openStream PROVE DriverInv'
<1>1. PICK d \in {doing[k] : k \in DOMAIN doing}, h \in BOOLEAN :
        LET slot == streamOf(d.id)
            opened == h /\ streams[slot] = Absent
        IN /\ Calling(d, {"open", "reopen"})
           /\ streams' = IF opened THEN [streams EXCEPT ![slot] = d.plan.want] ELSE streams
           /\ stopped' = IF opened /\ d.id = Sender /\ d.plan.calls = "open" THEN Absent ELSE stopped
           /\ touched' = IF opened /\ d.id = Free THEN touched \cup {Receiver} ELSE touched
           /\ ends(d.id, api[d.id][1], d.chosen, opened)
  BY DEF openStream
<1> DEFINE slot == streamOf(d.id)
           x == api[d.id][1]
<1>2. PICK opened \in BOOLEAN : opened = (h /\ streams[slot] = Absent)
  OBVIOUS
<1>3. /\ Calling(d, {"open", "reopen"})
      /\ streams' = IF opened THEN [streams EXCEPT ![slot] = d.plan.want] ELSE streams
      /\ stopped' = IF opened /\ d.id = Sender /\ d.plan.calls = "open" THEN Absent ELSE stopped
      /\ touched' = IF opened /\ d.id = Free THEN touched \cup {Receiver} ELSE touched
      /\ ends(d.id, x, d.chosen, opened)
  BY <1>1, <1>2
<1>4. /\ Underway(d) /\ d.plan.calls \in {"open", "reopen"}
      /\ {"staged", "active", "pending"} \subseteq DOMAIN x
      /\ UNCHANGED <<seeded, pc>> /\ pc = "handling"
      /\ dueNow' \in Seq(Ids) /\ asking' \in Seq(Ids \X DriverPatches)
      /\ \A k \in DOMAIN dueNow' : api[dueNow'[k]] # Absent
  BY <1>3, CallOf
<1>5. /\ d.id \in {Sender, Free} /\ d.id \in Ids /\ api[d.id] # Absent /\ d.chosen.enable
      /\ d.id = Sender => d.plan.want # Absent /\ d.plan.want[1].port = OwnPort
  BY <1>4 DEF Underway, PlanOf, Ids
<1>6. PICK y : /\ DOMAIN api' = Ids /\ api'[d.id] # Absent /\ api'[d.id][1] = y
               /\ \A k \in Ids : k # d.id => api'[k] = api[k]
               /\ {"staged", "active", "pending"} \subseteq DOMAIN y
               /\ y.active = IF opened THEN d.chosen ELSE x.active
               /\ DOMAIN doing' = {}
  BY <1>3, <1>4, <1>5, ActivationEnds DEF DriverInv, DriverShapes
<1>7. /\ DOMAIN streams' = {Sender, Receiver}
      /\ d.id = Sender => streams'[Receiver] = streams[Receiver]
           /\ streams'[Sender] = IF opened THEN d.plan.want ELSE streams[Sender]
      /\ d.id = Free => streams'[Sender] = streams[Sender]
           /\ (~opened => streams'[Receiver] = streams[Receiver])
  BY <1>3, <1>5 DEF DriverInv, DriverShapes, streamOf, Sender, Receiver, Free
<1>8. /\ touched \subseteq touched'
      /\ d.id = Free /\ opened => Receiver \in touched'
  BY <1>3
<1>9. \A z \in {streams'[Sender], stopped'} : z # Absent => z[1].port = OwnPort
  BY <1>3, <1>5, <1>7 DEF DriverInv, PortIsKept
<1>10. \A k \in {Sender, Receiver} \ touched' : k # d.id => streams'[k] = streams[k]
  BY <1>5, <1>7, <1>8
<1>11. d.id \in {Sender, Receiver} \ touched' =>
         \/ y.active.enable
         \/ streams'[d.id] = streams[d.id] /\ y.active = api[d.id][1].active
  BY <1>5, <1>6, <1>7 DEF Sender, Receiver, Free
<1> HIDE DEF slot, x
<1> QED BY <1>4, <1>5, <1>6, <1>7, <1>8, <1>9, <1>10, <1>11, StepKeeps

LEMMA RepointKeeps == ASSUME DriverInv, repoint PROVE DriverInv'
<1>1. PICK d \in {doing[k] : k \in DOMAIN doing}, h \in BOOLEAN :
        LET now == streams[Receiver]
            moves == now # Absent /\ now[1].width = d.plan.want[1].width
                     /\ now[1].group # d.plan.want[1].group
        IN /\ Calling(d, {"repoint"})
           /\ streams' = IF ~moves THEN streams
                         ELSE [streams EXCEPT ![Receiver] = IF h THEN d.plan.want ELSE Absent]
           /\ ends(d.id, api[d.id][1], d.chosen, moves /\ h)
           /\ UNCHANGED <<stopped, touched>>
  BY DEF repoint
<1> DEFINE x == api[d.id][1]
<1>2. PICK moves \in BOOLEAN :
        moves = (/\ streams[Receiver] # Absent
                 /\ streams[Receiver][1].width = d.plan.want[1].width
                 /\ streams[Receiver][1].group # d.plan.want[1].group)
  OBVIOUS
<1>3. /\ Calling(d, {"repoint"})
      /\ streams' = IF ~moves THEN streams
                    ELSE [streams EXCEPT ![Receiver] = IF h THEN d.plan.want ELSE Absent]
      /\ ends(d.id, x, d.chosen, moves /\ h)
      /\ UNCHANGED <<stopped, touched>>
  BY <1>1, <1>2
<1>4. PICK taken \in BOOLEAN : taken = (moves /\ h)
  OBVIOUS
<1>5. /\ Underway(d) /\ d.plan.calls \in {"repoint"}
      /\ {"staged", "active", "pending"} \subseteq DOMAIN x
      /\ UNCHANGED <<seeded, pc>> /\ pc = "handling"
      /\ dueNow' \in Seq(Ids) /\ asking' \in Seq(Ids \X DriverPatches)
      /\ \A k \in DOMAIN dueNow' : api[dueNow'[k]] # Absent
  BY <1>3, CallOf
<1>6. d.id = Receiver /\ d.id \in Ids /\ api[d.id] # Absent /\ d.chosen.enable
  BY <1>5 DEF Underway, PlanOf, Ids
<1>7. PICK y : /\ DOMAIN api' = Ids /\ api'[d.id] # Absent /\ api'[d.id][1] = y
               /\ \A k \in Ids : k # d.id => api'[k] = api[k]
               /\ {"staged", "active", "pending"} \subseteq DOMAIN y
               /\ y.active = IF taken THEN d.chosen ELSE x.active
               /\ DOMAIN doing' = {}
  BY <1>3, <1>4, <1>5, <1>6, ActivationEnds DEF DriverInv, DriverShapes
<1>8. /\ DOMAIN streams' = {Sender, Receiver} /\ streams'[Sender] = streams[Sender]
      /\ moves /\ ~h => streams'[Receiver] = Absent
      /\ ~moves => streams'[Receiver] = streams[Receiver]
  BY <1>3 DEF DriverInv, DriverShapes, Sender, Receiver
<1>9. \A z \in {streams'[Sender], stopped'} : z # Absent => z[1].port = OwnPort
  BY <1>3, <1>8 DEF DriverInv, PortIsKept
<1>10. \/ streams'[d.id] = Absent
       \/ y.active.enable
       \/ streams'[d.id] = streams[d.id] /\ y.active = api[d.id][1].active
  BY <1>4, <1>6, <1>7, <1>8
<1> HIDE DEF x
<1> QED BY <1>3, <1>5, <1>6, <1>7, <1>8, <1>9, <1>10, StepKeeps

\* The request goes on to a promise that is due, or to one of its patches.
LEMMA NextOfRequestKeeps == ASSUME DriverInv, nextOfRequest PROVE DriverInv'
<1>1. pc = "handling" /\ UNCHANGED <<seeded, pc>> /\ doing = <<>>
  BY DEF nextOfRequest
<1>2. CASE dueNow # <<>> /\ dueNow' = Tail(dueNow) /\ keepPromise(Head(dueNow)) /\ UNCHANGED asking
  <2> DEFINE id == Head(dueNow)
             x == forgetPromise(api[id][1])
  <2>1. dueNow \in Seq(Ids) /\ Len(dueNow) \in Nat /\ Len(dueNow) > 0 /\ 1 \in DOMAIN dueNow
        /\ id = dueNow[1]
    BY <1>2 DEF DriverInv, DriverShapes
  <2>2. id \in Ids /\ api[id] # Absent
    BY <1>1, <2>1 DEF DriverInv, DriverShapes
  <2>3. /\ dueNow' \in Seq(Ids)
        /\ \A k \in DOMAIN dueNow' : k + 1 \in DOMAIN dueNow /\ dueNow'[k] = dueNow[k + 1]
    BY <1>2, <2>1
  <2>4. \A k \in DOMAIN dueNow' : api[dueNow'[k]] # Absent
    BY <1>1, <2>3 DEF DriverInv, DriverShapes
  <2>5. asking' \in Seq(Ids \X DriverPatches)
    BY <1>2 DEF DriverInv, DriverShapes
  <2>6. activate(id, x, due(api[id][1]))
    BY <1>2 DEF keepPromise
  <2>7. {"staged", "active", "pending"} \subseteq DOMAIN x /\ x.active = api[id][1].active
    BY <2>2 DEF forgetPromise, DriverInv, DriverShapes
  <2> HIDE DEF id, x
  <2> QED BY <1>1, <2>2, <2>3, <2>4, <2>5, <2>6, <2>7, ActivationKeeps
<1>3. CASE /\ asking # <<>> /\ asking' = Tail(asking)
           /\ patch(Head(asking)[1], Head(asking)[2])
           /\ UNCHANGED dueNow
  <2>1. /\ asking' \in Seq(Ids \X DriverPatches) /\ Head(asking) \in Ids \X DriverPatches
    BY <1>3 DEF DriverInv, DriverShapes
  <2>2. /\ dueNow' \in Seq(Ids) /\ \A k \in DOMAIN dueNow' : api[dueNow'[k]] # Absent
    BY <1>1, <1>3 DEF DriverInv, DriverShapes
  <2>3. PICK id \in Ids, p \in DriverPatches : id = Head(asking)[1] /\ p = Head(asking)[2]
    BY <2>1
  <2> DEFINE x == api[id][1]
             s == IF id = Sender THEN stagedSender(x.staged, p, x.active.file)
                  ELSE stagedReceiver(x.staged, p)
             v == verdict(s, p, id = Sender)
             staged == stage(x, s)
             waits == promise(x, s)
  <2>4. patch(id, p)
    BY <1>3, <2>3
  <2>5. \/ UNCHANGED <<api, streams, stopped, doing, touched>>
        \/ /\ api[id] # Absent
           /\ \/ /\ \/ api' = [api EXCEPT ![id] = <<staged>>]
                    \/ api' = [api EXCEPT ![id] = <<waits>>]
                 /\ UNCHANGED <<streams, stopped, doing, touched>>
              \/ activate(id, staged, [s EXCEPT !.mode = "immediate"])
    BY <2>4 DEF patch
  <2>6. CASE UNCHANGED <<api, streams, stopped, doing, touched>>
    <3>1. \A k \in {Sender, Receiver} : listed(k)' = listed(k)
      BY <2>6, Listed, ListedThen
    <3>2. DriverShapes'
      BY <1>1, <2>1, <2>2, <2>6 DEF DriverInv, DriverShapes
    <3>3. SeededFirst' /\ CopyIsCurrent' /\ PortIsKept'
      BY <1>1, <2>6 DEF DriverInv, SeededFirst, CopyIsCurrent, PortIsKept
    <3>4. OnWhenLevelled'
      BY <1>1, <2>6, <3>1 DEF DriverInv, OnWhenLevelled, Levelled
    <3>5. DoingIsUnderway'
      BY <1>1, <2>6 DEF DoingIsUnderway
    <3> QED BY <3>2, <3>3, <3>4, <3>5 DEF DriverInv
  <2>7. CASE api[id] # Absent
    <3>1. {"staged", "active", "pending"} \subseteq DOMAIN x
      BY <2>7 DEF DriverInv, DriverShapes
    <3> HIDE DEF s
    <3>2. /\ {"staged", "active", "pending"} \subseteq DOMAIN staged /\ staged.active = x.active
          /\ {"staged", "active", "pending"} \subseteq DOMAIN waits /\ waits.active = x.active
      BY <3>1 DEF stage, promise
    <3> HIDE DEF x, v, staged, waits
    <3>3. ASSUME NEW y, {"staged", "active", "pending"} \subseteq DOMAIN y, y.active = x.active,
                 api' = [api EXCEPT ![id] = <<y>>], UNCHANGED <<streams, stopped, doing, touched>>
          PROVE  DriverInv'
      <4>1. /\ DOMAIN api' = Ids /\ api'[id] # Absent /\ api'[id][1] = y
            /\ \A k \in Ids : k # id => api'[k] = api[k]
        BY <3>3 DEF DriverInv, DriverShapes, Absent
      <4>2. DOMAIN streams' = {Sender, Receiver} /\ DOMAIN doing' = {}
        BY <1>1, <3>3 DEF DriverInv, DriverShapes
      <4>3. \A z \in {streams'[Sender], stopped'} : z # Absent => z[1].port = OwnPort
        BY <3>3 DEF DriverInv, PortIsKept
      <4> QED BY <1>1, <2>1, <2>2, <2>7, <3>3, <4>1, <4>2, <4>3, StepKeeps DEF x
    <3>4. CASE activate(id, staged, [s EXCEPT !.mode = "immediate"])
      BY <1>1, <2>1, <2>2, <2>7, <3>2, <3>4, ActivationKeeps DEF x
    <3> QED BY <2>5, <2>6, <3>2, <3>3, <3>4
  <2> QED BY <2>5, <2>6, <2>7
<1> QED BY <1>2, <1>3 DEF nextOfRequest

\* The request begins to be served.
LEMMA HandleKeeps == ASSUME DriverInv, handle PROVE DriverInv'
<1>1. PICK q \in Queues : (\A k \in DOMAIN q : q[k] \in waitingIds) /\ dueNow' = q
  BY DEF handle
<1>2. /\ pc = "synced" /\ pc' = "handling" /\ asking' \in DriverRequests
      /\ UNCHANGED <<streams, stopped, api, seeded, doing, touched>>
  BY DEF handle
<1>3. dueNow' \in Seq(Ids)
  <2>1. PICK n \in 0..3 : q \in [1..n -> Ids]
    BY DEF Queues
  <2> QED BY <1>1, <2>1
<1>4. \A k \in DOMAIN dueNow' : api[dueNow'[k]] # Absent
  BY <1>1 DEF waitingIds
<1>5. DriverShapes'
  BY <1>2, <1>3, <1>4, DriverAssumption DEF DriverInv, DriverShapes
<1>6. \A k \in {Sender, Receiver} : listed(k)' = listed(k)
  BY <1>2, Listed, ListedThen
<1>7. OnWhenLevelled' /\ SeededFirst' /\ CopyIsCurrent' /\ PortIsKept'
  BY <1>2, <1>6 DEF DriverInv, OnWhenLevelled, Levelled, SeededFirst, CopyIsCurrent, PortIsKept
<1>8. DoingIsUnderway'
  BY <1>2 DEF DriverInv, DoingIsUnderway, Underway
<1> QED BY <1>5, <1>7, <1>8 DEF DriverInv

\* What others do to a stream is nobody's activation, and leaves the port.
LEMMA ChangeKeeps ==
  ASSUME DriverInv, NEW id \in {Sender, Receiver}, NEW stream, Change(id, stream),
         id = Sender => stream = Absent \/ stream[1].port = OwnPort
  PROVE  DriverInv'
<1>1. /\ streams' = [streams EXCEPT ![id] = stream] /\ touched' = touched \cup {id}
      /\ doing' = [k \in DOMAIN doing |->
                     IF streamOf(doing[k].id) = id THEN [doing[k] EXCEPT !.plan.intact = FALSE]
                     ELSE doing[k]]
      /\ UNCHANGED <<stopped, api, seeded, pc, dueNow, asking>>
  BY DEF Change
<1>2. /\ DOMAIN streams' = {Sender, Receiver} /\ streams'[id] = stream
      /\ \A k \in {Sender, Receiver} : k # id => streams'[k] = streams[k]
  BY <1>1 DEF DriverInv, DriverShapes
<1>3. \A k \in {Sender, Receiver} \ touched' : listed(k)' = listed(k)
  BY <1>1, <1>2, Listed, ListedThen
<1>4. DriverShapes' /\ SeededFirst'
  BY <1>1, <1>2 DEF DriverInv, DriverShapes, SeededFirst
<1>5. CopyIsCurrent' /\ OnWhenLevelled'
  BY <1>1, <1>3 DEF DriverInv, CopyIsCurrent, OnWhenLevelled, Levelled
<1>6. PortIsKept'
  BY <1>1, <1>2 DEF DriverInv, PortIsKept
<1>7. ASSUME NEW k \in DOMAIN doing PROVE Underway(doing'[k])
  <2>1. Underway(doing[k])
    BY DEF DriverInv, DoingIsUnderway
  <2> DEFINE d == doing[k]
             e == [d EXCEPT !.plan.intact = FALSE]
  <2>2. doing'[k] \in {d, e}
    BY <1>1
  <2>3. Underway(e)
    <3>1. /\ DOMAIN e = DOMAIN d /\ e.id = d.id /\ e.chosen = d.chosen
          /\ e.plan = [d.plan EXCEPT !.intact = FALSE]
      BY <2>1 DEF Underway
    <3> HIDE DEF e
    <3>2. DOMAIN e.plan = DOMAIN d.plan /\ e.plan.calls = d.plan.calls /\ e.plan.want = d.plan.want
      BY <2>1, <3>1 DEF Underway, PlanOf
    <3> QED BY <2>1, <3>1, <3>2 DEF Underway, PlanOf
  <2> HIDE DEF e
  <2> QED BY <2>1, <2>2, <2>3
<1>8. DoingIsUnderway'
  <2>1. DOMAIN doing' = DOMAIN doing
    BY <1>1
  <2> QED BY <1>1, <1>7, <2>1 DEF DoingIsUnderway, Underway, PlanOf
<1> QED BY <1>4, <1>5, <1>6, <1>8 DEF DriverInv

LEMMA NextKeepsDriverInv == DriverInv /\ [DriverNext]_driverVars => DriverInv'
<1> SUFFICES ASSUME DriverInv, [DriverNext]_driverVars PROVE DriverInv'
  OBVIOUS
\* A step that leaves streams and API alone.
<1>1. ASSUME UNCHANGED <<streams, stopped, api, seeded, dueNow, asking, doing, touched>>,
             pc' = pc \/ (pc' = "idle" /\ doing = <<>>)
      PROVE  DriverInv'
  <2>1. \A k \in {Sender, Receiver} : listed(k)' = listed(k)
    BY <1>1, Listed, ListedThen
  <2>2. DriverShapes' /\ SeededFirst' /\ PortIsKept'
    BY <1>1 DEF DriverInv, DriverShapes, SeededFirst, PortIsKept
  <2>3. CopyIsCurrent' /\ OnWhenLevelled'
    BY <1>1, <2>1 DEF DriverInv, CopyIsCurrent, OnWhenLevelled, Levelled
  <2>4. DoingIsUnderway'
    BY <1>1 DEF DriverInv, DoingIsUnderway, Underway, PlanOf
  <2> QED BY <2>2, <2>3, <2>4 DEF DriverInv
<1>2. CASE UNCHANGED driverVars
  BY <1>1, <1>2 DEF driverVars
<1>3. CASE answerRequest
  BY <1>1, <1>3 DEF answerRequest
<1>4. ASSUME NEW id \in {Sender, Receiver}, streamRemoved(id) \/ streamAdded(id) PROVE DriverInv'
  <2>1. CASE streamRemoved(id)
    BY <2>1, ChangeKeeps DEF streamRemoved
  <2>2. CASE streamAdded(id)
    <3> DEFINE added == Stream(1, 2, IF id = Sender THEN OwnPort ELSE Ephemeral)
    <3>1. Change(id, added) /\ (id = Sender => added[1].port = OwnPort)
      BY <2>2, StreamIsPresent DEF streamAdded
    <3> HIDE DEF added
    <3> QED BY <3>1, ChangeKeeps
  <2> QED BY <1>4, <2>1, <2>2
<1>5. ASSUME NEW g \in Groups, sinkFollows(g) PROVE DriverInv'
  <2>1. PICK stream : Change(Receiver, stream)
    BY <1>5 DEF sinkFollows
  <2> QED BY <2>1, ChangeKeeps DEF Sender, Receiver
<1> QED BY <1>2, <1>3, <1>4, <1>5, SyncKeeps, HandleKeeps, NextOfRequestKeeps, RemoveKeeps,
           OpenKeeps, RepointKeeps DEF DriverNext

\* When a request has been copied for, a resource is active exactly when the driver has
\* its stream, unless the stream was moved by other than its own activation, and a
\* sender's source port survives every stop, start and move (ConnectionAPIServer.cpp,
\* AES67Device.cpp): for any number of requests, with any patches and any promises due
\* in one of them, however the sockets answer and others meddle between the calls.
THEOREM DriverAlwaysAgrees == DriverSpec => []DriverAgrees
<1>1. DriverInit => DriverInv
  BY InitDriverInv
<1>2. DriverInv /\ [DriverNext]_driverVars => DriverInv'
  BY NextKeepsDriverInv
<1>3. DriverInv => DriverAgrees
  <2> SUFFICES ASSUME DriverInv, pc = "synced", NEW id \in {Sender, Receiver} \ touched
               PROVE  IF streams[id] = Absent THEN api[id] = Absent
                      ELSE api[id] # Absent /\ api[id][1].active.enable
    BY DEF DriverAgrees, DriverInv, OnIsOn
  <2>1. id \in Ids /\ seeded[id] = present(streams[id]) /\ listed(id) = present(streams[id])
    BY Listed DEF Ids, DriverInv, CopyIsCurrent
  <2> QED BY <2>1, PresentUnlessAbsent DEF DriverInv, SeededFirst, OnWhenLevelled, Levelled
<1> QED BY <1>1, <1>2, <1>3, PTL DEF DriverSpec

-----------------------------------------------------------------------------
(***************************************************************************)
(* The RAVENNA daemon's two APIs, proved for any number of receivers and   *)
(* channels.  The properties are proved of the value a request makes of    *)
(* the node, operator by operator, and carried through the due activations *)
(* by induction over the receivers' ids.  What has to be added is that the *)
(* sender's transport file is always an SDP, from which its group is read, *)
(* and that a file which is an SDP has channels, without which a stream    *)
(* that is placed would carry nothing.                                     *)
(***************************************************************************)

\* Records that are changed field by field have their fields, and files are files.
StateShape(s) == {"enable", "file", "group", "mode"} \subseteq DOMAIN s /\ SomeFile(s.file)
ResourceShape(x) ==
  /\ {"staged", "active", "pending"} \subseteq DOMAIN x
  /\ StateShape(x.staged) /\ StateShape(x.active)
  /\ x.pending # NotWaiting => StateShape(x.pending[1])
NodeShape(n) ==
  /\ {"rx", "tx", "sdp", "dropped", "maps", "remembered"} \subseteq DOMAIN n
  /\ DOMAIN n.rx = Receivers /\ DOMAIN n.maps = Receivers
  /\ \A r \in Receivers : ResourceShape(n.rx[r])
  /\ \A r \in Receivers : {"width", "start", "routes", "file"} \subseteq DOMAIN n.maps[r]
  /\ ResourceShape(n.tx)
  /\ SomeFile(n.sdp) /\ n.sdp.kind = "sdp"

\* HostAgrees of a node, receiver by receiver.
CarriesActive(n, r) ==
  /\ connected(n.maps[r]) =>
       /\ n.rx[r].active.enable /\ n.rx[r].active.file = n.maps[r].file
       /\ n.maps[r].file.kind = "sdp" => n.rx[r].active.group = n.maps[r].file.group
  /\ n.rx[r].active.enable /\ r \notin n.dropped => connected(n.maps[r])
SendsActive(n) == n.tx.active.mode # "null" => n.tx.active.group = n.sdp.group

NodeOK(n) ==
  /\ NodeShape(n)
  /\ disjoint(n.maps)
  /\ \A r \in Receivers : CarriesActive(n, r)
  /\ SendsActive(n)

PatchbayInv == NodeOK(node)

\* What is chosen of a state: a file that says the group.
LEMMA ResolvedShape ==
  ASSUME NEW s, StateShape(s)
  PROVE  LET c == resolved(s)
         IN  /\ StateShape(c) /\ c.enable = s.enable /\ c.file.kind = s.file.kind
             /\ c.file.kind = "sdp" => c.group = c.file.group
<1> DEFINE g == legGroup(s)
           f == followSdpToLeg(s.file, g)
<1>1. g \in Groups \cup {Null} /\ (s.file.kind = "sdp" /\ g = Null => s.file.group = Null)
  BY GroupAssumption DEF legGroup, StateShape, SomeFile, Files, Null
<1>2. SomeFile(f) /\ f.kind = s.file.kind /\ (f.kind = "sdp" => f.group = g)
  BY <1>1 DEF followSdpToLeg, StateShape, SomeFile, Files
<1>3. resolved(s) = [s EXCEPT !.group = g, !.file = f]
  BY DEF resolved
<1> HIDE DEF g, f
<1> QED BY <1>2, <1>3 DEF StateShape

LEMMA TookShape ==
  ASSUME NEW x, ResourceShape(x), NEW s, StateShape(s)
  PROVE  ResourceShape(took(x, s)) /\ took(x, s).active = s
<1>1. took(x, s) = [x EXCEPT !.active = s, !.staged = [x.staged EXCEPT !.mode = "null"]]
  BY DEF took, ResourceShape
<1>2. StateShape([x.staged EXCEPT !.mode = "null"])
  BY DEF ResourceShape, StateShape
<1> QED BY <1>1, <1>2 DEF ResourceShape

-----------------------------------------------------------------------------

\* A node with the channels of one receiver replaced.
LEMMA PlacedOn ==
  ASSUME NEW n, NodeShape(n), NEW r \in Receivers, NEW m,
         {"width", "start", "routes", "file"} \subseteq DOMAIN m
  PROVE  LET p == [n EXCEPT !.maps[r] = m]
         IN  /\ NodeShape(p) /\ p.maps[r] = m
             /\ \A q \in Receivers \ {r} : p.maps[q] = n.maps[q]
             /\ p.rx = n.rx /\ p.tx = n.tx /\ p.sdp = n.sdp /\ p.dropped = n.dropped
<1> DEFINE p == [n EXCEPT !.maps[r] = m]
<1>1. /\ DOMAIN p = DOMAIN n /\ p.maps = [n.maps EXCEPT ![r] = m]
      /\ p.rx = n.rx /\ p.tx = n.tx /\ p.sdp = n.sdp /\ p.dropped = n.dropped
  BY DEF NodeShape
<1> HIDE DEF p
<1>2. DOMAIN p.maps = Receivers /\ p.maps[r] = m /\ \A q \in Receivers \ {r} : p.maps[q] = n.maps[q]
  BY <1>1 DEF NodeShape
<1>3. NodeShape(p)
  BY <1>1, <1>2 DEF NodeShape
<1> QED BY <1>1, <1>2, <1>3 DEF p

LEMMA UnmappedShape ==
  /\ {"width", "start", "routes", "file"} \subseteq DOMAIN Unmapped
  /\ deviceChannels(Unmapped) = {} /\ ~connected(Unmapped)
<1>1. \A c \in Channels : c \in Int
  <2>1. PICK k \in Nat : k = Cardinality(Channels)
    BY PatchbayAssumption, FS_CardinalityType
  <2>2. Channels = 0..(k - 1)
    BY <2>1, PatchbayAssumption
  <2> QED BY <2>2
<1> QED BY <1>1 DEF Unmapped, deviceChannels, connected

\* Channels that nobody else has may be given to a receiver.
LEMMA DisjointPlaced ==
  ASSUME NEW old, NEW new, NEW r \in Receivers, disjoint(old),
         \A q \in Receivers \ {r} : new[q] = old[q],
         \A q \in Receivers \ {r} : deviceChannels(new[r]) \cap deviceChannels(old[q]) = {}
  PROVE  disjoint(new)
<1> SUFFICES ASSUME NEW x \in Receivers, NEW y \in Receivers, x # y
             PROVE  deviceChannels(new[x]) \cap deviceChannels(new[y]) = {}
  BY DEF disjoint
<1>1. CASE x = r
  BY <1>1
<1>2. CASE y = r
  BY <1>2
<1>3. CASE x # r /\ y # r
  BY <1>3 DEF disjoint
<1> QED BY <1>1, <1>2, <1>3

\* apply(): what is placed is placed on free channels; what is refused keeps its
\* channels or loses them.
LEMMA ApplyPlaces ==
  ASSUME NEW n, NodeShape(n), disjoint(n.maps), NEW r \in Receivers,
         NEW file, SomeFile(file), NEW enable
  PROVE  LET host == apply(n, r, file, enable)
         IN  /\ NodeShape(host.n) /\ disjoint(host.n.maps)
             /\ host.n.rx = n.rx /\ host.n.tx = n.tx /\ host.n.sdp = n.sdp
             /\ host.n.dropped = n.dropped
             /\ \A q \in Receivers \ {r} : host.n.maps[q] = n.maps[q]
             /\ connected(host.n.maps[r]) /\ host.ok => enable /\ host.n.maps[r].file = file
             /\ enable /\ host.ok => connected(host.n.maps[r])
             /\ connected(host.n.maps[r]) /\ ~host.ok => host.n.maps[r] = n.maps[r]
<1> DEFINE host == apply(n, r, file, enable)
           freed == release(n, r)
<1>1. /\ NodeShape(freed) /\ freed.maps[r] = Unmapped
      /\ \A q \in Receivers \ {r} : freed.maps[q] = n.maps[q]
      /\ freed.rx = n.rx /\ freed.tx = n.tx /\ freed.sdp = n.sdp /\ freed.dropped = n.dropped
  BY PlacedOn, UnmappedShape DEF release
<1> HIDE DEF freed
<1>2. disjoint(freed.maps)
  BY <1>1, UnmappedShape, DisjointPlaced
<1>3. CASE ~enable
  <2>1. host = [ok |-> TRUE, n |-> freed]
    BY <1>3 DEF apply, freed
  <2> HIDE DEF host
  <2> QED BY <1>1, <1>2, <1>3, <2>1, UnmappedShape DEF host
<1>4. CASE enable /\ file.kind = "bad"
  <2>1. host = [ok |-> FALSE, n |-> n]
    BY <1>4 DEF apply
  <2> HIDE DEF host
  <2> QED BY <2>1 DEF host
<1>5. CASE enable /\ file.kind # "bad"
  <2> DEFINE w == IF file.kind = "none" THEN DefaultWidth ELSE file.width
             blocks == freeBlocks(freed, w)
             placed == [width |-> w, start |-> CHOOSE b \in blocks : \A k \in blocks : b <= k,
                        routes |-> rememberedFor(n, r, w), file |-> file]
             taken == [freed EXCEPT !.maps[r] = placed]
  <2>1. host = IF blocks = {} \/ ~(deviceChannels(placed) \subseteq freeChannels(freed))
               THEN [ok |-> FALSE, n |-> freed] ELSE [ok |-> TRUE, n |-> taken]
    BY <1>5 DEF apply, freed
  <2>2. {"width", "start", "routes", "file"} \subseteq DOMAIN placed /\ placed.file = file
        /\ connected(placed)
    <3>1. w > 0
      BY <1>5 DEF SomeFile, Files, DefaultWidth
    <3> HIDE DEF w
    <3> QED BY <3>1 DEF connected
  <2> HIDE DEF placed, blocks, w
  <2>3. /\ NodeShape(taken) /\ taken.maps[r] = placed
        /\ \A q \in Receivers \ {r} : taken.maps[q] = freed.maps[q]
        /\ taken.rx = freed.rx /\ taken.tx = freed.tx /\ taken.sdp = freed.sdp
        /\ taken.dropped = freed.dropped
    BY <1>1, <2>2, PlacedOn
  <2> HIDE DEF taken
  <2>4. ASSUME deviceChannels(placed) \subseteq freeChannels(freed) PROVE disjoint(taken.maps)
    <3>1. \A q \in Receivers \ {r} : deviceChannels(placed) \cap deviceChannels(freed.maps[q]) = {}
      BY <2>4 DEF freeChannels
    <3>2. \A q \in Receivers \ {r} :
             deviceChannels(taken.maps[r]) \cap deviceChannels(freed.maps[q]) = {}
      BY <2>3, <3>1
    <3>3. \A q \in Receivers \ {r} : taken.maps[q] = freed.maps[q]
      BY <2>3
    <3> HIDE DEF freed, taken
    <3> QED BY <1>2, <3>2, <3>3, DisjointPlaced
  <2>5. CASE blocks = {} \/ ~(deviceChannels(placed) \subseteq freeChannels(freed))
    <3>1. host = [ok |-> FALSE, n |-> freed]
      BY <2>1, <2>5
    <3> HIDE DEF host
    <3> QED BY <1>1, <1>2, <3>1, UnmappedShape DEF host
  <2>6. CASE blocks # {} /\ deviceChannels(placed) \subseteq freeChannels(freed)
    <3>1. host = [ok |-> TRUE, n |-> taken]
      BY <2>1, <2>6
    <3>2. disjoint(taken.maps)
      BY <2>4, <2>6
    <3>3. /\ taken.rx = n.rx /\ taken.tx = n.tx /\ taken.sdp = n.sdp /\ taken.dropped = n.dropped
          /\ \A q \in Receivers \ {r} : taken.maps[q] = n.maps[q]
      BY <1>1, <2>3
    <3> HIDE DEF host
    <3>4. host.ok = TRUE /\ host.n = taken
      BY <3>1
    <3> QED BY <1>5, <2>2, <2>3, <3>2, <3>3, <3>4 DEF host
  <2> QED BY <2>5, <2>6
<1> QED BY <1>3, <1>4, <1>5

\* A node with one receiver's resource replaced.
LEMMA ResourceOn ==
  ASSUME NEW n, NodeShape(n), NEW r \in Receivers, NEW x, ResourceShape(x)
  PROVE  LET p == [n EXCEPT !.rx[r] = x]
         IN  /\ NodeShape(p) /\ p.rx[r] = x
             /\ \A q \in Receivers \ {r} : p.rx[q] = n.rx[q]
             /\ p.maps = n.maps /\ p.tx = n.tx /\ p.sdp = n.sdp /\ p.dropped = n.dropped
<1> DEFINE p == [n EXCEPT !.rx[r] = x]
<1>1. /\ DOMAIN p = DOMAIN n /\ p.rx = [n.rx EXCEPT ![r] = x]
      /\ p.maps = n.maps /\ p.tx = n.tx /\ p.sdp = n.sdp /\ p.dropped = n.dropped
  BY DEF NodeShape
<1> HIDE DEF p
<1>2. DOMAIN p.rx = Receivers /\ p.rx[r] = x /\ \A q \in Receivers \ {r} : p.rx[q] = n.rx[q]
  BY <1>1 DEF NodeShape
<1>3. NodeShape(p)
  BY <1>1, <1>2 DEF NodeShape
<1> QED BY <1>1, <1>2, <1>3 DEF p

\* A request that only stages or promises on a receiver: what is active is as before.
LEMMA StagedOn ==
  ASSUME NEW n, NodeOK(n), NEW r \in Receivers, NEW x, ResourceShape(x), x.active = n.rx[r].active
  PROVE  LET p == [n EXCEPT !.rx[r] = x]
         IN  NodeOK(p) /\ p.maps = n.maps
<1> DEFINE p == [n EXCEPT !.rx[r] = x]
<1>1. /\ NodeShape(p) /\ p.rx[r] = x
      /\ \A q \in Receivers \ {r} : p.rx[q] = n.rx[q]
      /\ p.maps = n.maps /\ p.tx = n.tx /\ p.sdp = n.sdp /\ p.dropped = n.dropped
  BY ResourceOn DEF NodeOK
<1> HIDE DEF p
<1>2. \A q \in Receivers : p.rx[q].active = n.rx[q].active
  BY <1>1
<1> QED BY <1>1, <1>2 DEF p, NodeOK, CarriesActive, SendsActive

\* A node of which the history says something else.
LEMMA DroppedOn ==
  ASSUME NEW n, NodeShape(n), NEW D
  PROVE  LET p == [n EXCEPT !.dropped = D]
         IN  /\ NodeShape(p) /\ p.dropped = D
             /\ p.rx = n.rx /\ p.maps = n.maps /\ p.tx = n.tx /\ p.sdp = n.sdp
<1> DEFINE p == [n EXCEPT !.dropped = D]
<1>1. /\ DOMAIN p = DOMAIN n /\ p.dropped = D
      /\ p.rx = n.rx /\ p.maps = n.maps /\ p.tx = n.tx /\ p.sdp = n.sdp
  BY DEF NodeShape
<1> HIDE DEF p
<1>2. NodeShape(p)
  BY <1>1 DEF NodeShape
<1> QED BY <1>1, <1>2 DEF p

LEMMA ActivateReceiverKeeps ==
  ASSUME NEW n, NodeOK(n), NEW r \in Receivers, NEW s, StateShape(s)
  PROVE  /\ NodeOK(activateReceiver(n, r, s))
         /\ \A q \in Receivers \ {r} : activateReceiver(n, r, s).rx[q] = n.rx[q]
<1> DEFINE chosen == resolved(s)
           host == apply(n, r, chosen.file, chosen.enable)
           lost == connected(n.maps[r]) /\ ~connected(host.n.maps[r])
           x == took(host.n.rx[r], chosen)
           placed == [host.n EXCEPT !.rx[r] = x]
           D == IF lost THEN n.dropped \cup {r} ELSE n.dropped
           p == [placed EXCEPT !.dropped = n.dropped \ {r}]
           o == [host.n EXCEPT !.dropped = D]
<1>1. StateShape(chosen) /\ (chosen.file.kind = "sdp" => chosen.group = chosen.file.group)
  BY ResolvedShape
<1> HIDE DEF chosen
<1>2. /\ NodeShape(host.n) /\ disjoint(host.n.maps)
      /\ host.n.rx = n.rx /\ host.n.tx = n.tx /\ host.n.sdp = n.sdp
      /\ host.n.dropped = n.dropped
      /\ \A q \in Receivers \ {r} : host.n.maps[q] = n.maps[q]
      /\ connected(host.n.maps[r]) /\ host.ok => chosen.enable /\ host.n.maps[r].file = chosen.file
      /\ chosen.enable /\ host.ok => connected(host.n.maps[r])
      /\ connected(host.n.maps[r]) /\ ~host.ok => host.n.maps[r] = n.maps[r]
  BY <1>1, ApplyPlaces DEF NodeOK, StateShape
<1>3. activateReceiver(n, r, s) = IF host.ok THEN p ELSE o
  <2>1. activateReceiver(n, r, s) =
          IF host.ok THEN [host.n EXCEPT !.rx[r] = took(@, chosen), !.dropped = @ \ {r}]
          ELSE [host.n EXCEPT !.dropped = IF lost THEN @ \cup {r} ELSE @]
    BY DEF activateReceiver, chosen
  <2> HIDE DEF host, lost
  <2> QED BY <1>2, <2>1 DEF NodeShape
<1> HIDE DEF host
<1>4. ResourceShape(x) /\ x.active = chosen
  BY <1>1, <1>2, TookShape DEF NodeShape
<1> HIDE DEF x
<1>5. /\ NodeShape(placed) /\ placed.rx[r] = x
      /\ \A q \in Receivers \ {r} : placed.rx[q] = host.n.rx[q]
      /\ placed.maps = host.n.maps /\ placed.tx = host.n.tx /\ placed.sdp = host.n.sdp
  BY <1>2, <1>4, ResourceOn
<1> HIDE DEF placed, D
<1>6. CASE host.ok
  <2>1. /\ NodeShape(p) /\ p.dropped = n.dropped \ {r}
        /\ p.rx = placed.rx /\ p.maps = placed.maps /\ p.tx = placed.tx /\ p.sdp = placed.sdp
    BY <1>5, DroppedOn
  <2> HIDE DEF p
  <2>2. ASSUME NEW q \in Receivers PROVE CarriesActive(p, q)
    <3>1. CASE q = r
      BY <1>1, <1>2, <1>4, <1>5, <1>6, <2>1, <3>1 DEF CarriesActive
    <3>2. CASE q # r
      <4>1. /\ p.maps[q] = n.maps[q] /\ p.rx[q] = n.rx[q]
            /\ q \in p.dropped <=> q \in n.dropped
        BY <1>2, <1>5, <2>1, <3>2
      <4> QED BY <4>1 DEF CarriesActive, NodeOK
    <3> QED BY <3>1, <3>2
  <2>3. SendsActive(p)
    BY <1>2, <1>5, <2>1 DEF SendsActive, NodeOK
  <2>4. disjoint(p.maps) /\ \A q \in Receivers \ {r} : p.rx[q] = n.rx[q]
    BY <1>2, <1>5, <2>1
  <2> QED BY <1>3, <1>6, <2>1, <2>2, <2>3, <2>4 DEF NodeOK
<1>7. CASE ~host.ok
  <2>1. /\ NodeShape(o) /\ o.dropped = D
        /\ o.rx = host.n.rx /\ o.maps = host.n.maps /\ o.tx = host.n.tx /\ o.sdp = host.n.sdp
    BY <1>2, DroppedOn
  <2> HIDE DEF o
  <2>2. ASSUME NEW q \in Receivers PROVE CarriesActive(o, q)
    <3>1. CASE q = r
      <4>1. lost => r \in o.dropped
        BY <2>1 DEF D
      <4>2. ~lost => (r \in o.dropped <=> r \in n.dropped)
        BY <2>1 DEF D
      <4>3. CarriesActive(n, r) /\ o.rx[r] = n.rx[r] /\ o.maps[r] = host.n.maps[r]
        BY <1>2, <2>1 DEF NodeOK
      <4>4. connected(host.n.maps[r]) => host.n.maps[r] = n.maps[r]
        BY <1>2, <1>7
      <4> QED BY <3>1, <4>1, <4>2, <4>3, <4>4 DEF CarriesActive
    <3>2. CASE q # r
      <4>1. /\ o.maps[q] = n.maps[q] /\ o.rx[q] = n.rx[q]
            /\ q \in o.dropped <=> q \in n.dropped
        BY <1>2, <2>1, <3>2 DEF D
      <4> QED BY <4>1 DEF CarriesActive, NodeOK
    <3> QED BY <3>1, <3>2
  <2>3. SendsActive(o)
    BY <1>2, <2>1 DEF SendsActive, NodeOK
  <2>4. disjoint(o.maps) /\ \A q \in Receivers \ {r} : o.rx[q] = n.rx[q]
    BY <1>2, <2>1
  <2> QED BY <1>3, <1>7, <2>1, <2>2, <2>3, <2>4 DEF NodeOK
<1> QED BY <1>6, <1>7

\* A request that only stages or promises on the sender.
LEMMA StagedOnSender ==
  ASSUME NEW n, NodeOK(n), NEW x, ResourceShape(x), x.active = n.tx.active
  PROVE  LET p == [n EXCEPT !.tx = x]
         IN  /\ NodeOK(p) /\ p.maps = n.maps
             /\ p.tx = x /\ p.sdp = n.sdp
<1> DEFINE p == [n EXCEPT !.tx = x]
<1>1. /\ DOMAIN p = DOMAIN n /\ p.rx = n.rx /\ p.maps = n.maps /\ p.tx = x /\ p.sdp = n.sdp
      /\ p.dropped = n.dropped
  BY DEF NodeOK, NodeShape
<1> HIDE DEF p
<1>2. NodeShape(p)
  BY <1>1 DEF NodeOK, NodeShape
<1> QED BY <1>1, <1>2 DEF p, NodeOK, CarriesActive, SendsActive

LEMMA ActivateSenderKeeps ==
  ASSUME NEW n, NodeOK(n), NEW s, StateShape(s)
  PROVE  NodeOK(activateSender(n, s)) /\ activateSender(n, s).rx = n.rx
<1> DEFINE chosen == resolved([s EXCEPT !.file = n.sdp])
           x == [took(n.tx, chosen) EXCEPT !.staged.file = chosen.file]
           p == [n EXCEPT !.tx = x, !.sdp = chosen.file]
<1>1. activateSender(n, s) = p
  BY DEF activateSender, NodeOK, NodeShape
<1>2. StateShape([s EXCEPT !.file = n.sdp]) /\ [s EXCEPT !.file = n.sdp].file = n.sdp
  BY DEF StateShape, NodeOK, NodeShape
<1>3. StateShape(chosen) /\ chosen.file.kind = "sdp" /\ chosen.group = chosen.file.group
  BY <1>2, ResolvedShape DEF NodeOK, NodeShape
<1> HIDE DEF chosen
<1>4. ResourceShape(took(n.tx, chosen)) /\ took(n.tx, chosen).active = chosen
  BY <1>3, TookShape DEF NodeOK, NodeShape
<1>5. ResourceShape(x) /\ x.active = chosen
  <2> DEFINE y == took(n.tx, chosen)
  <2> HIDE DEF y
  <2>1. x = [y EXCEPT !.staged = [y.staged EXCEPT !.file = chosen.file]]
    BY <1>4 DEF y, ResourceShape
  <2>2. StateShape([y.staged EXCEPT !.file = chosen.file])
    BY <1>3, <1>4 DEF y, ResourceShape, StateShape
  <2> HIDE DEF x
  <2> QED BY <1>4, <2>1, <2>2 DEF y, ResourceShape
<1> HIDE DEF x
<1>6. /\ DOMAIN p = DOMAIN n /\ p.rx = n.rx /\ p.maps = n.maps /\ p.tx = x /\ p.sdp = chosen.file
      /\ p.dropped = n.dropped
  BY DEF NodeOK, NodeShape
<1> HIDE DEF p
<1>7. NodeShape(p)
  BY <1>3, <1>5, <1>6 DEF NodeOK, NodeShape, StateShape
<1>8. NodeOK(p)
  BY <1>3, <1>5, <1>6, <1>7 DEF NodeOK, CarriesActive, SendsActive
<1> QED BY <1>1, <1>6, <1>8

-----------------------------------------------------------------------------
(* Promises *)

LEMMA ForgottenShape ==
  ASSUME NEW x, ResourceShape(x)
  PROVE  ResourceShape(forgetPromise(x)) /\ forgetPromise(x).active = x.active
BY DEF ResourceShape, forgetPromise, NotWaiting

LEMMA FireReceiverKeeps ==
  ASSUME NEW n, NodeOK(n), NEW r \in Receivers, n.rx[r].pending # NotWaiting
  PROVE  NodeOK(fireReceiver(n, r))
<1> DEFINE x == forgetPromise(n.rx[r])
           p == [n EXCEPT !.rx[r] = x]
<1>1. ResourceShape(x) /\ x.active = n.rx[r].active /\ StateShape(due(n.rx[r]))
  BY ForgottenShape DEF NodeOK, NodeShape, ResourceShape, due
<1>2. fireReceiver(n, r) = activateReceiver(p, r, due(n.rx[r]))
  BY DEF fireReceiver, NodeOK, NodeShape
<1> HIDE DEF x
<1>3. NodeOK(p)
  BY <1>1, StagedOn
<1> HIDE DEF p
<1> QED BY <1>1, <1>2, <1>3, ActivateReceiverKeeps

LEMMA FireSenderKeeps ==
  ASSUME NEW n, NodeOK(n), n.tx.pending # NotWaiting
  PROVE  NodeOK(fireSender(n))
<1> DEFINE x == forgetPromise(n.tx)
           p == [n EXCEPT !.tx = x]
<1>1. ResourceShape(x) /\ x.active = n.tx.active /\ StateShape(due(n.tx))
  BY ForgottenShape DEF NodeOK, NodeShape, ResourceShape, due
<1>2. fireSender(n) = activateSender(p, due(n.tx))
  BY DEF fireSender, NodeOK, NodeShape
<1> HIDE DEF x
<1>3. NodeOK(p)
  BY <1>1, StagedOnSender
<1> HIDE DEF p
<1> QED BY <1>1, <1>2, <1>3, ActivateSenderKeeps

\* No activation of another makes or breaks a promise.
LEMMA PromisesOfOthers ==
  ASSUME NEW n, NodeOK(n), NEW r \in Receivers, n.rx[r].pending # NotWaiting
  PROVE  \A q \in Receivers \ {r} : fireReceiver(n, r).rx[q] = n.rx[q]
<1> DEFINE x == forgetPromise(n.rx[r])
           p == [n EXCEPT !.rx[r] = x]
<1>1. ResourceShape(x) /\ x.active = n.rx[r].active /\ StateShape(due(n.rx[r]))
  BY ForgottenShape DEF NodeOK, NodeShape, ResourceShape, due
<1>2. fireReceiver(n, r) = activateReceiver(p, r, due(n.rx[r]))
  BY DEF fireReceiver, NodeOK, NodeShape
<1> HIDE DEF x
<1>3. NodeOK(p) /\ \A q \in Receivers \ {r} : p.rx[q] = n.rx[q]
  BY <1>1, StagedOn, ResourceOn DEF NodeOK
<1> HIDE DEF p
<1> QED BY <1>1, <1>2, <1>3, ActivateReceiverKeeps

\* All the due activations of one request: the sender's, then the receivers' by id.
LEMMA DueKeeps ==
  ASSUME NEW n, NodeOK(n), NEW p \in Due(n)
  PROVE  NodeOK(p)
<1>1. PICK N \in Nat : N = Cardinality(Receivers)
  BY PatchbayAssumption, FS_CardinalityType
<1>2. Receivers = 1..N
  BY <1>1, PatchbayAssumption
<1>3. PICK D \in SUBSET waiting(n) : p = applyDueActivations(n, D)
  BY DEF Due
<1> DEFINE first == IF 0 \in D THEN fireSender(n) ELSE n
           Steps(f) == [r \in 0..N |->
                          IF r = TheSender THEN (IF r \in D THEN fireSender(n) ELSE n)
                          ELSE IF r \in D THEN fireReceiver(f[r - 1], r) ELSE f[r - 1]]
           fired == CHOOSE f : f = Steps(f)
<1>4. p = fired[N]
  BY <1>1, <1>3 DEF applyDueActivations
<1> USE DEF TheSender
\* The recursion is well defined, by induction on how far it has come.
<1>5. \E f : f = Steps(f)
  <2> DEFINE Upto(f, k) == \A r \in 0..k :
               f[r] = IF r = 0 THEN first
                      ELSE IF r \in D THEN fireReceiver(f[r - 1], r) ELSE f[r - 1]
             S == {k \in Nat : \E f : Upto(f, k)}
  <2>1. 0 \in S
    <3> DEFINE f == [r \in 0..0 |-> first]
    <3>1. 0..0 = {0} /\ f[0] = first
      OBVIOUS
    <3> HIDE DEF f
    <3>2. Upto(f, 0)
      BY <3>1
    <3> QED BY <3>2
  <2>2. \A k \in Nat : k \in S => k + 1 \in S
    <3> SUFFICES ASSUME NEW k \in Nat, NEW f, Upto(f, k) PROVE \E g : Upto(g, k + 1)
      OBVIOUS
    <3> DEFINE last == IF k + 1 \in D THEN fireReceiver(f[k], k + 1) ELSE f[k]
               g == [r \in 0..(k + 1) |-> IF r = k + 1 THEN last ELSE f[r]]
    <3>1. ASSUME NEW r \in 0..(k + 1)
          PROVE  g[r] = IF r = 0 THEN first
                        ELSE IF r \in D THEN fireReceiver(g[r - 1], r) ELSE g[r - 1]
      <4>1. CASE r = k + 1
        <5>1. g[r] = last /\ g[r - 1] = f[k] /\ r # 0 /\ r - 1 = k
          BY <4>1
        <5> QED BY <4>1, <5>1
      <4>2. CASE r # k + 1
        <5>1. r \in 0..k /\ g[r] = f[r]
          BY <4>2
        <5>2. r # 0 => r - 1 \in 0..(k + 1) /\ r - 1 # k + 1
          BY <5>1
        <5>3. r # 0 => g[r - 1] = f[r - 1]
          BY <5>2
        <5> HIDE DEF g
        <5> QED BY <5>1, <5>3
      <4> QED BY <4>1, <4>2
    <3> QED BY <3>1
  <2> HIDE DEF S
  <2>3. N \in S
    BY <2>1, <2>2, SetInduction
  <2>4. PICK f : Upto(f, N)
    BY <2>3 DEF S
  <2> DEFINE g == [r \in 0..N |-> f[r]]
  <2>5. g = Steps(g)
    <3>1. ASSUME NEW r \in 0..N
          PROVE  f[r] = IF r = 0 THEN first
                        ELSE IF r \in D THEN fireReceiver(g[r - 1], r) ELSE g[r - 1]
      <4>1. r # 0 => r - 1 \in 0..N
        OBVIOUS
      <4>2. r # 0 => g[r - 1] = f[r - 1]
        BY <4>1
      <4> HIDE DEF g
      <4> QED BY <2>4, <4>2
    <3> QED BY <3>1
  <2> QED BY <2>5
<1>6. fired = Steps(fired)
  BY <1>5
<1> HIDE DEF fired
<1>7. NodeOK(first) /\ first.rx = n.rx
  <2>1. CASE 0 \in D
    <3>1. n.tx.pending # NotWaiting
      BY <1>2, <2>1 DEF waiting
    <3>2. fireSender(n).rx = n.rx
      BY DEF fireSender, activateSender, NodeOK, NodeShape
    <3> QED BY <2>1, <3>1, <3>2, FireSenderKeeps
  <2>2. CASE 0 \notin D
    BY <2>2
  <2> QED BY <2>1, <2>2
<1> HIDE DEF first
\* After each receiver the node is in order and the later ones' promises stand.
<1> DEFINE Good(k) == /\ NodeOK(fired[k])
                      /\ \A q \in Receivers : q > k => fired[k].rx[q] = n.rx[q]
           G == {k \in Nat : k <= N => Good(k)}
<1>8. 0 \in G
  <2>1. fired[0] = first
    BY <1>6 DEF first
  <2> QED BY <1>7, <2>1
<1>9. \A k \in Nat : k \in G => k + 1 \in G
  <2> SUFFICES ASSUME NEW k \in Nat, Good(k), k + 1 <= N PROVE Good(k + 1)
    OBVIOUS
  <2>1. fired[k + 1] = IF k + 1 \in D THEN fireReceiver(fired[k], k + 1) ELSE fired[k]
    <3>1. k + 1 \in 0..N /\ k + 1 # 0 /\ (k + 1) - 1 = k
      OBVIOUS
    <3> QED BY <1>6, <3>1
  <2>2. k + 1 \in Receivers /\ k + 1 > k
    BY <1>2
  <2>3. \A q \in Receivers : q > k + 1 => q > k /\ q # k + 1
    BY <1>2
  <2>4. CASE k + 1 \notin D
    BY <2>1, <2>3, <2>4
  <2>5. CASE k + 1 \in D
    <3>1. fired[k].rx[k + 1].pending # NotWaiting
      BY <1>3, <2>2, <2>5 DEF waiting, TheSender
    <3>2. NodeOK(fireReceiver(fired[k], k + 1))
         
      BY <2>2, <3>1, FireReceiverKeeps
    <3>3. \A q \in Receivers \ {k + 1} : fireReceiver(fired[k], k + 1).rx[q] = fired[k].rx[q]
      BY <2>2, <3>1, PromisesOfOthers
    <3> QED BY <2>1, <2>3, <2>5, <3>2, <3>3
  <2> QED BY <2>4, <2>5
<1> HIDE DEF G
<1>10. N \in G
  BY <1>8, <1>9, SetInduction
<1> QED BY <1>4, <1>10 DEF G

-----------------------------------------------------------------------------
(* Requests *)

LEMMA StagedReceiverShape ==
  ASSUME NEW s, StateShape(s), NEW p, FileInPatch(p)
  PROVE  StateShape(stagedReceiver(s, p))
<1>1. StateShape(withEnable(s, p))
  BY DEF withEnable, StateShape
<1>2. StateShape(withFile(withEnable(s, p), p))
  BY <1>1 DEF withFile, FileInPatch, StateShape
<1> QED BY <1>2 DEF stagedReceiver, withParams, StateShape

LEMMA PatchReceiverKeeps ==
  ASSUME NEW n, NodeOK(n), NEW r \in Receivers, NEW p, FileInPatch(p)
  PROVE  NodeOK(patchStagedReceiver(n, r, p))
        
<1> DEFINE s == stagedReceiver(n.rx[r].staged, p)
           x == stage(n.rx[r], s)
           y == promise(n.rx[r], s)
           stored == [n EXCEPT !.rx[r] = x]
           promised == [n EXCEPT !.rx[r] = y]
           now == [s EXCEPT !.mode = "immediate"]
<1>1. StateShape(s)
  BY StagedReceiverShape DEF NodeOK, NodeShape, ResourceShape
<1>2. patchStagedReceiver(n, r, p) \in {n, stored, promised, activateReceiver(stored, r, now)}
  BY DEF patchStagedReceiver, NodeOK, NodeShape
<1> HIDE DEF s
<1>3. ResourceShape(x) /\ x.active = n.rx[r].active
  BY <1>1 DEF stage, NodeOK, NodeShape, ResourceShape
<1>4. ResourceShape(y) /\ y.active = n.rx[r].active
  <2>1. StateShape([s EXCEPT !.mode = "scheduled"])
    BY <1>1 DEF StateShape
  <2> QED BY <2>1 DEF promise, NodeOK, NodeShape, ResourceShape
<1>5. StateShape(now)
  BY <1>1 DEF StateShape
<1> HIDE DEF x, y, now
<1>6. NodeOK(stored)
  BY <1>3, StagedOn
<1>7. NodeOK(promised)
  BY <1>4, StagedOn
<1> HIDE DEF stored, promised
<1>8. NodeOK(activateReceiver(stored, r, now))
     
  BY <1>5, <1>6, ActivateReceiverKeeps
<1> QED BY <1>2, <1>6, <1>7, <1>8

LEMMA PatchSenderKeeps ==
  ASSUME NEW n, NodeOK(n), NEW p, FileInPatch(p)
  PROVE  NodeOK(patchStagedSender(n, p))
<1> DEFINE s == stagedSender(n.tx.staged, p, n.sdp)
           x == stage(n.tx, s)
           y == promise(n.tx, s)
           stored == [n EXCEPT !.tx = x]
           promised == [n EXCEPT !.tx = y]
           now == [s EXCEPT !.mode = "immediate"]
<1>1. StateShape(s)
  BY DEF stagedSender, withParams, withEnable, StateShape, NodeOK, NodeShape, ResourceShape
<1>2. patchStagedSender(n, p) \in {n, stored, promised, activateSender(stored, now)}
  BY DEF patchStagedSender, NodeOK, NodeShape
<1> HIDE DEF s
<1>3. ResourceShape(x) /\ x.active = n.tx.active
  BY <1>1 DEF stage, NodeOK, NodeShape, ResourceShape
<1>4. ResourceShape(y) /\ y.active = n.tx.active
  <2>1. StateShape([s EXCEPT !.mode = "scheduled"])
    BY <1>1 DEF StateShape
  <2> QED BY <2>1 DEF promise, NodeOK, NodeShape, ResourceShape
<1>5. StateShape(now)
  BY <1>1 DEF StateShape
<1> HIDE DEF x, y, now
<1>6. NodeOK(stored)
  BY <1>3, StagedOnSender
<1>7. NodeOK(promised)
  BY <1>4, StagedOnSender
<1> HIDE DEF stored, promised
<1>8. NodeOK(activateSender(stored, now))
     
  BY <1>5, <1>6, ActivateSenderKeeps
<1> QED BY <1>2, <1>6, <1>7, <1>8

\* A grid moves routes and neither streams nor widths, and is taken only if it
\* leaves the receivers apart.
LEMMA GridKeeps ==
  ASSUME NEW n, NodeOK(n), NEW cells
  PROVE  NodeOK(applyAction(n, cells))
<1>1. CASE ~takesGrid(n, cells)
  BY <1>1 DEF applyAction
<1>2. CASE takesGrid(n, cells)
  <2> DEFINE maps == laidOver(n, cells)
             kept == [r \in Receivers |-> IF connected(n.maps[r]) THEN n.remembered[r]
                                          ELSE regridded(n, r, cells)]
             p == [n EXCEPT !.maps = maps, !.remembered = kept]
  <2>1. applyAction(n, cells) = p
    BY <1>2 DEF applyAction, NodeOK, NodeShape
  <2>2. DOMAIN maps = Receivers /\ disjoint(maps)
    BY <1>2 DEF takesGrid, laidOver
  <2>3. ASSUME NEW r \in Receivers
        PROVE  /\ {"width", "start", "routes", "file"} \subseteq DOMAIN maps[r]
               /\ connected(maps[r]) <=> connected(n.maps[r])
               /\ connected(maps[r]) => maps[r].file = n.maps[r].file
    <3>1. CASE connected(n.maps[r])
      <4>1. maps[r] = [n.maps[r] EXCEPT !.routes = regridded(n, r, cells)]
        BY <3>1 DEF laidOver
      <4> QED BY <3>1, <4>1 DEF NodeOK, NodeShape, connected
    <3>2. CASE ~connected(n.maps[r])
      BY <3>2, UnmappedShape DEF laidOver
    <3> QED BY <3>1, <3>2
  <2> HIDE DEF maps, kept
  <2>4. /\ DOMAIN p = DOMAIN n /\ p.rx = n.rx /\ p.maps = maps /\ p.tx = n.tx /\ p.sdp = n.sdp
        /\ p.dropped = n.dropped
    BY DEF NodeOK, NodeShape
  <2> HIDE DEF p
  <2>5. NodeShape(p)
    BY <2>2, <2>3, <2>4 DEF NodeOK, NodeShape
  <2>6. \A r \in Receivers : CarriesActive(p, r)
    BY <2>3, <2>4 DEF NodeOK, CarriesActive
  <2> QED BY <2>1, <2>2, <2>4, <2>5, <2>6 DEF NodeOK, SendsActive
<1> QED BY <1>1, <1>2

LEMMA InitPatchbayInv == Init => PatchbayInv
<1> SUFFICES ASSUME Init PROVE PatchbayInv
  OBVIOUS
<1>1. SomeFile(OwnFile) /\ OwnFile.kind = "sdp" /\ SomeFile(NoFile)
  BY PatchbayAssumption DEF OwnFile, Sdp, NoFile, SomeFile, Files
<1>2. StateShape(Idle) /\ StateShape([Idle EXCEPT !.file = OwnFile])
  BY <1>1 DEF Idle, StateShape
<1>3. ResourceShape(Resource(Idle)) /\ ResourceShape(Resource([Idle EXCEPT !.file = OwnFile]))
  BY <1>2 DEF Resource, ResourceShape
<1>4. NodeShape(node)
  BY <1>1, <1>3, UnmappedShape DEF Init, NodeInit, NodeShape
<1>5. disjoint(node.maps) /\ \A r \in Receivers : CarriesActive(node, r)
  BY UnmappedShape DEF Init, NodeInit, disjoint, CarriesActive, Resource, Idle
<1>6. SendsActive(node)
  BY DEF Init, NodeInit, SendsActive, Resource, Idle
<1> QED BY <1>4, <1>5, <1>6 DEF PatchbayInv, NodeOK

LEMMA NextKeepsPatchbayInv == PatchbayInv /\ [Next]_vars => PatchbayInv'
<1> SUFFICES ASSUME NodeOK(node), [Next]_vars PROVE NodeOK(node')
  BY DEF PatchbayInv
<1>1. \A n \in Due(node) : NodeOK(n)
  BY DueKeeps
<1>2. CASE UNCHANGED vars
  BY <1>2 DEF vars
<1>3. CASE get
  BY <1>1, <1>3 DEF get
<1>4. ASSUME NEW r \in Receivers, NEW p \in Patches, patchReceiver(r, p) PROVE NodeOK(node')
  <2>1. FileInPatch(p)
    BY PatchbayAssumption
  <2> QED BY <1>1, <1>4, <2>1, PatchReceiverKeeps DEF patchReceiver
<1>5. ASSUME NEW p \in SenderPatches, patchSender(p) PROVE NodeOK(node')
  <2>1. FileInPatch(p)
    BY PatchbayAssumption
  <2> QED BY <1>1, <1>5, <2>1, PatchSenderKeeps DEF patchSender
<1>6. ASSUME NEW b \in Bulks, patchInBulk(b[1], b[2], b[3], b[4]) PROVE NodeOK(node')
  <2>1. PICK n \in Due(node) :
          node' = patchStagedReceiver(patchStagedReceiver(n, b[1], b[2]), b[3], b[4])
    BY <1>6 DEF patchInBulk
  <2>2. b[1] \in Receivers /\ b[3] \in Receivers /\ FileInPatch(b[2]) /\ FileInPatch(b[4])
    BY PatchbayAssumption
  <2>3. NodeOK(patchStagedReceiver(n, b[1], b[2]))
    BY <1>1, <2>2, PatchReceiverKeeps
  <2> QED BY <2>1, <2>2, <2>3, PatchReceiverKeeps
<1>7. CASE getGrid
  BY <1>7, GridKeeps DEF getGrid, afterDue
<1>8. CASE deleteActivation
  BY <1>8 DEF deleteActivation
<1>9. ASSUME NEW cells \in Grids, NEW scheduled \in BOOLEAN, postActivation(cells, scheduled)
      PROVE  NodeOK(node')
  <2>1. PICK isDue \in {FALSE, gridDue} :
          node' = IF (isDue \/ grid = <<>>) /\ ~scheduled THEN applyAction(afterDue(isDue), cells)
                  ELSE afterDue(isDue)
    BY <1>9 DEF postActivation
  <2>2. NodeOK(afterDue(isDue))
    BY GridKeeps DEF afterDue
  <2> QED BY <2>1, <2>2, GridKeeps
<1> QED BY <1>2, <1>3, <1>4, <1>5, <1>6, <1>7, <1>8, <1>9 DEF Next

\* Whatever mix of PATCHes, promises, grids and refusals led there: no device
\* channel is fed by two receivers, and a receiver carries a stream exactly when it is
\* active, and the one that is, unless it lost it to an activation that was then refused
\* (ConnectionApi.cpp, ReceiverRouting.cpp, ChannelMappingApi.cpp), for any number of
\* receivers and channels.
THEOREM PatchbayAlwaysAgrees == Spec => []PatchbayAgrees
<1>1. Init => PatchbayInv
  BY InitPatchbayInv
<1>2. PatchbayInv /\ [Next]_vars => PatchbayInv'
  BY NextKeepsPatchbayInv
<1>3. PatchbayInv => PatchbayAgrees
  BY DEF PatchbayInv, NodeOK, CarriesActive, SendsActive, PatchbayAgrees, OneFeed, HostAgrees
<1> QED BY <1>1, <1>2, <1>3, PTL DEF Spec
=============================================================================
