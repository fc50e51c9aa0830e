-------------------------- MODULE ObservationTable --------------------------
(***************************************************************************)
(* The bounded, ageing table behind the driver's two passive detectors:    *)
(* PTPPeerTable (who speaks PTP) and RTCPReceiverTable (who reports on our *)
(* streams).  Both keep a row for an identity read off the wire, evict the *)
(* least recently seen row when a new identity finds the table full, and   *)
(* drop silent rows only when somebody asks.                               *)
(*                                                                         *)
(* A row carries its age, the time since lastSeen, instead of lastSeen:    *)
(* ages stop growing one past the longest timeout (Old), where the code    *)
(* cannot tell two ages apart except to order them for eviction, which the *)
(* model leaves open between rows that are both Old.                       *)
(***************************************************************************)
EXTENDS Naturals, FiniteSets

CONSTANT Old

ASSUME AgeAssumption == Old \in Nat

Ages == 0..Old

grownOlder(age) == IF age = Old THEN Old ELSE age + 1

aged(rows) == [id \in DOMAIN rows |-> [rows[id] EXCEPT !.age = grownOlder(@)]]

\* Mutant: the full table drops the row that was seen last.
leastRecentlySeen_most(rows) ==
    {id \in DOMAIN rows : \A other \in DOMAIN rows : rows[other].age >= rows[id].age}

\* The rows std::min_element may return: nothing else was seen longer ago.
leastRecentlySeen(rows) ==
    {id \in DOMAIN rows : \A other \in DOMAIN rows : rows[other].age <= rows[id].age}

rowsWithout(rows, ids) == [id \in DOMAIN rows \ ids |-> rows[id]]

\* The tables a record() of id may leave before it writes the row.
roomFor(rows, id, capacity) ==
    IF id \notin DOMAIN rows /\ Cardinality(DOMAIN rows) >= capacity
    THEN {rowsWithout(rows, {oldest}) : oldest \in leastRecentlySeen(rows)}
    ELSE {rows}

put(rows, id, row) == [x \in DOMAIN rows \cup {id} |-> IF x = id THEN row ELSE rows[x]]

sweep(rows, timeout) == rowsWithout(rows, {id \in DOMAIN rows : rows[id].age > timeout})

(***************************************************************************)
(* What a table may answer.  heard is the age of the last recorded message *)
(* of every identity there is: no row outlives the timeout, and whoever    *)
(* was heard within it is missing only if capacity others were heard at    *)
(* least as recently.                                                      *)
(***************************************************************************)
AnswersTruly(shown, heard, timeout, capacity) ==
    \A id \in DOMAIN heard :
        /\ id \in shown => heard[id] <= timeout
        /\ (id \notin shown /\ heard[id] <= timeout) =>
               Cardinality({x \in DOMAIN heard \ {id} : heard[x] <= heard[id]}) >= capacity
=============================================================================
