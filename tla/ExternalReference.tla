--------------------------- MODULE ExternalReference ---------------------------
(***************************************************************************)
(* The Linux grandmaster's external reference: one pulse per second on the *)
(* NIC's timestamp input, judged edge by edge (ExternalReference.cpp).     *)
(* Time is counted in seconds; an edge carries only what service() tells   *)
(* apart: whether its offset from the second boundary is inside the lock   *)
(* window, credible but outside it, or not credible at all.                *)
(***************************************************************************)
EXTENDS Naturals

CONSTANTS
  LockEdges,      \* edges inside the window before a lock is claimed (10)
  Holdover        \* kHoldoverSeconds (3)

ASSUME ReferenceAssumption == LockEdges \in Nat \ {0} /\ Holdover \in Nat \ {0}

VARIABLES
  locked,         \* status_.locked
  consecutive,    \* consecutiveInWindow_, counted up to LockEdges
  haveLastEdge,   \* haveLastEdge_
  idle            \* seconds since lastEdgeAt_, counted up to Holdover + 1

refVars == <<locked, consecutive, haveLastEdge, idle>>

EdgeKinds == {"inWindow", "outside", "notCredible"}

\* enable() leaves every member at its initial value.
enable ==
  /\ locked = FALSE
  /\ consecutive = 0
  /\ haveLastEdge = FALSE
  /\ idle = 0

\* A new process starts from the same members.
restarted ==
  /\ locked' = FALSE /\ consecutive' = 0 /\ haveLastEdge' = FALSE
  /\ idle' = 0

\* The first half of service(): no edge for longer than the holdover takes
\* the lock back.
holdoverExpired == idle > Holdover /\ locked

serviceNoEdge ==
  /\ locked' = (locked /\ ~holdoverExpired)
  /\ consecutive' = IF holdoverExpired THEN 0 ELSE consecutive
  /\ haveLastEdge' = (haveLastEdge /\ ~holdoverExpired)
  /\ UNCHANGED idle

\* service() with one edge waiting. The holdover test runs first, on the same
\* call. A rejected edge restarts the count and stamps lastEdgeAt_; the first
\* credible edge after that is only remembered.
serviceEdge(e) ==
  LET held  == locked /\ ~holdoverExpired
      count == IF holdoverExpired THEN 0 ELSE consecutive
      last  == haveLastEdge /\ ~holdoverExpired
      next  == IF e # "inWindow" THEN 0
               ELSE IF count < LockEdges THEN count + 1 ELSE count
  IN /\ idle' = 0
     /\ haveLastEdge' = (e # "notCredible")
     /\ IF e = "notCredible"
        THEN consecutive' = 0 /\ locked' = held
        ELSE IF ~last
        THEN consecutive' = count /\ locked' = held
        ELSE consecutive' = next /\ locked' = (next >= LockEdges)

\* One second passes.
second == idle' = IF idle <= Holdover THEN idle + 1 ELSE idle

RefTypeOK ==
  /\ locked \in BOOLEAN /\ haveLastEdge \in BOOLEAN
  /\ consecutive \in 0..LockEdges
  /\ idle \in 0..(Holdover + 1)
================================================================================
