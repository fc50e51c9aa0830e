-------------------------- MODULE MCStreamManager --------------------------
(* Small instances of StreamManager. *)
EXTENDS StreamManager, TLC

CONSTANTS id1, id2, id3, gmA, gmB

MCStreamIDs == {id1, id2, id3}

sdp(name, address, n, gm) ==
  [session |-> name, address |-> address, numChannels |-> n, ptpMaster |-> gm]

\* A narrow source that can move, and names another grandmaster when it does,
\* and a wide one that names none.
MCSDPs == {sdp("a", 1, 1, gmA), sdp("a", 2, 1, gmB), sdp("b", 1, 2, NoGrandmaster)}

route(s, d) == [streamChannel |-> s, deviceChannel |-> d]

\* One that limits nothing, one of gear that only receives, which has a channel
\* count of its own, and one of gear that only sends.
MCProfiles == {[direction |-> "any", maxTotalChannels |-> 0],
               [direction |-> "transmitOnly", maxTotalChannels |-> 1],
               [direction |-> "receiveOnly", maxTotalChannels |-> 2]}

MCPlacements == {[start |-> 1, routes |-> {}]}

\* A shifted block, a block that ends where the device does and is too short
\* for a wide stream, one that ends beyond it, and a route away from the block.
MCRemaps == {[start |-> 1, count |-> 2, routes |-> {}],
             [start |-> 2, count |-> 1, routes |-> {}],
             [start |-> 2, count |-> 2, routes |-> {}],
             [start |-> 0, count |-> 1, routes |-> {route(0, 2)}]}

\* Nobody changes a mapping.
MCNoRemaps == {}

MCMappings ==
  [streamID : MCStreamIDs, streamChannelCount : 1..2, deviceChannelStart : 0..3,
   deviceChannelCount : 1..2, routes : {{}, {route(0, 2)}}]

ASSUME RemapsAssumption == RemapsCover

Symmetry == Permutations(MCStreamIDs) \cup Permutations(Clients)
=============================================================================
