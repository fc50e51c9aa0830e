---------------------------- MODULE NetworkProofs ----------------------------
(***************************************************************************)
(* What others on the network get from this host, proved for any number of *)
(* losses, edits, runs and stalls: the mDNS records a browser holds lead   *)
(* to something that answers (Advertiser), the small servers are held      *)
(* briefly and answer with what is published (Exchange), and an NMOS       *)
(* registry holds what the driver carries (Registration).                  *)
(***************************************************************************)
EXTENDS Advertiser, Registration, Exchange, FiniteSetTheorems, SequenceTheorems, TLAPS

-----------------------------------------------------------------------------
(* Being found *)

\* The responder is up and what its records lead to is served wherever a thread
\* may announce; the tool has it from its start to its destructor, the driver
\* from start() to the destructor in stop(), whose thread is gone by then.
Reachable ==
  /\ program = "tool" => /\ owner = "idle"
                         /\ place \in {"off", "announcing", "loop", "look", "leaving",
                             "gone"}
                         /\ place = "off" => ~socket_ /\ ~wasRegistered
                         /\ place \in {"announcing", "loop", "look"} => socket_ /\ served
                         /\ socket_ => served
  /\ program = "driver" => /\ place \in {"off", "turn", "announce", "serve"}
                           /\ place # "off" => socket_ /\ served
                           /\ owner # "idle" => ~keepsRunning /\ socket_ /\ served
                           /\ owner = "idle" /\ ~keepsRunning => place = "off" /\ ~socket_
                           /\ owner = "destroy" => place = "off"
                           /\ keepsRunning => socket_ /\ served

AdvertiserInv == FoundIsThere /\ Reachable

LEMMA RecordsFinite == \A S \in SUBSET Records : IsFiniteSet(S) /\ Cardinality(S) \in Nat
<1>1. IsFiniteSet({Session})
  BY FS_Singleton
<1>2. IsFiniteSet({Session} \cup {NodeRecord})
  BY <1>1, FS_AddElement
<1>3. IsFiniteSet(Records)
  <2>1. Records = {Session} \cup {NodeRecord}
    BY DEF Records
  <2> QED BY <1>2, <2>1
<1> QED BY <1>3, FS_Subset, FS_CardinalityType

\* A round of packets keeps what the link remembers in its bounds.
LEMMA PacketsTyped ==
  ASSUME NEW S \in SUBSET Records, cache \subseteq Records, missed \subseteq Records,
         losses \in 0..MaxLosses, sendAnnouncements(S) \/ sendGoodbyes(S)
  PROVE  cache' \subseteq Records /\ missed' \subseteq Records /\ losses' \in 0..MaxLosses
<1>0. MaxLosses \in Nat
  BY AdvertiserAssumption
<1>1. PICK lost \in SUBSET S :
        /\ losses' = losses + Cardinality(lost) /\ losses' =< MaxLosses
        /\ \/ cache' = cache \cup (S \ lost) /\ missed' = missed \ (S \ lost)
           \/ cache' = cache \ (S \ lost) /\ missed' = (missed \ (S \ lost)) \cup lost
  BY DEF sendAnnouncements, sendGoodbyes
<1>2. Cardinality(lost) \in Nat
  BY RecordsFinite
<1>3. losses' \in 0..MaxLosses
  BY <1>0, <1>1, <1>2
<1>4. cache' \subseteq Records /\ missed' \subseteq Records
  BY <1>1
<1> QED BY <1>3, <1>4

\* What is announced of S is held, beside what was; what was said goodbye to is held
\* only where the goodbye was missed.
LEMMA Announced ==
  ASSUME NEW S, sendAnnouncements(S)
  PROVE  cache' \ missed' \subseteq (cache \ missed) \cup S
BY DEF sendAnnouncements

LEMMA Withdrawn ==
  ASSUME NEW S, sendGoodbyes(S)
  PROVE  cache' \ missed' \subseteq (cache \ missed) \ S
BY DEF sendGoodbyes

\* The two halves of the type, for the provers' sake.
Bounded ==
  /\ announcements \in 0..kAnnouncements /\ losses \in 0..MaxLosses /\ runs \in 0..MaxRuns
  /\ asked \subseteq Records /\ cache \subseteq Records /\ missed \subseteq Records

Flags ==
  /\ program \in {"tool", "driver"}
  /\ sessions_ \subseteq {Session} /\ extras_ \subseteq {NodeRecord}
  /\ announceExtras_ \in BOOLEAN /\ socket_ \in BOOLEAN /\ keepsRunning \in BOOLEAN
  /\ registryHas \in BOOLEAN /\ wasRegistered \in BOOLEAN /\ served \in BOOLEAN
  /\ place \in {"off", "announcing", "loop", "look", "leaving", "gone", "turn", "announce",
                "serve"}
  /\ owner \in {"idle", "join", "destroy"}

LEMMA TypeHalves == AdvertiserTypeOK <=> Bounded /\ Flags
<1>1. {announceExtras_, socket_, keepsRunning, registryHas, wasRegistered, served}
         \subseteq BOOLEAN
      <=> /\ announceExtras_ \in BOOLEAN /\ socket_ \in BOOLEAN /\ keepsRunning \in BOOLEAN
          /\ registryHas \in BOOLEAN /\ wasRegistered \in BOOLEAN /\ served \in BOOLEAN
  BY Zenon
<1> QED BY <1>1, Zenon DEF AdvertiserTypeOK, Bounded, Flags

LEMMA AdvertiserInitially == AdvertiserInit => AdvertiserInv
<1> SUFFICES ASSUME AdvertiserInit PROVE AdvertiserInv
  OBVIOUS
<1> USE DEF AdvertiserInit
<1>1. AdvertiserTypeOK
  <2>1. Bounded
    BY AdvertiserAssumption DEF Bounded
  <2>2. Flags
    BY Zenon DEF Flags
  <2> QED BY <2>1, <2>2, TypeHalves
<1>2. HeldIsOffered /\ NodeOrRegistry /\ Reachable
  BY DEF HeldIsOffered, NodeOrRegistry, Reachable
<1> QED BY <1>1, <1>2 DEF AdvertiserInv, FoundIsThere

LEMMA AdvertiserStep == AdvertiserInv /\ [AdvertiserNext]_advertiserVars => AdvertiserInv'
<1> SUFFICES ASSUME AdvertiserInv, [AdvertiserNext]_advertiserVars PROVE AdvertiserInv'
  OBVIOUS
<1> USE DEF responderVars, linkVars, registryVars
<1>1. Bounded /\ Flags /\ HeldIsOffered /\ NodeOrRegistry /\ Reachable
  BY TypeHalves DEF AdvertiserInv, FoundIsThere
<1>2. SUFFICES Bounded' /\ Flags' /\ HeldIsOffered' /\ NodeOrRegistry' /\ Reachable'
  <2>1. (Bounded /\ Flags)' => AdvertiserTypeOK'
    BY Zenon DEF AdvertiserTypeOK, Bounded, Flags
  <2> QED BY <2>1 DEF AdvertiserInv, FoundIsThere
<1>3. everything \in SUBSET Records /\ extras_ \in SUBSET Records
  BY <1>1 DEF everything, Flags, Records
<1>4. CASE UNCHANGED advertiserVars
  BY <1>1, <1>4
  DEF advertiserVars, Bounded, Flags, HeldIsOffered, everything, NodeOrRegistry,
                    Reachable
<1>5. ASSUME NEW names \in SUBSET Records \ {{}}, Ask(names)
      PROVE  Bounded' /\ Flags' /\ HeldIsOffered' /\ NodeOrRegistry' /\ Reachable'
  BY <1>1, <1>5
  DEF Ask, Bounded, Flags, HeldIsOffered, everything, NodeOrRegistry, Reachable
<1>6. CASE ToolStarts
  <2>1. Bounded'
    BY <1>1, <1>6 DEF ToolStarts, Bounded
  <2>2. Flags'
    BY <1>1, <1>6 DEF ToolStarts, Flags, started, add
  <2>3. HeldIsOffered' /\ NodeOrRegistry' /\ Reachable'
    BY <1>1, <1>6
    DEF ToolStarts, HeldIsOffered, everything, NodeOrRegistry, Reachable, Flags, started,
        add
  <2> QED BY <2>1, <2>2, <2>3
<1>7. CASE ToolAnnounces
  <2>1. sendAnnouncements(everything)
    BY <1>7 DEF ToolAnnounces, announce
  <2>2. Bounded'
    <3>1. cache' \subseteq Records /\ missed' \subseteq Records /\ losses' \in 0..MaxLosses
      BY <1>1, <1>3, <2>1, PacketsTyped DEF Bounded
    <3>2. /\ announcements' \in 0..kAnnouncements /\ runs' \in 0..MaxRuns
          /\ asked' \subseteq Records
      BY <1>1, <1>7, AdvertiserAssumption DEF ToolAnnounces, Bounded
    <3> QED BY <3>1, <3>2 DEF Bounded
  <2>3. Flags'
    BY <1>1, <1>7 DEF ToolAnnounces, Flags
  <2>4. HeldIsOffered'
    BY <1>1, <1>7, <2>1, Announced
    DEF ToolAnnounces, HeldIsOffered, everything, Reachable, Flags
  <2>5. NodeOrRegistry' /\ Reachable'
    BY <1>1, <1>7 DEF ToolAnnounces, NodeOrRegistry, Reachable, Flags
  <2> QED BY <2>2, <2>3, <2>4, <2>5
<1>8. CASE ToolAnnounced
  <2>1. Bounded'
    BY <1>1, <1>8 DEF ToolAnnounced, Bounded
  <2>2. Flags'
    BY <1>1, <1>8 DEF ToolAnnounced, Flags
  <2>3. HeldIsOffered' /\ NodeOrRegistry' /\ Reachable'
    BY <1>1, <1>8
    DEF ToolAnnounced, HeldIsOffered, everything, NodeOrRegistry, Reachable, Flags
  <2> QED BY <2>1, <2>2, <2>3
<1>9. CASE ToolServes
  <2>1. sendAnnouncements(everything) \/ UNCHANGED linkVars
    BY <1>9 DEF ToolServes, service, announce
  <2>2. Bounded'
    <3>1. cache' \subseteq Records /\ missed' \subseteq Records /\ losses' \in 0..MaxLosses
      BY <1>1, <1>3, <2>1, PacketsTyped DEF Bounded
    <3>2. /\ announcements' \in 0..kAnnouncements /\ runs' \in 0..MaxRuns
          /\ asked' \subseteq Records
      BY <1>1, <1>9 DEF ToolServes, Bounded, service
    <3> QED BY <3>1, <3>2 DEF Bounded
  <2>3. Flags'
    BY <1>1, <1>9 DEF ToolServes, Flags
  <2>4. HeldIsOffered'
    BY <1>1, <1>9, <2>1, Announced
    DEF ToolServes, HeldIsOffered, everything, Reachable, Flags
  <2>5. NodeOrRegistry' /\ Reachable'
    BY <1>1, <1>9 DEF ToolServes, NodeOrRegistry, Reachable, Flags
  <2> QED BY <2>2, <2>3, <2>4, <2>5
<1>10. CASE ToolLooks
  <2>1. sendAnnouncements(extras_) \/ sendGoodbyes(extras_) \/ UNCHANGED linkVars
    BY <1>10 DEF ToolLooks, announceExtras
  <2>2. Bounded'
    <3>1. cache' \subseteq Records /\ missed' \subseteq Records /\ losses' \in 0..MaxLosses
      BY <1>1, <1>3, <2>1, PacketsTyped DEF Bounded
    <3>2. /\ announcements' \in 0..kAnnouncements /\ runs' \in 0..MaxRuns
          /\ asked' \subseteq Records
      BY <1>1, <1>10 DEF ToolLooks, Bounded
    <3> QED BY <3>1, <3>2 DEF Bounded
  <2>3. Flags'
    BY <1>1, <1>10 DEF ToolLooks, Flags, announceExtras
  <2>4. HeldIsOffered'
    BY <1>1, <1>10, Announced, Withdrawn
    DEF ToolLooks, announceExtras, HeldIsOffered, everything, Reachable, Flags
  <2>5. NodeOrRegistry' /\ Reachable'
    BY <1>1, <1>10 DEF ToolLooks, NodeOrRegistry, Reachable, Flags, announceExtras
  <2> QED BY <2>2, <2>3, <2>4, <2>5
<1>11. CASE ToolWithdraws
  <2>1. sendGoodbyes(everything)
    BY <1>11 DEF ToolWithdraws, goodbye
  <2>2. Bounded'
    <3>1. cache' \subseteq Records /\ missed' \subseteq Records /\ losses' \in 0..MaxLosses
      BY <1>1, <1>3, <2>1, PacketsTyped DEF Bounded
    <3>2. /\ announcements' \in 0..kAnnouncements /\ runs' \in 0..MaxRuns
          /\ asked' \subseteq Records
      BY <1>1, <1>11 DEF ToolWithdraws, Bounded
    <3> QED BY <3>1, <3>2 DEF Bounded
  <2>3. Flags'
    BY <1>1, <1>11 DEF ToolWithdraws, Flags
  <2>4. HeldIsOffered'
    BY <1>1, <1>11, <2>1, Withdrawn
    DEF ToolWithdraws, HeldIsOffered, everything, Reachable, Flags
  <2>5. NodeOrRegistry' /\ Reachable'
    BY <1>1, <1>11 DEF ToolWithdraws, NodeOrRegistry, Reachable, Flags
  <2> QED BY <2>2, <2>3, <2>4, <2>5
<1>12. CASE ToolDestroys
  <2>1. sendGoodbyes(everything) \/ UNCHANGED linkVars
    BY <1>12 DEF ToolDestroys, goodbye
  <2>2. Bounded'
    <3>1. cache' \subseteq Records /\ missed' \subseteq Records /\ losses' \in 0..MaxLosses
      BY <1>1, <1>3, <2>1, PacketsTyped DEF Bounded
    <3>2. /\ announcements' \in 0..kAnnouncements /\ runs' \in 0..MaxRuns
          /\ asked' \subseteq Records
      BY <1>1, <1>12 DEF ToolDestroys, Bounded
    <3> QED BY <3>1, <3>2 DEF Bounded
  <2>3. Flags'
    BY <1>1, <1>12 DEF ToolDestroys, Flags
  <2>4. HeldIsOffered'
    BY <1>1, <1>12, Withdrawn
    DEF ToolDestroys, goodbye, HeldIsOffered, everything, Reachable, Flags
  <2>5. NodeOrRegistry' /\ Reachable'
    BY <1>1, <1>12 DEF ToolDestroys, NodeOrRegistry, Reachable, Flags
  <2> QED BY <2>2, <2>3, <2>4, <2>5
<1>13. CASE Signal
  <2>1. Bounded'
    BY <1>1, <1>13 DEF Signal, Bounded
  <2>2. Flags'
    BY <1>1, <1>13 DEF Signal, Flags
  <2>3. HeldIsOffered' /\ NodeOrRegistry' /\ Reachable'
    BY <1>1, <1>13 DEF Signal, HeldIsOffered, everything, NodeOrRegistry, Reachable, Flags
  <2> QED BY <2>1, <2>2, <2>3
<1>14. CASE RegistryChanges
  <2>1. Bounded'
    BY <1>1, <1>14 DEF RegistryChanges, Bounded
  <2>2. Flags'
    BY <1>1, <1>14 DEF RegistryChanges, Flags
  <2>3. HeldIsOffered' /\ NodeOrRegistry' /\ Reachable'
    BY <1>1, <1>14
    DEF RegistryChanges, HeldIsOffered, everything, NodeOrRegistry, Reachable, Flags
  <2> QED BY <2>1, <2>2, <2>3
<1>15. CASE DriverApiStarts
  <2>1. Bounded'
    BY <1>1, <1>15 DEF DriverApiStarts, Bounded
  <2>2. Flags'
    BY <1>1, <1>15 DEF DriverApiStarts, Flags
  <2>3. HeldIsOffered' /\ NodeOrRegistry' /\ Reachable'
    BY <1>1, <1>15
    DEF DriverApiStarts, HeldIsOffered, everything, NodeOrRegistry, Reachable, Flags
  <2> QED BY <2>1, <2>2, <2>3
<1>16. CASE DriverStarts
  <2>1. Bounded'
    BY <1>1, <1>16, AdvertiserAssumption DEF DriverStarts, Bounded
  <2>2. Flags'
    BY <1>1, <1>16 DEF DriverStarts, Flags, started, add
  <2>3. HeldIsOffered' /\ NodeOrRegistry' /\ Reachable'
    BY <1>1, <1>16
    DEF DriverStarts, HeldIsOffered, everything, NodeOrRegistry, Reachable, Flags, started,
        add
  <2> QED BY <2>1, <2>2, <2>3
<1>17. CASE DriverTurns
  <2>1. Bounded'
    BY <1>1, <1>17 DEF DriverTurns, Bounded
  <2>2. Flags'
    BY <1>1, <1>17 DEF DriverTurns, Flags
  <2>3. HeldIsOffered' /\ NodeOrRegistry' /\ Reachable'
    BY <1>1, <1>17
    DEF DriverTurns, HeldIsOffered, everything, NodeOrRegistry, Reachable, Flags
  <2> QED BY <2>1, <2>2, <2>3
<1>18. CASE DriverAnnounces
  <2>1. sendAnnouncements(everything) \/ UNCHANGED linkVars
    BY <1>18 DEF DriverAnnounces, announce
  <2>2. Bounded'
    <3>1. cache' \subseteq Records /\ missed' \subseteq Records /\ losses' \in 0..MaxLosses
      BY <1>1, <1>3, <2>1, PacketsTyped DEF Bounded
    <3>2. /\ announcements' \in 0..kAnnouncements /\ runs' \in 0..MaxRuns
          /\ asked' \subseteq Records
      BY <1>1, <1>18, AdvertiserAssumption DEF DriverAnnounces, Bounded
    <3> QED BY <3>1, <3>2 DEF Bounded
  <2>3. Flags'
    BY <1>1, <1>18 DEF DriverAnnounces, Flags
  <2>4. HeldIsOffered'
    BY <1>1, <1>18, <2>1, Announced
    DEF DriverAnnounces, HeldIsOffered, everything, Reachable, Flags
  <2>5. NodeOrRegistry' /\ Reachable'
    BY <1>1, <1>18 DEF DriverAnnounces, NodeOrRegistry, Reachable, Flags
  <2> QED BY <2>2, <2>3, <2>4, <2>5
<1>19. CASE DriverServes
  <2>1. sendAnnouncements(everything) \/ UNCHANGED linkVars
    BY <1>19 DEF DriverServes, service, announce
  <2>2. Bounded'
    <3>1. cache' \subseteq Records /\ missed' \subseteq Records /\ losses' \in 0..MaxLosses
      BY <1>1, <1>3, <2>1, PacketsTyped DEF Bounded
    <3>2. /\ announcements' \in 0..kAnnouncements /\ runs' \in 0..MaxRuns
          /\ asked' \subseteq Records
      BY <1>1, <1>19 DEF DriverServes, Bounded, service
    <3> QED BY <3>1, <3>2 DEF Bounded
  <2>3. Flags'
    BY <1>1, <1>19 DEF DriverServes, Flags
  <2>4. HeldIsOffered'
    BY <1>1, <1>19, <2>1, Announced
    DEF DriverServes, HeldIsOffered, everything, Reachable, Flags
  <2>5. NodeOrRegistry' /\ Reachable'
    BY <1>1, <1>19 DEF DriverServes, NodeOrRegistry, Reachable, Flags
  <2> QED BY <2>2, <2>3, <2>4, <2>5
<1>20. CASE DriverStops
  <2>1. Bounded'
    BY <1>1, <1>20 DEF DriverStops, Bounded
  <2>2. Flags'
    BY <1>1, <1>20 DEF DriverStops, Flags
  <2>3. HeldIsOffered' /\ NodeOrRegistry' /\ Reachable'
    BY <1>1, <1>20
    DEF DriverStops, HeldIsOffered, everything, NodeOrRegistry, Reachable, Flags
  <2> QED BY <2>1, <2>2, <2>3
<1>21. CASE DriverWithdraws
  <2>1. sendGoodbyes(everything)
    BY <1>21 DEF DriverWithdraws, goodbye
  <2>2. Bounded'
    <3>1. cache' \subseteq Records /\ missed' \subseteq Records /\ losses' \in 0..MaxLosses
      BY <1>1, <1>3, <2>1, PacketsTyped DEF Bounded
    <3>2. /\ announcements' \in 0..kAnnouncements /\ runs' \in 0..MaxRuns
          /\ asked' \subseteq Records
      BY <1>1, <1>21 DEF DriverWithdraws, Bounded
    <3> QED BY <3>1, <3>2 DEF Bounded
  <2>3. Flags'
    BY <1>1, <1>21 DEF DriverWithdraws, Flags
  <2>4. HeldIsOffered'
    BY <1>1, <1>21, <2>1, Withdrawn
    DEF DriverWithdraws, HeldIsOffered, everything, Reachable, Flags
  <2>5. NodeOrRegistry' /\ Reachable'
    BY <1>1, <1>21 DEF DriverWithdraws, NodeOrRegistry, Reachable, Flags
  <2> QED BY <2>2, <2>3, <2>4, <2>5
<1>22. CASE DriverDestroys
  <2>1. sendGoodbyes(everything)
    BY <1>22 DEF DriverDestroys, goodbye
  <2>2. Bounded'
    <3>1. cache' \subseteq Records /\ missed' \subseteq Records /\ losses' \in 0..MaxLosses
      BY <1>1, <1>3, <2>1, PacketsTyped DEF Bounded
    <3>2. /\ announcements' \in 0..kAnnouncements /\ runs' \in 0..MaxRuns
          /\ asked' \subseteq Records
      BY <1>1, <1>22 DEF DriverDestroys, Bounded
    <3> QED BY <3>1, <3>2 DEF Bounded
  <2>3. Flags'
    BY <1>1, <1>22 DEF DriverDestroys, Flags
  <2>4. HeldIsOffered'
    BY <1>1, <1>22, <2>1, Withdrawn
    DEF DriverDestroys, HeldIsOffered, everything, Reachable, Flags
  <2>5. NodeOrRegistry' /\ Reachable'
    BY <1>1, <1>22 DEF DriverDestroys, NodeOrRegistry, Reachable, Flags
  <2> QED BY <2>2, <2>3, <2>4, <2>5
<1>23. CASE DriverApiStops
  <2>1. Bounded'
    BY <1>1, <1>23 DEF DriverApiStops, Bounded
  <2>2. Flags'
    BY <1>1, <1>23 DEF DriverApiStops, Flags
  <2>3. HeldIsOffered' /\ NodeOrRegistry' /\ Reachable'
    BY <1>1, <1>23
    DEF DriverApiStops, HeldIsOffered, everything, NodeOrRegistry, Reachable, Flags
  <2> QED BY <2>1, <2>2, <2>3
<1> QED
  BY <1>4, <1>5, <1>6, <1>7, <1>8, <1>9, <1>10, <1>11, <1>12, <1>13, <1>14, <1>15, <1>16,
     <1>17, <1>18, <1>19, <1>20, <1>21, <1>22, <1>23
  DEF AdvertiserNext

\* What a browser holds and whose last goodbye it heard leads to a responder that is
\* up, to a record it offers and to servers that answer; the node is on the link
\* exactly while the tool last saw no registry have it.  For any number of losses,
\* announcements and runs of MdnsResponder, ravenna-announce and NodeAdvertiser.
THEOREM FoundIsAlwaysThere == AdvertiserSpec => []FoundIsThere
<1>1. AdvertiserInv => FoundIsThere
  BY DEF AdvertiserInv
<1> QED BY <1>1, AdvertiserInitially, AdvertiserStep, PTL DEF AdvertiserSpec

-----------------------------------------------------------------------------
(* Being asked *)

Replies ==
  [status : Nat, body : Nat, arrived : {"nothing", "head", "cut", "whole"}]

ExchangeTyped ==
  /\ published \in Nat
  /\ kind \in AllKinds
  /\ text \in Nat /\ held \in Nat
  /\ DOMAIN peer = Conns
  /\ \A c \in Conns : /\ {peer[c].sent, peer[c].head, peer[c].body} \subseteq Nat
                      /\ peer[c].asks \in Asks
  /\ at \in {0} \cup Conns
  /\ answer \in Replies
  /\ out = <<>> \/ \E r \in Replies : out = <<r>>

\* A connection that is served was accepted and not closed since.
Attended == at # 0 => peer[at].state \in {"served", "gone"}

\* RTSPServer has no ceiling, but every silence it bears brings a piece, and the
\* pieces have one.
Paid ==
  /\ ~silent => held <= text
  /\ held <= IF kind = "RTSPServer" THEN MaxRequest ELSE Deadline

\* Only a threaded server has a thread, and one that may still accept is running
\* or being waited for.
ThreadKnown ==
  /\ thread # "none" => kind \in Threaded
  /\ thread = "live" => listening /\ (running \/ stopping)

\* What is published is among the versions of this question as long as the
\* client waits; what came is one of them unless the client no longer reads it.
AnswerKnown ==
  /\ peer[1].state \in {"queued", "served"} => published \in since
  /\ peer[1].state = "away" => answer = Nothing
  /\ peer[1].state = "gone" => result.done
  /\ peer[1].state \in {"away", "queued", "served"} => ~result.done
  /\ ~result.done => answer.body = 0 \/ answer.body \in since
  /\ result.ok => result.done /\ result.body.version \in since

\* An answer is made for a connection that is served, from what is published then.
AnswerMade ==
  out # <<>> => /\ at # 0
                /\ at = 1 /\ ~result.done => out[1].body = 0 \/ out[1].body \in since

ExchangeInv ==
  ExchangeTyped /\ Attended /\ Paid /\ ThreadKnown /\ AnswerKnown /\ AnswerMade

\* What a server answers is nothing, no description, or what is published.
LEMMA Responded ==
  ASSUME NEW asks \in Asks, kind \in AllKinds
  PROVE  respond(asks) \in [status : Nat, body : {0, published}, arrived : {"nothing",
      "whole"}]
<1> DEFINE R == [status : Nat, body : {0, published}, arrived : {"nothing", "whole"}]
<1>1. Nothing \in R /\ described \in R /\ \A n \in Nat : reply(n, 0) \in R
  <2>1. Nothing \in R
    BY DEF Nothing
  <2>2. \A n \in Nat : reply(n, 0) \in R
    BY DEF reply
  <2>3. reply(200, published) \in R
    BY DEF reply
  <2> QED BY <2>1, <2>2, <2>3 DEF described, provider
<1>2. handled(asks) \in R
  BY <1>1 DEF handled
<1> QED BY <1>1, <1>2 DEF respond, answerRTSPServer, answerRtspServer, answerHttpServer,
                          answerConnectionAPIServer, AllKinds

LEMMA ExchangeInitially == Init => ExchangeInv
<1> SUFFICES ASSUME Init PROVE ExchangeInv
  OBVIOUS
<1> USE DEF Init
<1>1. ExchangeTyped
  BY ExchangeAssumption DEF ExchangeTyped, Nobody, Conns, Asks, Nothing, Replies
<1>2. Paid
  BY ExchangeAssumption DEF Paid
<1>3. Attended /\ ThreadKnown
  BY DEF Attended, ThreadKnown
<1>4. AnswerKnown
  BY DEF AnswerKnown, Nobody, Nothing, Pending, Conns
<1>5. AnswerMade
  BY DEF AnswerMade
<1> QED BY <1>1, <1>2, <1>3, <1>4, <1>5 DEF ExchangeInv

LEMMA ExchangeStep == ExchangeInv /\ [Next]_vars => ExchangeInv'
<1> SUFFICES ASSUME ExchangeInv, [Next]_vars PROVE ExchangeInv'
  OBVIOUS
<1> USE DEF life, loop, network, Conns
<1>1. ExchangeTyped /\ Attended /\ Paid /\ ThreadKnown /\ AnswerKnown /\ AnswerMade
  BY DEF ExchangeInv
<1>2. SUFFICES ExchangeTyped' /\ Attended' /\ Paid' /\ ThreadKnown' /\ AnswerKnown'
               /\ AnswerMade'
  BY DEF ExchangeInv
<1>3. CASE UNCHANGED vars
  BY <1>1, <1>3
  DEF vars, ExchangeTyped, Attended, Paid, ThreadKnown, AnswerKnown, AnswerMade
<1>4. ASSUME NEW bound \in BOOLEAN, start(bound)
      PROVE  ExchangeTyped' /\ Attended' /\ Paid' /\ ThreadKnown' /\ AnswerKnown'
             /\ AnswerMade'
  <2>1. ExchangeTyped'
    BY <1>1, <1>4, ExchangeAssumption DEF start, ExchangeTyped
  <2>2. Attended'
    BY <1>1, <1>4 DEF start, Attended, ExchangeTyped
  <2>3. Paid'
    BY <1>1, <1>4, ExchangeAssumption DEF start, Paid, ExchangeTyped
  <2>4. ThreadKnown'
    BY <1>1, <1>4 DEF start, ThreadKnown
  <2>5. AnswerKnown'
    BY <1>1, <1>4 DEF start, AnswerKnown, ExchangeTyped
  <2>6. AnswerMade'
    BY <1>1, <1>4 DEF start, AnswerMade, AnswerKnown, ExchangeTyped
  <2> QED BY <2>1, <2>2, <2>3, <2>4, <2>5, <2>6
<1>5. CASE stop
  <2>1. ExchangeTyped'
    BY <1>1, <1>5, ExchangeAssumption DEF stop, ExchangeTyped
  <2>2. Attended'
    BY <1>1, <1>5 DEF stop, Attended, ExchangeTyped
  <2>3. Paid'
    BY <1>1, <1>5, ExchangeAssumption DEF stop, Paid, ExchangeTyped
  <2>4. ThreadKnown'
    BY <1>1, <1>5 DEF stop, ThreadKnown
  <2>5. AnswerKnown'
    BY <1>1, <1>5 DEF stop, AnswerKnown, ExchangeTyped, closesAnyway
  <2>6. AnswerMade'
    BY <1>1, <1>5 DEF stop, AnswerMade, AnswerKnown, ExchangeTyped
  <2> QED BY <2>1, <2>2, <2>3, <2>4, <2>5, <2>6
<1>6. CASE closeListen
  <2>1. ExchangeTyped'
    BY <1>1, <1>6, ExchangeAssumption DEF closeListen, ExchangeTyped
  <2>2. Attended'
    BY <1>1, <1>6 DEF closeListen, Attended, ExchangeTyped
  <2>3. Paid'
    BY <1>1, <1>6, ExchangeAssumption DEF closeListen, Paid, ExchangeTyped
  <2>4. ThreadKnown'
    BY <1>1, <1>6 DEF closeListen, ThreadKnown, joined
  <2>5. AnswerKnown'
    BY <1>1, <1>6 DEF closeListen, AnswerKnown, ExchangeTyped, joined
  <2>6. AnswerMade'
    BY <1>1, <1>6 DEF closeListen, AnswerMade, AnswerKnown, ExchangeTyped
  <2> QED BY <2>1, <2>2, <2>3, <2>4, <2>5, <2>6
<1>7. CASE returns
  <2>1. ExchangeTyped'
    BY <1>1, <1>7, ExchangeAssumption DEF returns, ExchangeTyped
  <2>2. Attended'
    BY <1>1, <1>7 DEF returns, Attended, ExchangeTyped
  <2>3. Paid'
    BY <1>1, <1>7, ExchangeAssumption DEF returns, Paid, ExchangeTyped
  <2>4. ThreadKnown'
    BY <1>1, <1>7 DEF returns, ThreadKnown
  <2>5. AnswerKnown'
    BY <1>1, <1>7 DEF returns, AnswerKnown, ExchangeTyped
  <2>6. AnswerMade'
    BY <1>1, <1>7 DEF returns, AnswerMade, AnswerKnown, ExchangeTyped
  <2> QED BY <2>1, <2>2, <2>3, <2>4, <2>5, <2>6
<1>8. CASE selectFails
  <2>1. ExchangeTyped'
    BY <1>1, <1>8, ExchangeAssumption DEF selectFails, ExchangeTyped
  <2>2. Attended'
    BY <1>1, <1>8 DEF selectFails, Attended, ExchangeTyped
  <2>3. Paid'
    BY <1>1, <1>8, ExchangeAssumption DEF selectFails, Paid, ExchangeTyped
  <2>4. ThreadKnown'
    BY <1>1, <1>8 DEF selectFails, ThreadKnown
  <2>5. AnswerKnown'
    BY <1>1, <1>8 DEF selectFails, AnswerKnown, ExchangeTyped
  <2>6. AnswerMade'
    BY <1>1, <1>8 DEF selectFails, AnswerMade, AnswerKnown, ExchangeTyped
  <2> QED BY <2>1, <2>2, <2>3, <2>4, <2>5, <2>6
<1>9. CASE destroy
  <2>1. ExchangeTyped'
    BY <1>1, <1>9, ExchangeAssumption DEF destroy, ExchangeTyped
  <2>2. Attended'
    BY <1>1, <1>9 DEF destroy, Attended, ExchangeTyped
  <2>3. Paid'
    BY <1>1, <1>9, ExchangeAssumption DEF destroy, Paid, ExchangeTyped
  <2>4. ThreadKnown'
    BY <1>1, <1>9 DEF destroy, ThreadKnown
  <2>5. AnswerKnown'
    BY <1>1, <1>9 DEF destroy, AnswerKnown, ExchangeTyped
  <2>6. AnswerMade'
    BY <1>1, <1>9 DEF destroy, AnswerMade, AnswerKnown, ExchangeTyped
  <2> QED BY <2>1, <2>2, <2>3, <2>4, <2>5, <2>6
<1>10. ASSUME NEW c \in Conns, accept(c)
      PROVE  ExchangeTyped' /\ Attended' /\ Paid' /\ ThreadKnown' /\ AnswerKnown'
             /\ AnswerMade'
  <2>1. ExchangeTyped'
    BY <1>1, <1>10, ExchangeAssumption DEF accept, ExchangeTyped
  <2>2. Attended'
    BY <1>1, <1>10 DEF accept, Attended, ExchangeTyped
  <2>3. Paid'
    BY <1>1, <1>10, ExchangeAssumption DEF accept, Paid, ExchangeTyped
  <2>4. ThreadKnown'
    BY <1>1, <1>10 DEF accept, ThreadKnown
  <2>5. AnswerKnown'
    BY <1>1, <1>10 DEF accept, AnswerKnown, ExchangeTyped
  <2>6. AnswerMade'
    BY <1>1, <1>10 DEF accept, AnswerMade, AnswerKnown, ExchangeTyped
  <2> QED BY <2>1, <2>2, <2>3, <2>4, <2>5, <2>6
<1>11. ASSUME NEW waited \in 0..1, receive(waited)
      PROVE  ExchangeTyped' /\ Attended' /\ Paid' /\ ThreadKnown' /\ AnswerKnown'
             /\ AnswerMade'
  <2>1. ExchangeTyped'
    BY <1>1, <1>11, ExchangeAssumption DEF receive, ExchangeTyped, reading, unread
  <2>2. Attended'
    BY <1>1, <1>11 DEF receive, Attended, ExchangeTyped
  <2>3. Paid'
    <3>1. /\ text \in Nat /\ text' \in Nat /\ text' > text /\ held \in Nat
          /\ held' \in {held, held + 1} /\ ~silent /\ silent' = silent /\ kind' = kind
      BY <1>1, <1>11, <2>1 DEF receive, ExchangeTyped, reading, unread
    <3>2. held <= text /\ text < MaxRequest /\ (kind # "RTSPServer" => held < Deadline)
      BY <1>1, <1>11, <3>1, ExchangeAssumption DEF receive, reading, late, Paid
    <3> QED BY <3>1, <3>2, ExchangeAssumption DEF Paid
  <2>4. ThreadKnown'
    BY <1>1, <1>11 DEF receive, ThreadKnown
  <2>5. AnswerKnown'
    BY <1>1, <1>11 DEF receive, AnswerKnown, ExchangeTyped, reading, unread, late
  <2>6. AnswerMade'
    BY <1>1, <1>11 DEF receive, AnswerMade, AnswerKnown, ExchangeTyped, reading
  <2> QED BY <2>1, <2>2, <2>3, <2>4, <2>5, <2>6
<1>12. CASE timeout
  <2>1. ExchangeTyped'
    BY <1>1, <1>12, ExchangeAssumption DEF timeout, ExchangeTyped
  <2>2. Attended'
    BY <1>1, <1>12 DEF timeout, Attended, ExchangeTyped
  <2>3. Paid'
    BY <1>1, <1>12, ExchangeAssumption DEF timeout, Paid, ExchangeTyped, reading, late
  <2>4. ThreadKnown'
    BY <1>1, <1>12 DEF timeout, ThreadKnown
  <2>5. AnswerKnown'
    BY <1>1, <1>12 DEF timeout, AnswerKnown, ExchangeTyped, reading, unread, late
  <2>6. AnswerMade'
    BY <1>1, <1>12 DEF timeout, AnswerMade, AnswerKnown, ExchangeTyped, reading
  <2> QED BY <2>1, <2>2, <2>3, <2>4, <2>5, <2>6
<1>13. CASE serve
  <2>1. PICK r \in [status : Nat, body : {0, published}, arrived : {"nothing", "whole"}] :
          out' = <<r>>
    BY <1>1, <1>13, Responded DEF serve, ExchangeTyped
  <2>2. r \in Replies
    BY <1>1 DEF ExchangeTyped, Replies
  <2>3. ExchangeTyped'
    BY <1>1, <1>13, <2>1, <2>2 DEF serve, ExchangeTyped
  <2>4. Attended' /\ Paid' /\ ThreadKnown'
    BY <1>1, <1>13, ExchangeAssumption DEF serve, Attended, Paid, ThreadKnown
  <2>5. AnswerKnown'
    BY <1>1, <1>13 DEF serve, AnswerKnown
  <2>6. AnswerMade'
    <3>1. out'[1].body = 0 \/ out'[1].body = published
      BY <2>1
    <3>2. at = 1 => result.done \/ published \in since
      BY <1>1 DEF Attended, AnswerKnown
    <3> QED BY <1>1, <1>13, <3>1, <3>2 DEF serve, AnswerMade
  <2> QED BY <2>3, <2>4, <2>5, <2>6
<1>21. ASSUME NEW arrived \in {"nothing", "head", "cut", "whole"}, sendAnswer(arrived)
      PROVE  ExchangeTyped' /\ Attended' /\ Paid' /\ ThreadKnown' /\ AnswerKnown'
             /\ AnswerMade'
  <2>1. PICK r \in Replies : out = <<r>>
    BY <1>1, <1>21 DEF sendAnswer, ExchangeTyped
  <2>2. out[1] = r /\ [r EXCEPT !.arrived = arrived] \in Replies
        /\ [r EXCEPT !.arrived = arrived].body = r.body
    BY <2>1 DEF Replies
  <2>3. answer' = IF at = 1 THEN [r EXCEPT !.arrived = arrived] ELSE answer
    BY <1>21, <2>2 DEF sendAnswer
  <2>4. at \in Conns
    BY <1>1, <1>21 DEF sendAnswer, ExchangeTyped, AnswerMade
  <2>5. ExchangeTyped'
    <3>1. answer' \in Replies
      BY <1>1, <2>2, <2>3 DEF ExchangeTyped
    <3> QED BY <1>1, <1>21, <3>1 DEF sendAnswer, ExchangeTyped, Nobody, Asks
  <2>6. Attended' /\ AnswerMade'
    BY <1>1, <1>21 DEF sendAnswer, Attended, ExchangeTyped, AnswerMade
  <2>7. Paid'
    BY <1>1, <1>21, ExchangeAssumption DEF sendAnswer, Paid, ExchangeTyped
  <2>8. ThreadKnown'
    BY <1>1, <1>21 DEF sendAnswer, ThreadKnown
  <2>9. AnswerKnown'
    <3>1. CASE at = 1
      <4>1. ~result.done => answer'.body = 0 \/ answer'.body \in since
        BY <1>1, <1>21, <2>2, <2>3, <3>1 DEF sendAnswer, AnswerMade
      <4> QED BY <1>1, <1>21, <3>1, <4>1 DEF sendAnswer, AnswerKnown, ExchangeTyped, Nobody
    <3>2. CASE at # 1
      BY <1>1, <1>21, <3>2 DEF sendAnswer, AnswerKnown, ExchangeTyped
    <3> QED BY <3>1, <3>2
  <2> QED BY <2>5, <2>6, <2>7, <2>8, <2>9
<1>14. CASE send
  <2>1. ExchangeTyped'
    BY <1>1, <1>14, ExchangeAssumption DEF send, ExchangeTyped
  <2>2. Attended'
    BY <1>1, <1>14 DEF send, Attended, ExchangeTyped
  <2>3. Paid'
    BY <1>1, <1>14, ExchangeAssumption DEF send, Paid, ExchangeTyped
  <2>4. ThreadKnown'
    BY <1>1, <1>14 DEF send, ThreadKnown
  <2>5. AnswerKnown'
    BY <1>1, <1>14 DEF send, AnswerKnown, ExchangeTyped
  <2>6. AnswerMade'
    BY <1>1, <1>14 DEF send, AnswerMade, AnswerKnown, ExchangeTyped
  <2> QED BY <2>1, <2>2, <2>3, <2>4, <2>5, <2>6
<1>15. CASE hangUp
  <2>1. ExchangeTyped'
    BY <1>1, <1>15, ExchangeAssumption DEF hangUp, ExchangeTyped
  <2>2. Attended'
    BY <1>1, <1>15 DEF hangUp, Attended, ExchangeTyped
  <2>3. Paid'
    BY <1>1, <1>15, ExchangeAssumption DEF hangUp, Paid, ExchangeTyped
  <2>4. ThreadKnown'
    BY <1>1, <1>15 DEF hangUp, ThreadKnown
  <2>5. AnswerKnown'
    BY <1>1, <1>15 DEF hangUp, AnswerKnown, ExchangeTyped
  <2>6. AnswerMade'
    BY <1>1, <1>15 DEF hangUp, AnswerMade, AnswerKnown, ExchangeTyped
  <2> QED BY <2>1, <2>2, <2>3, <2>4, <2>5, <2>6
<1>16. CASE giveUp
  <2>1. ExchangeTyped'
    BY <1>1, <1>16, ExchangeAssumption DEF giveUp, ExchangeTyped
  <2>2. Attended'
    BY <1>1, <1>16 DEF giveUp, Attended, ExchangeTyped
  <2>3. Paid'
    BY <1>1, <1>16, ExchangeAssumption DEF giveUp, Paid, ExchangeTyped
  <2>4. ThreadKnown'
    BY <1>1, <1>16 DEF giveUp, ThreadKnown
  <2>5. AnswerKnown'
    BY <1>1, <1>16 DEF giveUp, AnswerKnown, ExchangeTyped, Pending
  <2>6. AnswerMade'
    BY <1>1, <1>16 DEF giveUp, AnswerMade, AnswerKnown, ExchangeTyped, Pending
  <2> QED BY <2>1, <2>2, <2>3, <2>4, <2>5, <2>6
<1>17. ASSUME NEW asks \in Asks, sendRequest(asks)
      PROVE  ExchangeTyped' /\ Attended' /\ Paid' /\ ThreadKnown' /\ AnswerKnown'
             /\ AnswerMade'
  <2>1. ExchangeTyped'
    BY <1>1, <1>17, ExchangeAssumption DEF sendRequest, ExchangeTyped
  <2>2. Attended'
    BY <1>1, <1>17 DEF sendRequest, Attended, ExchangeTyped
  <2>3. Paid'
    BY <1>1, <1>17, ExchangeAssumption DEF sendRequest, Paid, ExchangeTyped
  <2>4. ThreadKnown'
    BY <1>1, <1>17 DEF sendRequest, ThreadKnown
  <2>5. AnswerKnown'
    BY <1>1, <1>17 DEF sendRequest, AnswerKnown, ExchangeTyped, Nothing
  <2>6. AnswerMade'
    BY <1>1, <1>17 DEF sendRequest, AnswerMade, Attended, ExchangeTyped
  <2> QED BY <2>1, <2>2, <2>3, <2>4, <2>5, <2>6
<1>18. ASSUME NEW s \in Strangers, connect(s.head, s.body, s.takes)
      PROVE  ExchangeTyped' /\ Attended' /\ Paid' /\ ThreadKnown' /\ AnswerKnown'
             /\ AnswerMade'
  <2>1. ExchangeTyped'
    <3>1. s.head \in Nat /\ s.body \in Nat
      <4>1. Endless \in Nat
        BY ExchangeAssumption DEF Endless
      <4>2. s.head \in {2, Endless} /\ s.body \in {0, 2}
        BY DEF Strangers
      <4> QED BY <4>1, <4>2
    <3> QED BY <1>1, <1>18, <3>1 DEF connect, ExchangeTyped, Nobody, Asks
  <2>2. Attended'
    BY <1>1, <1>18 DEF connect, Attended, ExchangeTyped
  <2>3. Paid'
    BY <1>1, <1>18, ExchangeAssumption DEF connect, Paid, ExchangeTyped
  <2>4. ThreadKnown'
    BY <1>1, <1>18 DEF connect, ThreadKnown
  <2>5. AnswerKnown'
    BY <1>1, <1>18 DEF connect, AnswerKnown, ExchangeTyped, Nobody
  <2>6. AnswerMade'
    BY <1>1, <1>18 DEF connect, AnswerMade, AnswerKnown, ExchangeTyped
  <2> QED BY <2>1, <2>2, <2>3, <2>4, <2>5, <2>6
<1>19. ASSUME NEW parsed \in BOOLEAN, readResponse(parsed)
      PROVE  ExchangeTyped' /\ Attended' /\ Paid' /\ ThreadKnown' /\ AnswerKnown'
             /\ AnswerMade'
  <2>1. ExchangeTyped'
    BY <1>1, <1>19, ExchangeAssumption DEF readResponse, ExchangeTyped
  <2>2. Attended'
    BY <1>1, <1>19 DEF readResponse, Attended, ExchangeTyped
  <2>3. Paid'
    BY <1>1, <1>19, ExchangeAssumption DEF readResponse, Paid, ExchangeTyped
  <2>4. ThreadKnown'
    BY <1>1, <1>19 DEF readResponse, ThreadKnown
  <2>5. AnswerKnown'
    BY <1>1, <1>19
    DEF readResponse, AnswerKnown, ExchangeTyped, fetch, fetchesHTTP, describes, bodyOf, NoBody
  <2>6. AnswerMade'
    BY <1>1, <1>19 DEF readResponse, AnswerMade, AnswerKnown, ExchangeTyped, fetch
  <2> QED BY <2>1, <2>2, <2>3, <2>4, <2>5, <2>6
<1>20. ASSUME NEW version \in 0..1, edit(version)
      PROVE  ExchangeTyped' /\ Attended' /\ Paid' /\ ThreadKnown' /\ AnswerKnown'
             /\ AnswerMade'
  <2>1. ExchangeTyped'
    BY <1>1, <1>20, ExchangeAssumption DEF edit, ExchangeTyped
  <2>2. Attended'
    BY <1>1, <1>20 DEF edit, Attended, ExchangeTyped
  <2>3. Paid'
    BY <1>1, <1>20, ExchangeAssumption DEF edit, Paid, ExchangeTyped
  <2>4. ThreadKnown'
    BY <1>1, <1>20 DEF edit, ThreadKnown
  <2>5. AnswerKnown'
    BY <1>1, <1>20 DEF edit, AnswerKnown, ExchangeTyped
  <2>6. AnswerMade'
    BY <1>1, <1>20 DEF edit, AnswerMade, AnswerKnown, ExchangeTyped
  <2> QED BY <2>1, <2>2, <2>3, <2>4, <2>5, <2>6
<1> QED
  BY <1>3, <1>4, <1>5, <1>6, <1>7, <1>8, <1>9, <1>10, <1>11, <1>12, <1>13, <1>14, <1>15,
     <1>16, <1>17, <1>18, <1>19, <1>20, <1>21
  DEF Next, Server, Peers

\* RTSPServer, ConnectionAPIServer, RtspServer and HttpServer read no request for longer
\* than the ceiling, stop() never closes the socket under a loop that may accept on
\* it, and what SDPFetcher returns is of a version published while it asked: for any
\* ceiling, request limit and number of edits. Of how long an answer takes, and of
\* whether all of it arrives, it says nothing.
THEOREM AlwaysServedTruly == Spec => []ServedTruly
<1>1. ExchangeInv => ServedTruly
  <2> SUFFICES ASSUME ExchangeInv PROVE ServedTruly
    OBVIOUS
  <2>1. ReadBriefly
    BY ExchangeAssumption DEF ExchangeInv, ExchangeTyped, Paid, ReadBriefly
  <2>2. NotClosedUnder /\ FetchedIsPublished
    BY DEF ExchangeInv, ThreadKnown, AnswerKnown, NotClosedUnder, FetchedIsPublished
  <2> QED BY <2>1, <2>2 DEF ServedTruly
<1> QED BY <1>1, ExchangeInitially, ExchangeStep, PTL DEF Spec

-----------------------------------------------------------------------------
(* Being registered *)

\* What a registry can hold of this host.
Registry == [up : BOOLEAN, node : BOOLEAN, hasDev : BOOLEAN,
             dev : SUBSET Streams, res : SUBSET Streams]

\* The driver has a registry.
Enrolled == phase \in {"running", "joining", "leaving", "gone"}
Serving == phase \in {"running", "joining"}

RegistrationTyped ==
  /\ reg \in [Registries -> Registry]
  /\ known \subseteq Registries /\ seeking \subseteq Registries
  /\ phase \in {"starting", "running", "joining", "leaving", "gone", "without"}
  /\ Enrolled => cur \in Registries
  /\ streams \subseteq Streams /\ snapshot \subseteq Streams /\ published_ \subseteq Streams
  /\ pc \in {"idle", "posts", "deletes"} /\ (pc # "idle" => Serving)
  /\ todo \in Seq(Streams \cup {Device})
  /\ Range(todo) \subseteq IF pc = "posts" THEN snapshot \cup {Device}
                          ELSE Streams \ snapshot
  /\ pc = "idle" => todo = <<>>

\* What the driver knows to be there: a sync will delete it if it must go.
NothingElse ==
  Serving /\ reg[cur].node /\ ~leftovers =>
    reg[cur].res \subseteq published_ \cup (IF pc = "posts" THEN snapshot ELSE Range(todo))

\* Neither was anything lost nor is a sync still to come.
Told == phase = "running" /\ reg[cur].node /\ ~leftovers /\ ~requested /\ ~postFailed

\* What this sync has posted so far is there.
PostedIsThere ==
  Told => /\ streams = snapshot
          /\ snapshot \subseteq reg[cur].res \cup Range(todo)
          /\ Device \notin Range(todo) => reg[cur].hasDev /\ reg[cur].dev = snapshot
          /\ pc # "posts" => published_ = snapshot

\* What holds of the driver's client; RegistryAgrees is not about the RAVENNA daemon's,
\* whose phase stays where it began.
HostAgrees == RegistrationTyped /\ NothingElse /\ PostedIsThere /\ GoneIsGone

RegistrationInv ==
  /\ client = "ravenna" => phase = "starting"
  /\ client # "ravenna" => HostAgrees

-----------------------------------------------------------------------------

\* A set of registries has a first one.
LEMMA FirstIsOne ==
  ASSUME NEW S \in SUBSET Registries, S # {}
  PROVE  first(S) \in S
<1>1. S \subseteq Nat
  <2>1. Cardinality(Registries) \in Nat
    BY RegistrationAssumption, FS_CardinalityType
  <2>2. Registries = 1..Cardinality(Registries)
    BY RegistrationAssumption
  <2>3. PICK n \in Nat : Registries = 1..n
    BY <2>1, <2>2
  <2> QED BY <2>3
<1> DEFINE Less == OpToRel(<, Nat)
<1>2. IsWellFoundedOn(Less, Nat)
  BY NatLessThanWellFounded
<1> HIDE DEF Less
<1>3. PICK x \in S : \A y \in S : ~(<<y, x>> \in Less)
  BY <1>1, <1>2, WFMin
<1>4. \A y \in S : x <= y
  <2>1. \A y \in S : y \in Nat /\ x \in Nat
    BY <1>1
  <2>2. \A y \in S : ~(y < x)
    BY <1>1, <1>3 DEF Less, OpToRel
  <2> QED BY <2>1, <2>2
<1> QED BY <1>4 DEF first

\* A set of streams is put in some order, each of them once.
LEMMA InOrderOf ==
  ASSUME NEW S \in SUBSET Streams
  PROVE  SetToSeq(S) \in Seq(S) /\ Range(SetToSeq(S)) = S
<1>1. IsFiniteSet(S)
  BY RegistrationAssumption, FS_Subset
<1> DEFINE n == Cardinality(S)
<1>2. n \in Nat /\ ExistsBijection(1..n, S)
  BY <1>1, FS_CardinalityType
<1> HIDE DEF n
<1>3. \E f \in [1..n -> S] : IsInjective(f)
  BY <1>2 DEF ExistsBijection, Bijection, Injection
<1> DEFINE q == SetToSeq(S)
<1>4. q \in [1..n -> S] /\ IsInjective(q)
  BY <1>3 DEF SetToSeq, n
<1> HIDE DEF q
<1>5. q \in Injection(1..n, S)
  BY <1>4 DEF Injection
<1>6. IsFiniteSet(1..n) /\ Cardinality(1..n) = n
  BY <1>2, FS_Interval
<1>7. q \in Surjection(1..n, S)
  BY <1>1, <1>5, <1>6, FS_Injection DEF n
<1>8. Range(q) = S
  BY <1>4, <1>7 DEF Surjection, Range
<1>9. q \in Seq(S)
  BY <1>2, <1>4
<1> QED BY <1>8, <1>9 DEF q

\* The elements of a sequence are its head and those of its tail.
LEMMA HeadAndRest ==
  ASSUME NEW X, NEW q \in Seq(X), q # <<>>
  PROVE  /\ Head(q) \in X /\ Tail(q) \in Seq(X)
         /\ Range(q) = {Head(q)} \cup Range(Tail(q))
<1>1. Head(q) \in X /\ Tail(q) \in Seq(X)
  BY HeadTailProperties
<1>2. /\ Len(q) \in Nat \ {0} /\ DOMAIN q = 1..Len(q) /\ Head(q) = q[1]
      /\ DOMAIN Tail(q) = 1..(Len(q) - 1)
      /\ \A i \in 1..(Len(q) - 1) : Tail(q)[i] = q[i + 1]
  OBVIOUS
<1>3. Range(q) \subseteq {Head(q)} \cup Range(Tail(q))
  <2> SUFFICES ASSUME NEW i \in 1..Len(q), i # 1 PROVE q[i] \in Range(Tail(q))
    BY <1>2 DEF Range
  <2>1. i - 1 \in 1..(Len(q) - 1) /\ q[(i - 1) + 1] = q[i]
    BY <1>2
  <2> QED BY <1>2, <2>1 DEF Range
<1>4. {Head(q)} \cup Range(Tail(q)) \subseteq Range(q)
  <2>1. \A i \in 1..(Len(q) - 1) : i + 1 \in 1..Len(q)
    BY <1>2
  <2>2. 1 \in 1..Len(q)
    BY <1>2
  <2> QED BY <1>2, <2>1, <2>2 DEF Range
<1> QED BY <1>1, <1>3, <1>4

LEMMA NothingToDo == Range(<<>>) = {}
BY DEF Range

\* The device before the streams.
LEMMA DeviceFirst ==
  ASSUME NEW q \in Seq(Streams)
  PROVE  LET p == <<Device>> \o q
         IN  p \in Seq(Streams \cup {Device}) /\ Range(p) = {Device} \cup Range(q)
<1> DEFINE p == <<Device>> \o q
<1>1. q \in Seq(Streams \cup {Device}) /\ <<Device>> \in Seq(Streams \cup {Device})
  OBVIOUS
<1>2. p \in Seq(Streams \cup {Device})
  BY <1>1
<1>3. /\ Len(q) \in Nat /\ DOMAIN q = 1..Len(q)
      /\ Len(p) = Len(q) + 1 /\ DOMAIN p = 1..Len(p)
      /\ p[1] = Device /\ \A i \in 1..Len(q) : p[i + 1] = q[i]
  BY <1>1
<1> HIDE DEF p
<1>4. Range(p) \subseteq {Device} \cup Range(q)
  <2> SUFFICES ASSUME NEW i \in 1..Len(p), i # 1 PROVE p[i] \in Range(q)
    BY <1>3 DEF Range
  <2>1. i - 1 \in 1..Len(q) /\ p[(i - 1) + 1] = p[i]
    BY <1>3
  <2> QED BY <1>3, <2>1 DEF Range
<1>5. {Device} \cup Range(q) \subseteq Range(p)
  <2>1. 1 \in DOMAIN p /\ \A i \in DOMAIN q : i + 1 \in DOMAIN p
    BY <1>3
  <2> QED BY <1>3, <2>1 DEF Range
<1> QED BY <1>2, <1>4, <1>5 DEF p

-----------------------------------------------------------------------------
(* What a registry is made to hold *)

LEMMA Names == Node # Device /\ Node \notin Streams /\ Device \notin Streams
BY RegistrationAssumption DEF Node, Device

LEMMA EmptyIsOne ==
  /\ EmptyRegistry \in Registry
  /\ [EmptyRegistry EXCEPT !.node = TRUE] \in Registry
  /\ [EmptyRegistry EXCEPT !.node = TRUE].res = {}
BY DEF EmptyRegistry, Registry

LEMMA NodeDropped ==
  ASSUME NEW g \in Registry
  PROVE  /\ Drop(g, Node) \in Registry /\ ~Drop(g, Node).node
         /\ Put(Drop(g, Node), Node, {}) \in Registry
<1>1. Drop(g, Node) = [EmptyRegistry EXCEPT !.up = g.up]
  BY Names DEF Drop
<1>2. Drop(g, Node) \in Registry /\ ~Drop(g, Node).node
  BY <1>1 DEF EmptyRegistry, Registry
<1>3. Put(Drop(g, Node), Node, {}) = [Drop(g, Node) EXCEPT !.node = TRUE]
  BY Names DEF Put
<1> QED BY <1>2, <1>3 DEF Registry

LEMMA DevicePosted ==
  ASSUME NEW g \in Registry, NEW list \in SUBSET Streams
  PROVE  LET p == Put(g, Device, list)
             d == Drop(g, Device)
         IN  /\ p \in Registry /\ p.node = g.node /\ p.res = g.res
             /\ p.hasDev = TRUE /\ p.dev = list
             /\ d \in Registry /\ d.node = g.node /\ d.res = g.res
<1>1. /\ Put(g, Device, list) = [g EXCEPT !.hasDev = TRUE, !.dev = list]
      /\ Drop(g, Device) = [g EXCEPT !.hasDev = FALSE, !.dev = {}]
  BY Names DEF Put, Drop
<1> QED BY <1>1 DEF Registry

LEMMA StreamPosted ==
  ASSUME NEW g \in Registry, NEW x \in Streams, NEW list
  PROVE  LET p == Put(g, x, list)
             d == Drop(g, x)
         IN  /\ p \in Registry /\ p.node = g.node /\ p.hasDev = g.hasDev /\ p.dev = g.dev
             /\ p.res = g.res \cup {x}
             /\ d \in Registry /\ d.node = g.node /\ d.hasDev = g.hasDev /\ d.dev = g.dev
             /\ d.res = g.res \ {x}
<1>1. x # Node /\ x # Device
  BY Names
<1>2. /\ Put(g, x, list) = [g EXCEPT !.res = g.res \cup {x}]
      /\ Drop(g, x) = [g EXCEPT !.res = g.res \ {x}]
  BY <1>1 DEF Put, Drop
<1> QED BY <1>2 DEF Registry

LEMMA OneRegistry ==
  ASSUME reg \in [Registries -> Registry], NEW r \in Registries, NEW g \in Registry,
         reg' = [reg EXCEPT ![r] = g]
  PROVE  /\ reg' \in [Registries -> Registry] /\ reg'[r] = g
         /\ \A k \in Registries \ {r} : reg'[k] = reg[k]
OBVIOUS
-----------------------------------------------------------------------------
(* The heartbeat *)

\* An exchange with one registry, answered or not.
LEMMA Exchanged ==
  ASSUME reg \in [Registries -> Registry], NEW r \in Registries
  PROVE  /\ \A g \in Registry : Answered(r, g) =>
              /\ reg' \in [Registries -> Registry] /\ reg'[r] = g
              /\ \A k \in Registries \ {r} : reg'[k] = reg[k]
         /\ \A S \in SUBSET Registry : Unanswered(r, S) =>
              /\ reg' \in [Registries -> Registry] /\ reg'[r] \in S \cup {reg[r]}
              /\ \A k \in Registries \ {r} : reg'[k] = reg[k]
<1>1. ASSUME NEW g \in Registry, Answered(r, g)
      PROVE  /\ reg' \in [Registries -> Registry] /\ reg'[r] = g
             /\ \A k \in Registries \ {r} : reg'[k] = reg[k]
  BY <1>1, OneRegistry DEF Answered
<1>2. ASSUME NEW S \in SUBSET Registry, Unanswered(r, S)
      PROVE  /\ reg' \in [Registries -> Registry] /\ reg'[r] \in S \cup {reg[r]}
             /\ \A k \in Registries \ {r} : reg'[k] = reg[k]
  <2>1. CASE UNCHANGED reg
    BY <2>1
  <2>2. CASE \E g \in S \cup {reg[r]} : reg' = [reg EXCEPT ![r] = g]
    <3>1. PICK g \in S \cup {reg[r]} : reg' = [reg EXCEPT ![r] = g]
      BY <2>2
    <3> QED BY <3>1
  <2> QED BY <1>2, <2>1, <2>2 DEF Unanswered
<1> QED BY <1>1, <1>2

\* postNode(): when it is answered the registry holds the node and nothing else.
LEMMA NodePosted ==
  ASSUME reg \in [Registries -> Registry], NEW r \in Registries, postNode(r)
  PROVE  /\ reg' \in [Registries -> Registry]
         /\ \A k \in Registries \ {r} : reg'[k] = reg[k]
         /\ registered' => reg'[r] = [EmptyRegistry EXCEPT !.node = TRUE]
<1> DEFINE fresh == [EmptyRegistry EXCEPT !.node = TRUE]
<1>1. CASE Answered(r, fresh) /\ registered' = TRUE
  BY <1>1, EmptyIsOne, Exchanged
<1> DEFINE S == {Put(Drop(reg[r], Node), Node, {})}
                   \cup (IF reg[r].node THEN {Drop(reg[r], Node)} ELSE {})
<1>2. CASE Unanswered(r, S) /\ registered' = FALSE
  <2>1. S \subseteq Registry
    BY NodeDropped
  <2> HIDE DEF S
  <2> QED BY <1>2, <2>1, Exchanged
<1> QED BY <1>1, <1>2 DEF postNode

\* A beat that is answered finds the node, or registers it from nothing and asks for
\* a sync; one that is not leaves the request as it was.
LEMMA Beaten ==
  ASSUME RegistrationTyped, NEW r \in Registries, beat(r)
  PROVE  /\ reg' \in [Registries -> Registry]
         /\ \A k \in Registries \ {r} : reg'[k] = reg[k]
         /\ registered' => \/ reg[r].node /\ reg' = reg /\ requested' = requested
                          \/ /\ ~reg[r].node
                             /\ reg'[r] = [EmptyRegistry EXCEPT !.node = TRUE]
                             /\ phase = "running" => requested'
         /\ ~registered' => requested' = requested
<1>1. reg[r] \in Registry /\ reg \in [Registries -> Registry]
  BY DEF RegistrationTyped
<1>2. CASE reg[r].node /\ Answered(r, reg[r]) /\ registered' = TRUE /\ UNCHANGED requested
  <2>1. reg' = [reg EXCEPT ![r] = reg[r]]
    BY <1>2 DEF Answered
  <2>2. reg' = reg
    BY <1>1, <2>1
  <2> QED BY <1>1, <1>2, <2>2
<1>3. CASE /\ ~reg[r].node /\ postNode(r)
           /\ IF registered' THEN requestNMOSSync ELSE UNCHANGED requested
  <2>1. registered' /\ phase = "running" => requested'
    BY <1>3 DEF requestNMOSSync
  <2> QED BY <1>1, <1>3, <2>1, NodePosted
<1>4. CASE Unanswered(r, {}) /\ registered' = FALSE /\ UNCHANGED requested
  BY <1>1, <1>4, Exchanged
<1> QED BY <1>2, <1>3, <1>4 DEF beat

\* A step that leaves the sync and what this host carries alone, and the registry in
\* use with what it held unless it forgets the node or the history says so.
LEMMA RegistryAsItWas ==
  ASSUME RegistrationTyped, NothingElse, PostedIsThere,
         UNCHANGED <<cur, streams, pc, todo, snapshot, published_, postFailed>>,
         Enrolled',
         ~leftovers' /\ reg'[cur].node =>
           /\ ~leftovers /\ reg[cur].node /\ reg'[cur].res = reg[cur].res
           /\ reg'[cur].hasDev = reg[cur].hasDev /\ reg'[cur].dev = reg[cur].dev,
         Serving' => Serving, phase' = "running" => phase = "running",
         phase' = "running" /\ ~requested' => ~requested
  PROVE  NothingElse' /\ PostedIsThere'
<1>1. NothingElse'
  BY DEF NothingElse
<1>2. PostedIsThere'
  BY DEF PostedIsThere, Told
<1> QED BY <1>1, <1>2

\* ... and one that finds, or makes, the registry empty and asks for a sync.
LEMMA RegistryIsFresh ==
  ASSUME reg'[cur'].res = {}, phase' = "running" => requested'
  PROVE  NothingElse' /\ PostedIsThere'
BY DEF NothingElse, PostedIsThere, Told

\* A host without a registry in use has nothing to agree about.
LEMMA NotEnrolled == ~Enrolled => NothingElse /\ PostedIsThere /\ GoneIsGone
BY DEF Enrolled, Serving, NothingElse, PostedIsThere, Told, GoneIsGone

-----------------------------------------------------------------------------
(* One step each *)

LEMMA RegistriesKeep ==
  ASSUME HostAgrees, NEW r \in Registries,
         registryFails(r) \/ registryReturns(r) \/ browse(r)
  PROVE  HostAgrees'
<1>1. reg \in [Registries -> Registry] /\ reg[r] \in Registry
  BY DEF HostAgrees, RegistrationTyped
<1>2. UNCHANGED <<hostVars, syncVars, leftovers, seeking, phase>>
  BY DEF registryFails, registryReturns, browse, walkVars
<1>3. \/ reg' = reg
      \/ reg' = [reg EXCEPT ![r].up = FALSE]
      \/ reg' = [reg EXCEPT ![r] = Drop(reg[r], Node)]
      \/ reg' = [reg EXCEPT ![r] = EmptyRegistry]
  BY DEF registryFails, registryReturns, browse
<1> DEFINE Kept(k) == reg'[k].node => /\ reg[k].node /\ reg'[k].res = reg[k].res
                                      /\ reg'[k].hasDev = reg[k].hasDev
                                      /\ reg'[k].dev = reg[k].dev
<1>4. reg' \in [Registries -> Registry] /\ \A k \in Registries : Kept(k)
  <2>1. CASE reg' = reg
    BY <1>1, <2>1
  <2>2. CASE reg' = [reg EXCEPT ![r].up = FALSE]
    BY <1>1, <2>2 DEF Registry
  <2>3. ASSUME NEW g \in Registry, ~g.node, reg' = [reg EXCEPT ![r] = g]
        PROVE  reg' \in [Registries -> Registry] /\ \A k \in Registries : Kept(k)
    BY <1>1, <2>3
  <2>4. ~EmptyRegistry.node
    BY DEF EmptyRegistry
  <2> QED BY <1>1, <1>3, <2>1, <2>2, <2>3, <2>4, NodeDropped, EmptyIsOne
<1>5. known' \subseteq Registries
  BY DEF registryFails, registryReturns, browse, HostAgrees, RegistrationTyped
<1>6. RegistrationTyped'
  BY <1>2, <1>4, <1>5
  DEF HostAgrees, RegistrationTyped, Enrolled, Serving, hostVars, syncVars
<1>7. CASE ~Enrolled
  <2>1. ~Enrolled'
    BY <1>2, <1>7 DEF Enrolled
  <2> QED BY <1>6, <2>1, NotEnrolled DEF HostAgrees, Enrolled, NothingElse, PostedIsThere,
                                         GoneIsGone, Told, Serving
<1>8. CASE Enrolled
  <2>1. cur \in Registries
    BY <1>8 DEF HostAgrees, RegistrationTyped
  <2>2. NothingElse' /\ PostedIsThere'
    BY <1>2, <1>4, <1>8, <2>1, RegistryAsItWas
    DEF HostAgrees, Enrolled, Serving, hostVars, syncVars
  <2>3. GoneIsGone'
    BY <1>2, <1>4, <2>1 DEF HostAgrees, GoneIsGone, hostVars
  <2> QED BY <1>6, <2>2, <2>3 DEF HostAgrees
<1> QED BY <1>7, <1>8

LEMMA StreamsKeep ==
  ASSUME HostAgrees, NEW s \in Streams, streamChanges(s)
  PROVE  HostAgrees'
<1>1. streams' \subseteq Streams
  BY DEF streamChanges, HostAgrees, RegistrationTyped
<1>2. UNCHANGED <<reg, known, cur, pc, todo, snapshot, published_, postFailed, leftovers,
                  seeking, phase>>
  BY DEF streamChanges, walkVars
<1>3. phase = "running" => requested'
  BY DEF streamChanges, requestNMOSSync
<1>4. RegistrationTyped'
  BY <1>1, <1>2 DEF HostAgrees, RegistrationTyped, Enrolled, Serving
<1>5. NothingElse' /\ GoneIsGone'
  BY <1>2 DEF HostAgrees, NothingElse, GoneIsGone, Serving
<1>6. PostedIsThere'
  BY <1>2, <1>3 DEF PostedIsThere, Told
<1> QED BY <1>4, <1>5, <1>6 DEF HostAgrees

LEMMA RegisterKeeps ==
  ASSUME HostAgrees, registerWith
  PROVE  HostAgrees'
<1>1. reg \in [Registries -> Registry] /\ known \subseteq Registries /\ phase = "starting"
  BY DEF registerWith, HostAgrees, RegistrationTyped
<1>2. pc = "idle"
  BY <1>1 DEF HostAgrees, RegistrationTyped, Serving
<1>3. UNCHANGED <<known, streams, pc, todo, snapshot, published_, seeking>>
  BY DEF registerWith, walkVars
<1>4. CASE known = {} /\ registered' = FALSE /\ cur' = 0 /\ UNCHANGED <<reg, faults>>
  <2>1. phase' = "without"
    BY <1>4 DEF registerWith
  <2>2. RegistrationTyped'
    BY <1>1, <1>2, <1>3, <1>4, <2>1 DEF HostAgrees, RegistrationTyped, Enrolled, Serving
  <2> QED BY <2>1, <2>2
          DEF HostAgrees, NothingElse, PostedIsThere, GoneIsGone, Told, Serving
<1>5. CASE /\ known # {} /\ postNode(first(known))
           /\ cur' = IF registered' THEN first(known) ELSE 0
  <2> DEFINE r == first(known)
  <2>1. r \in Registries
    BY <1>1, <1>5, FirstIsOne
  <2> HIDE DEF r
  <2>2. /\ reg' \in [Registries -> Registry]
        /\ registered' => reg'[r] = [EmptyRegistry EXCEPT !.node = TRUE]
    BY <1>1, <1>5, <2>1, NodePosted DEF r
  <2>3. CASE registered'
    <3>1. phase' = "running" /\ requested' /\ cur' = r /\ reg'[cur'].res = {}
      BY <1>5, <2>2, <2>3, EmptyIsOne DEF registerWith, r
    <3>2. RegistrationTyped'
      BY <1>2, <1>3, <2>1, <2>2, <3>1 DEF HostAgrees, RegistrationTyped, Enrolled, Serving
    <3> QED BY <3>1, <3>2, RegistryIsFresh DEF HostAgrees, GoneIsGone
  <2>4. CASE ~registered'
    <3>1. phase' = "without"
      BY <2>4 DEF registerWith
    <3>2. RegistrationTyped'
      BY <1>2, <1>3, <2>2, <3>1 DEF HostAgrees, RegistrationTyped, Enrolled, Serving
    <3> QED BY <3>1, <3>2
            DEF HostAgrees, NothingElse, PostedIsThere, GoneIsGone, Told, Serving
  <2> QED BY <2>3, <2>4
<1> QED BY <1>4, <1>5 DEF registerWith

LEMMA HeartbeatKeeps ==
  ASSUME HostAgrees, heartbeat
  PROVE  HostAgrees'
<1>1. /\ RegistrationTyped /\ Serving /\ Enrolled
      /\ cur \in Registries /\ known \subseteq Registries
  BY DEF heartbeat, beating, HostAgrees, RegistrationTyped, Enrolled, Serving
<1>2. beat(cur) /\ leftovers' = leftBehind(cur)
  BY DEF heartbeat
<1>3. UNCHANGED <<known, cur, streams, pc, todo, snapshot, published_, postFailed, phase>>
  BY DEF heartbeat
<1>4. /\ reg' \in [Registries -> Registry]
      /\ registered' => \/ reg[cur].node /\ reg' = reg /\ requested' = requested
                       \/ /\ ~reg[cur].node
                          /\ reg'[cur] = [EmptyRegistry EXCEPT !.node = TRUE]
                          /\ phase = "running" => requested'
      /\ ~registered' => requested' = requested
  BY <1>1, <1>2, Beaten
<1>5. seeking' \subseteq Registries
  BY <1>1 DEF heartbeat
<1>6. RegistrationTyped'
  BY <1>1, <1>3, <1>4, <1>5 DEF RegistrationTyped, Enrolled, Serving
<1>7. GoneIsGone'
  BY <1>1, <1>3 DEF Serving, GoneIsGone
<1>8. CASE registered' /\ ~reg[cur].node
  <2>1. reg'[cur'].res = {} /\ (phase' = "running" => requested')
    BY <1>3, <1>4, <1>8, EmptyIsOne
  <2> QED BY <1>6, <1>7, <2>1, RegistryIsFresh DEF HostAgrees
<1>9. CASE ~(registered' /\ ~reg[cur].node)
  <2>1. requested' = requested
    BY <1>4, <1>9
  <2>2. ~leftovers' => ~leftovers /\ reg'[cur] = reg[cur]
    BY <1>2, <1>4, <1>9 DEF leftBehind
  <2>3. NothingElse' /\ PostedIsThere'
    BY <1>1, <1>3, <2>1, <2>2, RegistryAsItWas DEF HostAgrees, Serving, Enrolled
  <2> QED BY <1>6, <1>7, <2>3 DEF HostAgrees
<1> QED BY <1>8, <1>9

LEMMA FailOverKeeps ==
  ASSUME HostAgrees, failOverTo
  PROVE  HostAgrees'
<1>1. /\ RegistrationTyped /\ Serving /\ known \subseteq Registries
      /\ seeking \subseteq Registries /\ seeking # {}
  BY DEF failOverTo, beating, HostAgrees, RegistrationTyped, Serving
<1> DEFINE r == first(seeking)
<1>2. r \in Registries
  BY <1>1, FirstIsOne
<1> HIDE DEF r
<1>3. cur' = r /\ beat(r) /\ leftovers' = (reg[r].node \/ ~registered')
  BY DEF failOverTo, r
<1>4. UNCHANGED <<known, streams, pc, todo, snapshot, published_, postFailed, phase>>
  BY DEF failOverTo
<1>5. /\ reg' \in [Registries -> Registry]
      /\ registered' => \/ reg[r].node
                       \/ /\ reg'[r] = [EmptyRegistry EXCEPT !.node = TRUE]
                          /\ phase = "running" => requested'
  BY <1>1, <1>2, <1>3, Beaten
<1>6. seeking' \subseteq Registries
  BY <1>1 DEF failOverTo
<1>7. RegistrationTyped'
  BY <1>1, <1>2, <1>3, <1>4, <1>5, <1>6 DEF RegistrationTyped, Enrolled, Serving
<1>8. GoneIsGone'
  BY <1>1, <1>4 DEF Serving, GoneIsGone
<1>9. NothingElse' /\ PostedIsThere'
  <2>1. CASE leftovers'
    BY <2>1 DEF NothingElse, PostedIsThere, Told
  <2>2. CASE ~leftovers'
    <3>1. reg'[cur'].res = {} /\ (phase' = "running" => requested')
      BY <1>3, <1>4, <1>5, <2>2, EmptyIsOne
    <3> QED BY <3>1, RegistryIsFresh
  <2> QED BY <2>1, <2>2
<1> QED BY <1>7, <1>8, <1>9 DEF HostAgrees

LEMMA SyncBeginsKeeps ==
  ASSUME HostAgrees, syncBegins
  PROVE  HostAgrees'
<1>1. RegistrationTyped /\ pc = "idle" /\ phase = "running" /\ todo = <<>>
  BY DEF syncBegins, HostAgrees, RegistrationTyped
<1>2. /\ streams \in SUBSET Streams
      /\ UNCHANGED <<reg, known, cur, streams, published_, leftovers, seeking, phase>>
      /\ pc' = "posts" /\ snapshot' = streams /\ todo' = <<Device>> \o SetToSeq(streams)
  BY <1>1 DEF syncBegins, hostVars, walkVars, RegistrationTyped
<1>3. SetToSeq(streams) \in Seq(Streams) /\ Range(SetToSeq(streams)) = streams
  <2>1. SetToSeq(streams) \in Seq(streams) /\ Range(SetToSeq(streams)) = streams
    BY <1>2, InOrderOf
  <2>2. Seq(streams) \subseteq Seq(Streams)
    BY <1>2
  <2> QED BY <2>1, <2>2
<1>4. todo' \in Seq(Streams \cup {Device}) /\ Range(todo') = {Device} \cup streams
  BY <1>2, <1>3, DeviceFirst
<1>5. RegistrationTyped'
  BY <1>1, <1>2, <1>4 DEF RegistrationTyped, Enrolled, Serving
<1>6. NothingElse'
  BY <1>1, <1>2, NothingToDo DEF HostAgrees, NothingElse, Serving
<1>7. PostedIsThere'
  BY <1>2, <1>4 DEF PostedIsThere
<1>8. GoneIsGone'
  BY <1>1, <1>2 DEF GoneIsGone
<1> QED BY <1>5, <1>6, <1>7, <1>8 DEF HostAgrees

LEMMA PostKeeps ==
  ASSUME HostAgrees, postResource
  PROVE  HostAgrees'
<1> DEFINE x == Head(todo)
           g == reg[cur]
<1>1. /\ RegistrationTyped /\ pc = "posts" /\ todo # <<>> /\ Serving /\ cur \in Registries
      /\ reg \in [Registries -> Registry] /\ g \in Registry /\ snapshot \subseteq Streams
      /\ todo \in Seq(Streams \cup {Device})
  BY DEF postResource, HostAgrees, RegistrationTyped, Enrolled, Serving
<1>2. /\ UNCHANGED <<known, cur, streams, requested, pc, snapshot, published_, leftovers,
                     seeking, phase>>
      /\ todo' = Tail(todo)
  BY DEF postResource, hostVars, walkVars
<1>3. /\ x \in Streams \cup {Device} /\ todo' \in Seq(Streams \cup {Device})
      /\ Range(todo) = {x} \cup Range(todo')
  BY <1>1, <1>2, HeadAndRest
<1>4. x \in snapshot \cup {Device} /\ Range(todo') \subseteq snapshot \cup {Device}
  BY <1>1, <1>3 DEF RegistrationTyped
<1>5. g \in Registry /\ snapshot \in SUBSET Streams
  BY <1>1
<1> DEFINE p == Put(g, x, snapshot)
           d == Drop(g, x)
           pd == Put(g, Device, snapshot)
           dd == Drop(g, Device)
<1>6. /\ pd \in Registry /\ pd.node = g.node /\ pd.hasDev = TRUE /\ pd.dev = snapshot
       /\ pd.res = g.res /\ dd \in Registry /\ dd.node = g.node /\ dd.res = g.res
  <2> HIDE DEF g
  <2> QED BY <1>5, DevicePosted
<1>7. x = Device => p = pd /\ d = dd
  OBVIOUS
<1>8. /\ p \in Registry /\ p.node = g.node /\ p.res \subseteq g.res \cup snapshot
      /\ d \in Registry /\ d.node = g.node /\ d.res \subseteq g.res
  <2> HIDE DEF x, g
  <2>1. CASE x = Device
    <3>1. /\ p \in Registry /\ p.node = g.node /\ p.res = g.res
          /\ d \in Registry /\ d.node = g.node /\ d.res = g.res
      <4> HIDE DEF p, d, pd, dd
      <4> QED BY <1>6, <1>7, <2>1
    <3> HIDE DEF p, d
    <3> QED BY <3>1
  <2>2. CASE x \in snapshot
    <3>1. x \in Streams
      BY <1>1, <2>2
    <3>2. /\ p \in Registry /\ p.node = g.node /\ p.res = g.res \cup {x}
          /\ d \in Registry /\ d.node = g.node /\ d.res \subseteq g.res
      BY <1>1, <3>1, StreamPosted
    <3> HIDE DEF p, d
    <3> QED BY <2>2, <3>2
  <2> QED BY <1>4, <2>1, <2>2
<1>9. /\ reg' \in [Registries -> Registry]
      /\ reg'[cur] \in {g, p, d}
      /\ ~postFailed' => reg'[cur] = p /\ ~postFailed
  <2>1. CASE Answered(cur, p) /\ UNCHANGED postFailed
    <3> HIDE DEF p, g, x
    <3> QED BY <1>1, <1>8, <2>1, Exchanged
  <2>2. CASE Answered(cur, g) /\ postFailed' = TRUE
    BY <1>1, <2>2, Exchanged
  <2>3. CASE /\ Unanswered(cur, {h \in {d, p} : Accepts(g, x)}) /\ postFailed' = TRUE
    <3>1. PICK S \in SUBSET {d, p} : Unanswered(cur, S)
      BY <2>3
    <3>2. S \subseteq Registry
      BY <1>8
    <3> HIDE DEF p, d
    <3> QED BY <1>1, <2>3, <3>1, <3>2, Exchanged
  <2> QED BY <2>1, <2>2, <2>3 DEF postResource
<1>10. RegistrationTyped'
  BY <1>1, <1>2, <1>3, <1>4, <1>9 DEF RegistrationTyped, Enrolled, Serving
<1>11. NothingElse'
  <2>1. reg'[cur].node = g.node /\ reg'[cur].res \subseteq g.res \cup snapshot
    BY <1>8, <1>9
  <2> HIDE DEF g
  <2> QED BY <1>1, <1>2, <2>1 DEF HostAgrees, NothingElse, Serving, g
<1>12. PostedIsThere'
  <2> SUFFICES ASSUME Told' PROVE PostedIsThere'
    BY DEF PostedIsThere
  <2>1. reg'[cur] = p /\ Told
    BY <1>2, <1>8, <1>9 DEF Told
  <2>2. /\ streams = snapshot /\ snapshot \subseteq g.res \cup Range(todo)
        /\ Device \notin Range(todo) => g.hasDev /\ g.dev = snapshot
    BY <2>1 DEF HostAgrees, PostedIsThere
  <2>3. CASE x = Device
    <3>1. p.hasDev = TRUE /\ p.dev = snapshot /\ p.res = g.res
      <4> HIDE DEF p, d, pd, dd
      <4> QED BY <1>6, <1>7, <2>3
    <3>2. snapshot \subseteq g.res \cup Range(todo')
      BY <1>1, <1>3, <2>2, <2>3, Names
    <3> HIDE DEF p, g, x
    <3> QED BY <1>1, <1>2, <2>1, <2>2, <3>1, <3>2 DEF PostedIsThere
  <2>4. CASE x \in snapshot
    <3>1. x \in Streams /\ x # Device
      BY <1>1, <2>4, Names
    <3>2. p.hasDev = g.hasDev /\ p.dev = g.dev /\ p.res = g.res \cup {x}
      <4> HIDE DEF x, g
      <4> QED BY <1>1, <3>1, StreamPosted
    <3> HIDE DEF p, g, x
    <3> QED BY <1>1, <1>2, <1>3, <2>1, <2>2, <3>1, <3>2 DEF PostedIsThere
  <2> QED BY <1>4, <2>3, <2>4
<1>13. GoneIsGone'
  BY <1>1, <1>2 DEF GoneIsGone, Serving
<1> QED BY <1>10, <1>11, <1>12, <1>13 DEF HostAgrees

LEMMA PostedKeeps ==
  ASSUME HostAgrees, syncPosted
  PROVE  HostAgrees'
<1>1. RegistrationTyped /\ pc = "posts" /\ todo = <<>> /\ Serving /\ Range(todo) = {}
  BY NothingToDo DEF syncPosted, HostAgrees, RegistrationTyped
<1>2. /\ UNCHANGED <<reg, known, cur, streams, requested, snapshot, postFailed, leftovers,
                     seeking, phase>>
      /\ pc' = "deletes" /\ published_' = snapshot /\ todo' = SetToSeq(published_ \ snapshot)
  BY DEF syncPosted, hostVars, walkVars
<1>3. todo' \in Seq(Streams \cup {Device}) /\ Range(todo') = published_ \ snapshot
  <2> DEFINE S == published_ \ snapshot
  <2>1. S \in SUBSET Streams
    BY <1>1 DEF RegistrationTyped
  <2> HIDE DEF S
  <2>2. SetToSeq(S) \in Seq(S) /\ Range(SetToSeq(S)) = S
    BY <2>1, InOrderOf
  <2>3. Seq(S) \subseteq Seq(Streams \cup {Device})
    BY <2>1
  <2> QED BY <1>2, <2>2, <2>3 DEF S
<1>4. RegistrationTyped'
  BY <1>1, <1>2, <1>3 DEF RegistrationTyped, Enrolled, Serving
<1>5. NothingElse'
  BY <1>1, <1>2, <1>3 DEF HostAgrees, NothingElse, Serving
<1>6. PostedIsThere'
  BY <1>1, <1>2, <1>3, Names DEF HostAgrees, PostedIsThere, Told, RegistrationTyped
<1>7. GoneIsGone'
  BY <1>1, <1>2 DEF GoneIsGone, Serving
<1> QED BY <1>4, <1>5, <1>6, <1>7 DEF HostAgrees

LEMMA DeleteKeeps ==
  ASSUME HostAgrees, deleteResource
  PROVE  HostAgrees'
<1> DEFINE x == Head(todo)
           g == reg[cur]
           d == Drop(g, x)
<1>1. /\ RegistrationTyped /\ pc = "deletes" /\ todo # <<>> /\ Serving /\ cur \in Registries
      /\ reg \in [Registries -> Registry] /\ g \in Registry
      /\ todo \in Seq(Streams \cup {Device}) /\ Range(todo) \subseteq Streams \ snapshot
  BY DEF deleteResource, HostAgrees, RegistrationTyped, Enrolled, Serving
<1>2. /\ UNCHANGED <<known, cur, streams, requested, pc, snapshot, published_, postFailed,
                     seeking, phase>>
      /\ todo' = Tail(todo)
  BY DEF deleteResource, hostVars, walkVars
<1>3. todo' \in Seq(Streams \cup {Device}) /\ Range(todo) = {x} \cup Range(todo')
  BY <1>1, <1>2, HeadAndRest
<1>4. x \in Streams \ snapshot /\ Range(todo') \subseteq Streams \ snapshot
  BY <1>1, <1>3
<1>5. /\ d \in Registry /\ d.node = g.node /\ d.hasDev = g.hasDev /\ d.dev = g.dev
      /\ d.res = g.res \ {x}
  BY <1>1, <1>4, StreamPosted
<1>6. /\ reg' \in [Registries -> Registry]
      /\ ~leftovers' => reg'[cur] = d /\ ~leftovers
  <2> HIDE DEF d
  <2>1. CASE Answered(cur, d) /\ UNCHANGED leftovers
    BY <1>1, <1>5, <2>1, Exchanged
  <2>2. CASE Unanswered(cur, {d}) /\ leftovers' = TRUE
    <3>1. {d} \in SUBSET Registry
      BY <1>5
    <3> QED BY <1>1, <2>2, <3>1, Exchanged
  <2> QED BY <2>1, <2>2 DEF deleteResource, d
<1>7. RegistrationTyped'
  BY <1>1, <1>2, <1>3, <1>4, <1>6 DEF RegistrationTyped, Enrolled, Serving
<1> HIDE DEF d, x
<1>8. NothingElse'
  BY <1>1, <1>2, <1>3, <1>5, <1>6 DEF HostAgrees, NothingElse, Serving
<1>9. PostedIsThere'
  <2> SUFFICES ASSUME Told' PROVE PostedIsThere'
    BY DEF PostedIsThere
  <2>1. reg'[cur] = d /\ Told
    BY <1>2, <1>5, <1>6 DEF Told
  <2>2. Device \notin Range(todo)
    BY <1>1, Names
  <2> QED BY <1>1, <1>2, <1>3, <1>4, <1>5, <2>1, <2>2 DEF HostAgrees, PostedIsThere
<1>10. GoneIsGone'
  BY <1>1, <1>2 DEF GoneIsGone, Serving
<1> QED BY <1>7, <1>8, <1>9, <1>10 DEF HostAgrees

LEMMA SyncEndsKeeps ==
  ASSUME HostAgrees, syncEnds
  PROVE  HostAgrees'
<1>1. RegistrationTyped /\ pc = "deletes" /\ todo = <<>> /\ Serving /\ pc' = "idle"
  BY DEF syncEnds, HostAgrees, RegistrationTyped
<1>2. UNCHANGED <<reg, known, cur, streams, requested, todo, snapshot, published_,
    postFailed,
                  leftovers, seeking, phase>>
  BY DEF syncEnds, hostVars, walkVars
<1>3. RegistrationTyped'
  BY <1>1, <1>2 DEF RegistrationTyped, Enrolled, Serving
<1>4. NothingElse' /\ PostedIsThere'
  BY <1>1, <1>2 DEF HostAgrees, NothingElse, PostedIsThere, Told, Serving
<1>5. GoneIsGone'
  BY <1>1, <1>2 DEF GoneIsGone, Serving
<1> QED BY <1>3, <1>4, <1>5 DEF HostAgrees

LEMMA LeavingKeeps ==
  ASSUME HostAgrees, shutdown \/ stopHeartbeats \/ unregister
  PROVE  HostAgrees'
<1>1. CASE shutdown \/ stopHeartbeats
  <2>1. /\ UNCHANGED <<reg, known, hostVars, syncVars, leftovers, seeking>>
        /\ \/ phase = "running" /\ phase' = "joining"
           \/ phase = "joining" /\ phase' = "leaving" /\ pc = "idle"
    BY <1>1 DEF shutdown, stopHeartbeats, walkVars
  <2>2. RegistrationTyped'
    BY <2>1 DEF HostAgrees, RegistrationTyped, Enrolled, Serving, hostVars, syncVars
  <2>3. NothingElse' /\ PostedIsThere' /\ GoneIsGone'
    BY <2>1 DEF HostAgrees, NothingElse, PostedIsThere, Told, GoneIsGone, Serving, hostVars,
                syncVars
  <2> QED BY <2>2, <2>3 DEF HostAgrees
<1>2. CASE unregister
  <2> DEFINE d == Drop(reg[cur], Node)
  <2>1. /\ RegistrationTyped /\ phase = "leaving" /\ phase' = "gone" /\ cur \in Registries
        /\ reg \in [Registries -> Registry]
        /\ published_' = {}
        /\ UNCHANGED <<known, cur, streams, pc, todo, snapshot, seeking>>
    BY <1>2 DEF unregister, HostAgrees, RegistrationTyped, Enrolled, walkVars
  <2>2. d \in Registry /\ ~d.node
    BY <2>1, NodeDropped
  <2>3. reg' \in [Registries -> Registry] /\ (~leftovers' => reg'[cur] = d)
    <3> HIDE DEF d
    <3>1. CASE Answered(cur, d)
      BY <2>1, <2>2, <3>1, Exchanged
    <3>2. CASE Unanswered(cur, {d}) /\ leftovers' = TRUE
      <4>1. {d} \in SUBSET Registry
        BY <2>2
      <4> QED BY <2>1, <3>2, <4>1, Exchanged
    <3> QED BY <1>2, <3>1, <3>2 DEF unregister, d
  <2>4. RegistrationTyped'
    BY <2>1, <2>3 DEF RegistrationTyped, Enrolled, Serving
  <2>5. NothingElse' /\ PostedIsThere'
    BY <2>1 DEF NothingElse, PostedIsThere, Told, Serving
  <2>6. GoneIsGone'
    BY <2>1, <2>2, <2>3 DEF GoneIsGone
  <2> QED BY <2>4, <2>5, <2>6 DEF HostAgrees
<1> QED BY <1>1, <1>2

-----------------------------------------------------------------------------

LEMMA RegistrationInitially == RegistrationInit => RegistrationInv
<1> SUFFICES ASSUME RegistrationInit PROVE RegistrationInv
  OBVIOUS
<1>1. EmptyRegistry \in Registry /\ StaleRegistry \in Registry
  BY DEF EmptyRegistry, StaleRegistry, Registry
<1>2. reg \in [Registries -> Registry]
  BY <1>1 DEF RegistrationInit
<1>3. RegistrationTyped
  BY <1>2, NothingToDo DEF RegistrationInit, RegistrationTyped, Enrolled, Serving
<1>4. ~Enrolled /\ phase = "starting"
  BY DEF RegistrationInit, Enrolled
<1> QED BY <1>3, <1>4, NotEnrolled DEF RegistrationInv, HostAgrees

LEMMA RegistrationStep == RegistrationInv /\ [RegistrationNext]_regVars => RegistrationInv'
<1> SUFFICES ASSUME RegistrationInv, [RegistrationNext]_regVars PROVE RegistrationInv'
  OBVIOUS
<1>1. client' = client
  BY DEF RegistrationNext, regVars, registryFails, registryReturns, browse, streamChanges,
         registerWith, heartbeat, failOverTo, syncBegins, postResource, syncPosted,
         deleteResource, syncEnds, shutdown, stopHeartbeats, unregister, keepTold, takeUp,
         registerEverything, startOver
<1>2. CASE client = "ravenna"
  <2>1. phase = "starting"
    BY <1>2 DEF RegistrationInv
  <2>2. phase' = phase
    BY <1>2, <2>1
       DEF RegistrationNext, regVars, registryFails, registryReturns, browse, streamChanges,
           registerWith, heartbeat, failOverTo, beating, syncBegins, postResource,
               syncPosted,
           deleteResource, syncEnds, shutdown, stopHeartbeats, unregister, keepTold, takeUp,
           registerEverything, startOver
  <2> QED BY <1>1, <1>2, <2>1, <2>2 DEF RegistrationInv
<1>3. CASE client # "ravenna"
  <2>1. HostAgrees
    BY <1>3 DEF RegistrationInv, HostAgrees
  <2>2. HostAgrees'
    <3>1. CASE UNCHANGED regVars
      BY <2>1, <3>1
      DEF regVars, hostVars, syncVars, walkVars, HostAgrees, RegistrationTyped,
                        NothingElse, PostedIsThere, Told, GoneIsGone, Enrolled, Serving
    <3>2. CASE keepTold \/ takeUp \/ registerEverything \/ startOver
      BY <1>3, <3>2 DEF keepTold, takeUp, registerEverything, startOver, idleClient
    <3> QED BY <2>1, <3>1, <3>2, RegistriesKeep, StreamsKeep, RegisterKeeps, HeartbeatKeeps,
               FailOverKeeps, SyncBeginsKeeps, PostKeeps, PostedKeeps, DeleteKeeps,
               SyncEndsKeeps, LeavingKeeps DEF RegistrationNext
  <2> QED BY <1>1, <1>3, <2>2 DEF RegistrationInv, HostAgrees
<1> QED BY <1>2, <1>3

\* A driver at rest has told its registry exactly what it carries, and one that has gone
\* is in no list, for any number of registries, streams, changes and lost requests:
\* NMOSRegistrationClient.cpp's heartbeats, failover and synchronisation as AES67Device
\* runs them.
THEOREM RegistryAlwaysAgrees == RegistrationSpec => []RegistryAgrees
<1>1. RegistrationInv => RegistryAgrees
  <2> SUFFICES ASSUME RegistrationInv PROVE RegistryAgrees
    OBVIOUS
  <2>1. CASE client = "ravenna"
    BY <2>1 DEF RegistrationInv, RegistryAgrees, RegistryTells, GoneIsGone
  <2>2. CASE client # "ravenna"
    <3>1. RegistryTells
      <4> SUFFICES ASSUME phase = "running", pc = "idle", Told
                   PROVE  reg[cur].hasDev /\ reg[cur].dev = streams /\ reg[cur].res = streams
        BY DEF RegistryTells, Told
      <4>1. todo = <<>> /\ Range(todo) = {}
        BY <2>2, NothingToDo DEF RegistrationInv, HostAgrees, RegistrationTyped
      <4> QED BY <2>2, <4>1
              DEF RegistrationInv, HostAgrees, NothingElse, PostedIsThere, Told,
                               Serving
    <3> QED BY <2>2, <3>1 DEF RegistrationInv, HostAgrees, RegistryAgrees
  <2> QED BY <2>1, <2>2
<1> QED BY <1>1, RegistrationInitially, RegistrationStep, PTL DEF RegistrationSpec

=============================================================================
