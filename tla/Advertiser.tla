------------------------------ MODULE Advertiser ------------------------------
(***************************************************************************)
(* Being found by mDNS: MdnsResponder (aes67-ravenna/Ravenna) announces    *)
(* what a SessionCatalogue holds and the NMOS node, answers queries and    *)
(* says goodbye.  Two programs use it and a host runs one of them: the     *)
(* ravenna-announce tool, whose one thread also takes the node off the     *)
(* link while a registry has it; and the driver's NodeAdvertiser, a thread *)
(* of its own that another thread starts and stops.                        *)
(*                                                                         *)
(* A record stands for the packet that announces it and for the service    *)
(* type a query asks for it by.  A browser keeps what it hears until a     *)
(* goodbye, for the 75 minutes after which it would forget do not pass     *)
(* here.  Any packet may be lost.  One call of announce() or goodbye() is  *)
(* one step: only one thread at a time has the responder.                  *)
(***************************************************************************)
EXTENDS Naturals, FiniteSets

CONSTANTS
  kAnnouncements,  \* 3: how often it announces unprompted
  MaxLosses,       \* bound: packets lost
  MaxRuns          \* bound: times the driver starts its advertiser

ASSUME AdvertiserAssumption == {kAnnouncements, MaxLosses, MaxRuns} \subseteq Nat

Session == "session"
NodeRecord == "node"
Records == {Session, NodeRecord}

VARIABLES
  program,          \* "tool" or "driver"
  sessions_, extras_, announceExtras_,
  socket_,          \* whether it is open
  keepsRunning,     \* g_running, NodeAdvertiser's running_
  place,            \* the thread that has the responder
  owner,            \* the driver's thread that stops it: "idle" or "join"
  announcements,
  registryHas,      \* registeredWith() names a registry
  wasRegistered,
  served,           \* whether what the records lead to answers: RTSP and NMOS
  asked,            \* records a query in the socket's buffer asks for
  cache,            \* what a browser on the link holds
  missed,           \* records whose last goodbye it did not hear
  losses, runs

responderVars == <<sessions_, extras_, announceExtras_, socket_>>
linkVars == <<cache, missed, losses>>
registryVars == <<registryHas, wasRegistered>>
advertiserVars == <<program, responderVars, keepsRunning, place, owner, announcements,
                    registryVars, served, asked, linkVars, runs>>

AdvertiserInit ==
  /\ program \in {"tool", "driver"}
  /\ sessions_ = {} /\ extras_ = {} /\ announceExtras_ = TRUE /\ socket_ = FALSE
  /\ keepsRunning = (program = "tool") /\ place = "off" /\ owner = "idle"
  /\ announcements = 0 /\ registryHas = FALSE /\ wasRegistered = FALSE
  /\ served = FALSE /\ asked = {}
  /\ cache = {} /\ missed = {} /\ losses = 0 /\ runs = 0

-----------------------------------------------------------------------------
(* The responder *)

everything == IF announceExtras_ THEN sessions_ \cup extras_ ELSE sessions_

\* A packet for each of the records S, some of which are lost: announcing them,
\* or saying goodbye with a time to live of zero.
sendAnnouncements(S) ==
  \E lost \in SUBSET S :
    /\ losses' = losses + Cardinality(lost) /\ losses' =< MaxLosses
    /\ cache' = cache \cup (S \ lost)
    /\ missed' = missed \ (S \ lost)

sendGoodbyes(S) ==
  \E lost \in SUBSET S :
    /\ losses' = losses + Cardinality(lost) /\ losses' =< MaxLosses
    /\ cache' = cache \ (S \ lost)
    /\ missed' = (missed \ (S \ lost)) \cup lost

announce == sendAnnouncements(everything)
goodbye == sendGoodbyes(everything)

\* add() to the catalogue: a session by the same name is replaced.  One without a
\* name, not valid, or whose channels are not those of its mapping is refused.
add(session) == sessions_ \cup {session}

\* start() with alsoAdvertise() before it: each of its calls may fail, and then
\* no socket is left.
started(sessions) ==
  /\ sessions_' = sessions /\ extras_' = {NodeRecord} /\ announceExtras_' = TRUE
  /\ socket_' = TRUE

\* Mutant: turned off, the extras are just not mentioned any more.
announceExtras_silently(on) ==
  /\ announceExtras_' = on
  /\ \/ on /\ ~announceExtras_ /\ sendAnnouncements(extras_)
     \/ (~on \/ announceExtras_) /\ UNCHANGED linkVars

announceExtras(on) ==
  /\ announceExtras_' = on
  /\ \/ on = announceExtras_ /\ UNCHANGED linkVars
     \/ on /\ ~announceExtras_ /\ sendAnnouncements(extras_)
     \/ ~on /\ announceExtras_ /\ sendGoodbyes(extras_)

\* A query for anything it has is answered to the group with all it has.
asksAbout(names, advertised) == names \cap advertised # {}

service ==
  /\ asked' = {}
  /\ IF asksAbout(asked, everything) THEN announce ELSE UNCHANGED linkVars

\* A query arrives.
Ask(names) ==
  /\ socket_ /\ asked = {}
  /\ asked' = names
  /\ UNCHANGED <<program, responderVars, keepsRunning, place, owner, announcements,
                 registryVars, served, linkVars, runs>>

-----------------------------------------------------------------------------
(* ravenna-announce *)

\* The session is added to the catalogue, the servers start and then the
\* responder; when one of them fails, or the session is refused, the tool ends
\* having sent nothing.
ToolStarts ==
  /\ program = "tool" /\ place = "off"
  /\ started(add(Session))
  /\ served' = TRUE /\ place' = "announcing"
  /\ UNCHANGED <<program, keepsRunning, owner, announcements, registryVars, asked, linkVars,
                 runs>>

ToolAnnounces ==
  /\ program = "tool" /\ place = "announcing"
  /\ announcements < kAnnouncements /\ keepsRunning
  /\ announce
  /\ announcements' = announcements + 1
  /\ UNCHANGED <<program, responderVars, keepsRunning, place, owner, registryVars, served,
                 asked, runs>>

ToolAnnounced ==
  /\ program = "tool" /\ place = "announcing"
  /\ announcements = kAnnouncements \/ ~keepsRunning
  /\ place' = "loop"
  /\ UNCHANGED <<program, responderVars, keepsRunning, owner, announcements, registryVars,
                 served, asked, linkVars, runs>>

ToolServes ==
  /\ program = "tool" /\ place = "loop" /\ keepsRunning
  /\ service
  /\ place' = "look"
  /\ UNCHANGED <<program, responderVars, keepsRunning, owner, announcements, registryVars,
                 served, runs>>

\* Has a registry got the node, or lost it, since the last look?
ToolLooks ==
  /\ program = "tool" /\ place = "look"
  /\ IF registryHas # wasRegistered
     THEN announceExtras(~registryHas) ELSE UNCHANGED <<announceExtras_, linkVars>>
  /\ wasRegistered' = registryHas
  /\ place' = "loop"
  /\ UNCHANGED <<program, sessions_, extras_, socket_, keepsRunning, owner, announcements,
                 registryHas, served, asked, runs>>

\* registration.stop() and the goodbye.
ToolWithdraws ==
  /\ program = "tool" /\ place = "loop" /\ ~keepsRunning
  /\ goodbye
  /\ place' = "leaving"
  /\ UNCHANGED <<program, responderVars, keepsRunning, owner, announcements, registryVars,
                 served, asked, runs>>

\* The end of main(): the responder's destructor says goodbye once more and
\* closes; the servers, declared before it, are destroyed after it.
ToolDestroys ==
  /\ program = "tool" /\ place = "leaving"
  /\ IF socket_ THEN goodbye /\ socket_' = FALSE /\ UNCHANGED served
                ELSE served' = FALSE /\ UNCHANGED <<linkVars, socket_>>
  /\ place' = IF socket_ THEN "leaving" ELSE "gone"
  /\ UNCHANGED <<program, sessions_, extras_, announceExtras_, keepsRunning, owner,
                 announcements, registryVars, asked, runs>>

Signal ==
  /\ program = "tool" /\ place \notin {"off", "gone"} /\ keepsRunning
  /\ keepsRunning' = FALSE
  /\ UNCHANGED <<program, responderVars, place, owner, announcements, registryVars, served,
                 asked, linkVars, runs>>

\* The registration client's thread registers, or loses its registry.
RegistryChanges ==
  /\ program = "tool" /\ place \notin {"off", "leaving", "gone"}
  /\ registryHas' = ~registryHas
  /\ UNCHANGED <<program, responderVars, keepsRunning, place, owner, announcements,
                 wasRegistered, served, asked, linkVars, runs>>

-----------------------------------------------------------------------------
(* NodeAdvertiser, and the device that owns it *)

\* The device starts the connection API, whose port the record will name; when it
\* cannot, there is nothing to advertise.
DriverApiStarts ==
  /\ program = "driver" /\ owner = "idle" /\ ~keepsRunning /\ ~served
  /\ served' = TRUE
  /\ UNCHANGED <<program, responderVars, keepsRunning, place, owner, announcements,
                 registryVars, asked, linkVars, runs>>

\* start() succeeds; a failure, or an interface without an address, leaves
\* nothing.  A start() while it runs is a stop() followed by this.
DriverStarts ==
  /\ program = "driver" /\ owner = "idle" /\ ~keepsRunning /\ served /\ runs < MaxRuns
  /\ runs' = runs + 1
  /\ started({})
  /\ keepsRunning' = TRUE /\ place' = "turn" /\ announcements' = 0
  /\ UNCHANGED <<program, owner, registryVars, served, asked, linkVars>>

\* A turn of the thread: once it has seen running_, it may announce, as long as
\* it has not done so often enough and a second has passed, and it answers what
\* was asked.
DriverTurns ==
  /\ program = "driver" /\ place = "turn"
  /\ place' = IF keepsRunning THEN "announce" ELSE "off"
  /\ UNCHANGED <<program, responderVars, keepsRunning, owner, announcements, registryVars,
                 served, asked, linkVars, runs>>

DriverAnnounces ==
  /\ program = "driver" /\ place = "announce"
  /\ \/ /\ announcements < kAnnouncements
        /\ announce
        /\ announcements' = announcements + 1
     \/ UNCHANGED <<announcements, linkVars>>
  /\ place' = "serve"
  /\ UNCHANGED <<program, responderVars, keepsRunning, owner, registryVars, served, asked,
                 runs>>

DriverServes ==
  /\ program = "driver" /\ place = "serve"
  /\ service
  /\ place' = "turn"
  /\ UNCHANGED <<program, responderVars, keepsRunning, owner, announcements, registryVars,
                 served, runs>>

\* stop(): the thread is told, waited for, and then the goodbye is said; the
\* responder's destructor says it again and closes.
DriverStops ==
  /\ program = "driver" /\ owner = "idle" /\ keepsRunning
  /\ keepsRunning' = FALSE /\ owner' = "join"
  /\ UNCHANGED <<program, responderVars, place, announcements, registryVars, served, asked,
                 linkVars, runs>>

\* Mutant: the goodbye is not held back until the thread is gone.
DriverWithdraws_early ==
  /\ program = "driver" /\ owner = "join" /\ socket_
  /\ goodbye
  /\ owner' = "destroy"
  /\ UNCHANGED <<program, responderVars, keepsRunning, place, announcements, registryVars,
                 served, asked, runs>>

DriverWithdraws ==
  /\ program = "driver" /\ owner = "join" /\ place = "off"
  /\ goodbye
  /\ owner' = "destroy"
  /\ UNCHANGED <<program, responderVars, keepsRunning, place, announcements, registryVars,
                 served, asked, runs>>

DriverDestroys ==
  /\ program = "driver" /\ owner = "destroy" /\ place = "off"
  /\ goodbye
  /\ socket_' = FALSE /\ asked' = {}
  /\ owner' = "idle"
  /\ UNCHANGED <<program, sessions_, extras_, announceExtras_, keepsRunning, place,
                 announcements, registryVars, served, runs>>

\* Only then does the device stop the connection API.
DriverApiStops ==
  /\ program = "driver" /\ owner = "idle" /\ ~keepsRunning /\ served
  /\ served' = FALSE
  /\ UNCHANGED <<program, responderVars, keepsRunning, place, owner, announcements,
                 registryVars, asked, linkVars, runs>>

-----------------------------------------------------------------------------

AdvertiserNext ==
  \/ \E names \in SUBSET Records \ {{}} : Ask(names)
  \/ ToolStarts \/ ToolAnnounces \/ ToolAnnounced \/ ToolServes \/ ToolLooks
  \/ ToolWithdraws \/ ToolDestroys \/ Signal \/ RegistryChanges
  \/ DriverApiStarts \/ DriverStarts \/ DriverTurns \/ DriverAnnounces \/ DriverServes
  \/ DriverStops \/ DriverWithdraws \/ DriverDestroys \/ DriverApiStops

AdvertiserSpec == AdvertiserInit /\ [][AdvertiserNext]_advertiserVars

-----------------------------------------------------------------------------
(* Properties *)

AdvertiserTypeOK ==
  /\ program \in {"tool", "driver"}
  /\ sessions_ \subseteq {Session} /\ extras_ \subseteq {NodeRecord}
  /\ {announceExtras_, socket_, keepsRunning, registryHas, wasRegistered, served}
       \subseteq BOOLEAN
  /\ place \in {"off", "announcing", "loop", "look", "leaving", "gone", "turn", "announce",
                "serve"}
  /\ owner \in {"idle", "join", "destroy"} /\ announcements \in 0..kAnnouncements
  /\ asked \subseteq Records /\ cache \subseteq Records /\ missed \subseteq Records
  /\ losses \in 0..MaxLosses /\ runs \in 0..MaxRuns

\* What a browser holds is offered and answers, unless the goodbye was lost: also
\* when stop() meets an announcement, when a registry takes the node over, and
\* at the end, where nothing is held any more.
HeldIsOffered ==
  \A r \in cache \ missed : socket_ /\ r \in everything /\ served

\* The node is on the link exactly while the tool last saw no registry have it.
\* The driver's advertiser does not look at the registry.
NodeOrRegistry ==
  announceExtras_ = (program = "driver" \/ ~wasRegistered)

\* What can be found on the link is there.
FoundIsThere == AdvertiserTypeOK /\ HeldIsOffered /\ NodeOrRegistry
=============================================================================
