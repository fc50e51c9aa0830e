--------------------------- MODULE DiscoveryProofs ---------------------------
(***************************************************************************)
(* What the directory of sessions shows, proved for any number of versions *)
(* of a session, changes, lost packets and failed questions, and for any   *)
(* timeouts.                                                               *)
(***************************************************************************)
EXTENDS Discovery, FiniteSetTheorems, SequenceTheorems, TLAPS

Packet == [msgIdHash : Bodies, payload : Bodies, deletion : BOOLEAN]
Heard == [body : Bodies, age : 0..Stale]
Entry == [body : Bodies, age : 0..Stale, sources : SUBSET {"sap", "rtsp"}]
Service == [resolved : BOOLEAN, age : 0..(ServiceTimeout + 1)]

DiscoveryTyped ==
  /\ remote \in [src : Bodies \cup {0}, announced : SUBSET Bodies,
                 said : BOOLEAN, orderly : BOOLEAN]
  /\ IsFiniteSet(remote.announced)
  /\ wire \in [Groups -> Seq(Packet)] /\ heard \in Seq(Heard)
  /\ listener \in Bodies \cup {Waiting, Ended} /\ worker \in Bodies \cup {Waiting, Ended}
  /\ directory \in Seq(Entry) /\ Len(directory) <= 1
  /\ service \in Seq(Service) /\ Len(service) <= 1
  /\ queue \in Seq({"service"})
  /\ steady \in Nat /\ goneFor \in 0..(Stale + 1) /\ faults \in Nat

\* The threads end in the order in which they are stopped.
EndedInTurn ==
  /\ phase \in {"sap", "deleted"} => worker = Ended
  /\ phase = "deleted" => listener = Ended

\* A list of different sessions, the least recently seen first.
Sorted(list) ==
  \A i, j \in DOMAIN list : i < j => /\ list[i].body # list[j].body
                                     /\ list[i].age >= list[j].age

bodies(list) == {list[i].body : i \in DOMAIN list}

\* What is on its way on either group.
OnWire == UNION {Range(wire[g]) : g \in Groups}

\* Without a loss, what the listener still lists and the remote no longer announces
\* has its deletion on the way, and no announcement of it comes after that.
Withdrawn ==
  remote.orderly /\ faults = 0 =>
    /\ joined
    /\ \A p \in OnWire : p.deletion <=> p.msgIdHash \notin remote.announced
    /\ \A b \in bodies(heard) : b \in remote.announced \/ Delete(b) \in OnWire

\* Nothing but b is on its way into the directory.
OnlyOf(b) ==
  /\ \A p \in OnWire : ~p.deletion => p.payload = b
  /\ listener \in Bodies => listener = b
  /\ worker \in Bodies => worker = b

SteadyWay == steady > 0 => OnlyOf(remote.src)
GoneWay == remote.src = 0 /\ goneFor > 0 => OnlyOf(0)

\* Nothing has been filed since the tick in which the session went.
AgedSince ==
  remote.src = 0 /\ directory # None =>
    directory[1].age >= goneFor \/ directory[1].age = Stale

\* This tick's round of questions is over.
Asked == refreshed /\ queue = <<>> /\ worker = Waiting
Rounds == IF Asked THEN faults ELSE faults + 1

\* Every round since the change has been answered or has cost a fault.
AskedInTime ==
  phase = "run" /\ remote.src # 0 /\ again(service) /\ faults < SessionTimeout =>
    \/ steady <= Rounds
    \/ directory # None /\ directory[1].body = remote.src /\ directory[1].age <= Rounds

DiscoveryInv ==
  /\ DiscoveryTyped /\ EndedInTurn /\ Sorted(heard) /\ Withdrawn
  /\ SteadyWay /\ GoneWay /\ AgedSince /\ AskedInTime

-----------------------------------------------------------------------------
(* What the operators do *)

LEMMA Marks ==
  /\ 0 \notin Bodies /\ Waiting \notin Bodies /\ Ended \notin Bodies /\ Waiting # Ended
  /\ SessionTimeout \in Nat /\ Stale \in Nat /\ Stale = SessionTimeout + 1
  /\ ServiceTimeout \in Nat /\ MaxFaults \in Nat /\ ListSize \in Nat \ {0}
BY DiscoveryAssumption DEF Waiting, Ended, Stale

LEMMA PacketsAre ==
  \A b \in Bodies :
    /\ Announce(b) \in Packet /\ ~Announce(b).deletion
    /\ Announce(b).msgIdHash = b /\ Announce(b).payload = b
    /\ Delete(b) \in Packet /\ Delete(b).deletion /\ Delete(b).msgIdHash = b
BY DEF Announce, Delete, Packet

\* Part of a list, in the list's order.
LEMMA PartOfList ==
  ASSUME NEW list, NEW s, NEW f, Sorted(list),
         \A k \in DOMAIN s : f[k] \in DOMAIN list /\ s[k] = list[f[k]],
         \A k, m \in DOMAIN s : k < m => f[k] < f[m]
  PROVE  Sorted(s) /\ bodies(s) \subseteq bodies(list)
<1>1. Sorted(s)
  BY DEF Sorted
<1>2. ASSUME NEW b \in bodies(s) PROVE b \in bodies(list)
  <2>1. PICK k \in DOMAIN s : b = s[k].body
    BY <1>2 DEF bodies
  <2>2. f[k] \in DOMAIN list /\ b = list[f[k]].body
    BY <2>1
  <2> QED BY <2>2 DEF bodies
<1> QED BY <1>1, <1>2

LEMMA ShorterList ==
  ASSUME NEW list \in Seq(Heard), Sorted(list), NEW i \in 1..Len(list)
  PROVE  /\ RemoveAt(list, i) \in Seq(Heard) /\ Sorted(RemoveAt(list, i))
         /\ bodies(RemoveAt(list, i)) \subseteq bodies(list) \ {list[i].body}
<1> DEFINE n == Len(list)
           a == SubSeq(list, 1, i - 1)
           z == SubSeq(list, i + 1, n)
           s == RemoveAt(list, i)
<1>1. n \in Nat /\ DOMAIN list = 1..n /\ \A k \in 1..n : list[k] \in Heard
  BY LenProperties, ElementOfSeq
<1>2. /\ a \in Seq(Heard) /\ Len(a) = i - 1 /\ \A k \in 1..(i - 1) : a[k] = list[k]
  <2>1. i - 1 \in Nat /\ i - 1 =< n
    BY <1>1
  <2> QED BY <1>1, <2>1
<1>3. /\ z \in Seq(Heard) /\ Len(z) = n - i /\ \A k \in 1..(n - i) : z[k] = list[i + k]
  <2>1. i + 1 \in 1..(n + 1) /\ n \in 0..n
    BY <1>1
  <2>2. /\ z \in Seq(Heard) /\ Len(z) = IF i + 1 <= n THEN n - (i + 1) + 1 ELSE 0
        /\ \A k \in 1..(n - (i + 1) + 1) : z[k] = list[i + 1 + k - 1]
    BY <1>1, <2>1, SubSeqProperties
  <2>3. Len(z) = n - i
    <3>1. i \in 1..n
      OBVIOUS
    <3> HIDE DEF z, n
    <3> QED BY <1>1, <2>2, <3>1
  <2>4. ASSUME NEW k \in 1..(n - i) PROVE z[k] = list[i + k]
    <3>1. k \in 1..(n - (i + 1) + 1) /\ i + 1 + k - 1 = i + k
      BY <1>1
    <3> HIDE DEF z
    <3> QED BY <2>2, <3>1
  <2> QED BY <2>2, <2>3, <2>4
<1> HIDE DEF a, z, n
<1>4. s = a \o z
  BY DEF RemoveAt, a, z, n
<1>5. /\ s \in Seq(Heard) /\ Len(s) = n - 1
      /\ \A k \in 1..(n - 1) : s[k] = IF k < i THEN list[k] ELSE list[k + 1]
  <2>1. /\ s \in Seq(Heard) /\ Len(s) = (i - 1) + (n - i)
        /\ \A k \in 1..Len(s) : s[k] = IF k <= i - 1 THEN a[k] ELSE z[k - (i - 1)]
    BY <1>2, <1>3, <1>4, ConcatProperties
  <2> HIDE DEF s
  <2>2. Len(s) = n - 1 /\ i \in 1..n
    BY <1>1, <2>1 DEF n
  <2>3. ASSUME NEW k \in 1..(n - 1) PROVE s[k] = IF k < i THEN list[k] ELSE list[k + 1]
    <3>1. CASE k < i
      <4>1. k \in 1..Len(s) /\ k \in 1..(i - 1) /\ k <= i - 1
        BY <1>1, <2>2, <3>1
      <4>2. s[k] = a[k] /\ a[k] = list[k]
        BY <1>2, <2>1, <4>1
      <4> QED BY <3>1, <4>2
    <3>2. CASE ~(k < i)
      <4>1. k - (i - 1) \in 1..(n - i) /\ i + (k - (i - 1)) = k + 1
        BY <1>1, <2>2, <3>2
      <4>2. k \in 1..Len(s) /\ ~(k <= i - 1)
        BY <1>1, <2>2, <3>2
      <4>3. s[k] = z[k - (i - 1)] /\ z[k - (i - 1)] = list[k + 1]
        BY <1>3, <2>1, <4>1, <4>2
      <4> QED BY <3>2, <4>3
    <3> QED BY <3>1, <3>2
  <2> QED BY <2>1, <2>2, <2>3
<1> HIDE DEF s
<1>6. DOMAIN s = 1..(n - 1)
  BY <1>5
<1> DEFINE f == [k \in 1..(n - 1) |-> IF k < i THEN k ELSE k + 1]
<1>7. /\ \A k \in DOMAIN s : f[k] \in DOMAIN list /\ s[k] = list[f[k]] /\ f[k] # i
      /\ \A k, m \in DOMAIN s : k < m => f[k] < f[m]
  BY <1>1, <1>5, <1>6 DEF n
<1>8. \A k \in 1..n : k # i => list[k].body # list[i].body
  BY <1>1 DEF Sorted, n
<1> HIDE DEF f
<1>9. Sorted(s) /\ bodies(s) \subseteq bodies(list)
  BY <1>7, PartOfList
<1>10. list[i].body \notin bodies(s)
  BY <1>1, <1>7, <1>8 DEF bodies
<1> QED BY <1>5, <1>9, <1>10 DEF s

LEMMA WithoutIt ==
  ASSUME heard \in Seq(Heard), Sorted(heard), NEW b
  PROVE  /\ without(b) \in Seq(Heard) /\ Sorted(without(b))
         /\ bodies(without(b)) \subseteq bodies(heard) \ {b}
<1>1. CASE knows(b)
  <2> DEFINE i == placeOf(b)
  <2>1. i \in DOMAIN heard /\ heard[i].body = b
    BY <1>1 DEF knows, placeOf
  <2>2. i \in 1..Len(heard)
    BY <2>1
  <2> HIDE DEF i
  <2>3. without(b) = RemoveAt(heard, i)
    BY <1>1 DEF without, i
  <2> QED BY <2>1, <2>2, <2>3, ShorterList
<1>2. CASE ~knows(b)
  BY <1>2 DEF knows, without, bodies
<1> QED BY <1>1, <1>2

LEMMA HeldList ==
  ASSUME heard \in Seq(Heard), Sorted(heard), NEW b \in Bodies
  PROVE  /\ held(newest(b)) \in Seq(Heard) /\ Sorted(held(newest(b)))
         /\ bodies(held(newest(b))) \subseteq bodies(heard) \cup {b}
<1> DEFINE w == without(b)
           e == [body |-> b, age |-> 0]
           m == Append(w, e)
<1>1. w \in Seq(Heard) /\ Sorted(w) /\ bodies(w) \subseteq bodies(heard) \ {b}
  BY WithoutIt
<1>2. e \in Heard /\ e.body = b /\ e.age = 0
  BY Marks DEF Heard
<1> HIDE DEF w, e
<1>3. /\ m \in Seq(Heard) /\ Len(m) = Len(w) + 1 /\ m[Len(w) + 1] = e
      /\ \A k \in 1..Len(w) : m[k] = w[k]
      /\ Len(w) \in Nat /\ DOMAIN m = 1..(Len(w) + 1) /\ DOMAIN w = 1..Len(w)
      /\ \A k \in 1..Len(w) : w[k] \in Heard
  BY <1>1, <1>2
<1>4. m = newest(b)
  BY DEF newest, m, w, e
<1> HIDE DEF m
<1>5. \A k \in 1..Len(w) : w[k].body # b /\ w[k].age \in Nat
  <2>1. \A k \in 1..Len(w) : w[k].body \in bodies(w)
    BY <1>3 DEF bodies
  <2>2. \A k \in 1..Len(w) : w[k].age \in Nat
    BY <1>3, Marks DEF Heard
  <2> QED BY <1>1, <2>1, <2>2
<1>6. Sorted(m)
  BY <1>1, <1>2, <1>3, <1>5 DEF Sorted
<1>7. bodies(m) \subseteq bodies(heard) \cup {b}
  <2> SUFFICES ASSUME NEW k \in 1..(Len(w) + 1) PROVE m[k].body \in bodies(heard) \cup {b}
    BY <1>3 DEF bodies
  <2>1. CASE k = Len(w) + 1
    BY <1>2, <1>3, <2>1
  <2>2. CASE k # Len(w) + 1
    <3>1. k \in DOMAIN w /\ m[k] = w[k]
      BY <1>3, <2>2
    <3>2. w[k].body \in bodies(w)
      BY <3>1 DEF bodies
    <3> QED BY <1>1, <3>1, <3>2
  <2> QED BY <2>1, <2>2
<1>8. CASE Len(m) > ListSize
  <2>1. /\ Tail(m) \in Seq(Heard) /\ DOMAIN Tail(m) = 1..Len(w)
        /\ \A k \in 1..Len(w) : Tail(m)[k] = m[k + 1]
    BY <1>3
  <2> DEFINE f == [k \in 1..Len(w) |-> k + 1]
             t == Tail(m)
  <2>2. /\ \A k \in DOMAIN t : f[k] \in DOMAIN m /\ t[k] = m[f[k]]
        /\ \A k, l \in DOMAIN t : k < l => f[k] < f[l]
    BY <1>3, <2>1
  <2> HIDE DEF f, t
  <2>3. Sorted(t) /\ bodies(t) \subseteq bodies(m)
    BY <1>6, <2>2, PartOfList
  <2> QED BY <1>4, <1>7, <1>8, <2>1, <2>3 DEF held, t
<1>9. CASE ~(Len(m) > ListSize)
  BY <1>3, <1>4, <1>6, <1>7, <1>9 DEF held
<1> QED BY <1>8, <1>9

LEMMA ExpiredDropped ==
  ASSUME NEW list \in Seq(Heard), Sorted(list), NEW n \in DOMAIN list
  PROVE  LET s == SubSeq(list, n + 1, Len(list))
         IN  s \in Seq(Heard) /\ Sorted(s) /\ bodies(s) \subseteq bodies(list)
<1> DEFINE s == SubSeq(list, n + 1, Len(list))
<1>1. Len(list) \in Nat /\ DOMAIN list = 1..Len(list) /\ n \in 1..Len(list)
  OBVIOUS
<1>2. /\ s \in Seq(Heard) /\ Len(s) = Len(list) - n
      /\ \A k \in 1..(Len(list) - n) : s[k] = list[n + k]
  BY <1>1
<1> HIDE DEF s
<1>3. DOMAIN s = 1..(Len(list) - n)
  BY <1>2
<1> DEFINE f == [k \in 1..(Len(list) - n) |-> n + k]
<1>4. /\ \A k \in DOMAIN s : f[k] \in DOMAIN list /\ s[k] = list[f[k]]
      /\ \A k, m \in DOMAIN s : k < m => f[k] < f[m]
  BY <1>1, <1>2, <1>3
<1> HIDE DEF f
<1>5. Sorted(s) /\ bodies(s) \subseteq bodies(list)
  BY <1>4, PartOfList
<1> QED BY <1>2, <1>5 DEF s

LEMMA AgedList ==
  ASSUME NEW list \in Seq(Heard), Sorted(list)
  PROVE  LET s == [i \in DOMAIN list |-> older(list[i])]
         IN  s \in Seq(Heard) /\ Sorted(s) /\ bodies(s) = bodies(list)
<1> DEFINE s == [i \in DOMAIN list |-> older(list[i])]
<1>1. Len(list) \in Nat /\ DOMAIN list = 1..Len(list) /\ \A i \in DOMAIN list : list[i] \in Heard
  OBVIOUS
<1>2. \A i \in DOMAIN list : /\ older(list[i]) \in Heard /\ older(list[i]).body = list[i].body
                             /\ older(list[i]).age = IF list[i].age = Stale THEN Stale
                                                     ELSE list[i].age + 1
  <2> SUFFICES ASSUME NEW e \in Heard
               PROVE  /\ older(e) \in Heard /\ older(e).body = e.body
                      /\ older(e).age = IF e.age = Stale THEN Stale ELSE e.age + 1
    BY <1>1
  <2>1. e.age \in 0..Stale /\ e = [body |-> e.body, age |-> e.age] /\ e.body \in Bodies
    BY DEF Heard
  <2>2. (IF e.age = Stale THEN e.age ELSE e.age + 1) \in 0..Stale
    BY <2>1, Marks
  <2> QED BY <2>1, <2>2 DEF older, Heard
<1>3. s \in Seq(Heard) /\ DOMAIN s = DOMAIN list
  BY <1>1, <1>2, IsASeq
<1>4. \A i \in DOMAIN list : list[i].age \in 0..Stale
  BY <1>1 DEF Heard
<1>5. \A i \in DOMAIN s : s[i].body = list[i].body
                       /\ s[i].age = IF list[i].age = Stale THEN Stale ELSE list[i].age + 1
  BY <1>2
<1> HIDE DEF s
<1>6. Sorted(s)
  BY <1>1, <1>3, <1>4, <1>5, Marks DEF Sorted
<1>7. bodies(s) = bodies(list)
  BY <1>3, <1>5 DEF bodies
<1> QED BY <1>3, <1>6, <1>7 DEF s

\* A packet leaves a group.
LEMMA PacketTaken ==
  ASSUME wire \in [Groups -> Seq(Packet)], NEW g \in Groups, wire[g] # <<>>,
         wire' = [wire EXCEPT ![g] = Tail(@)]
  PROVE  /\ wire' \in [Groups -> Seq(Packet)] /\ OnWire' \subseteq OnWire
         /\ Head(wire[g]) \in Packet /\ Head(wire[g]) \in OnWire
         /\ OnWire \subseteq OnWire' \cup {Head(wire[g])}
<1> DEFINE q == wire[g]
           t == Tail(q)
<1>1. q \in Seq(Packet) /\ q # <<>>
  OBVIOUS
<1>2. /\ t \in Seq(Packet) /\ Head(q) = q[1] /\ Head(q) \in Packet
      /\ Len(q) \in Nat /\ 1 \in DOMAIN q /\ DOMAIN q = 1..Len(q)
      /\ DOMAIN t = 1..(Len(q) - 1) /\ \A k \in 1..(Len(q) - 1) : t[k] = q[k + 1]
  BY <1>1
<1>3. wire' \in [Groups -> Seq(Packet)]
  BY <1>2
<1>4. wire'[g] = t /\ \A h \in Groups \ {g} : wire'[h] = wire[h]
  OBVIOUS
<1> HIDE DEF q, t
<1>5. Range(t) \subseteq Range(q)
  <2>1. \A k \in 1..(Len(q) - 1) : k + 1 \in DOMAIN q
    BY <1>2
  <2> QED BY <1>2, <2>1 DEF Range
<1>6. Range(q) \subseteq Range(t) \cup {Head(q)}
  <2> SUFFICES ASSUME NEW k \in 1..Len(q) PROVE q[k] \in Range(t) \cup {Head(q)}
    BY <1>2 DEF Range
  <2>1. CASE k = 1
    BY <1>2, <2>1
  <2>2. CASE k # 1
    <3>1. k - 1 \in 1..(Len(q) - 1) /\ (k - 1) + 1 = k
      BY <1>2, <2>2
    <3>2. t[k - 1] = q[k] /\ k - 1 \in DOMAIN t
      BY <1>2, <3>1
    <3> QED BY <3>2 DEF Range
  <2> QED BY <2>1, <2>2
<1>7. Head(q) \in Range(q)
  BY <1>2 DEF Range
<1>8. q = wire[g]
  BY DEF q
<1>9. OnWire' \subseteq OnWire
  <2> SUFFICES ASSUME NEW h \in Groups PROVE Range(wire'[h]) \subseteq OnWire
    BY DEF OnWire
  <2> QED BY <1>4, <1>5, <1>8 DEF OnWire
<1>10. OnWire \subseteq OnWire' \cup {Head(q)}
  <2> SUFFICES ASSUME NEW h \in Groups PROVE Range(wire[h]) \subseteq OnWire' \cup {Head(q)}
    BY DEF OnWire
  <2> QED BY <1>4, <1>6, <1>8 DEF OnWire
<1>11. Head(q) \in OnWire
  BY <1>7, <1>8 DEF OnWire
<1> QED BY <1>2, <1>3, <1>8, <1>9, <1>10, <1>11

\* Both groups carry what is sent.
LEMMA PacketsSent ==
  ASSUME wire \in [Groups -> Seq(Packet)], quiet, NEW ps \in Seq(Packet), send(ps)
  PROVE  wire' \in [Groups -> Seq(Packet)] /\ OnWire' = Range(ps) /\ OnWire = {}
<1>1. \A g \in Groups : wire[g] = <<>>
  BY DEF quiet
<1>2. wire' = [g \in Groups |-> ps]
  <2>1. \A g \in Groups : wire[g] \o ps = ps
    BY <1>1, ConcatEmptySeq
  <2> QED BY <2>1 DEF send
<1>3. Groups # {}
  BY DEF Groups
<1>4. OnWire' = Range(ps)
  BY <1>2, <1>3 DEF OnWire
<1>5. OnWire = {}
  BY <1>1 DEF OnWire, Range
<1> QED BY <1>2, <1>4, <1>5

LEMMA QuietIsEmpty == quiet => OnWire = {}
BY DEF quiet, OnWire, Range

\* A deletion for each of a finite set.
LEMMA DeletionsOf ==
  ASSUME NEW S \in SUBSET Bodies, IsFiniteSet(S)
  PROVE  deletions(S) \in Seq(Packet) /\ Range(deletions(S)) = {Delete(b) : b \in S}
<1> DEFINE n == Cardinality(S)
<1>1. n \in Nat /\ ExistsBijection(1..n, S)
  BY FS_CardinalityType
<1> HIDE DEF n
<1>2. \E f \in [1..n -> S] : IsInjective(f)
  BY <1>1 DEF ExistsBijection, Bijection, Injection
<1> DEFINE q == SetToSeq(S)
<1>3. q \in [1..n -> S] /\ IsInjective(q)
  BY <1>2 DEF SetToSeq, n
<1> HIDE DEF q
<1>4. q \in Injection(1..n, S)
  BY <1>3 DEF Injection
<1>5. IsFiniteSet(1..n) /\ Cardinality(1..n) = n
  BY <1>1, FS_Interval
<1>6. q \in Surjection(1..n, S)
  BY <1>4, <1>5, FS_Injection DEF n
<1>7. deletions(S) = [i \in 1..n |-> Delete(q[i])]
  BY DEF deletions, n, q
<1>8. \A i \in 1..n : Delete(q[i]) \in Packet
  BY <1>3, PacketsAre
<1>9. deletions(S) \in Seq(Packet)
  BY <1>1, <1>7, <1>8, IsASeq
<1>10. \A b \in S : \E i \in 1..n : q[i] = b
  BY <1>6 DEF Surjection
<1>11. Range(deletions(S)) = {Delete(q[i]) : i \in 1..n}
  BY <1>7 DEF Range
<1> QED BY <1>3, <1>9, <1>10, <1>11

LEMMA DeletionsThen ==
  ASSUME NEW S \in SUBSET Bodies, IsFiniteSet(S), NEW b \in Bodies
  PROVE  LET ps == deletions(S) \o <<Announce(b)>>
         IN  ps \in Seq(Packet) /\ Range(ps) = {Delete(c) : c \in S} \cup {Announce(b)}
<1>1. deletions(S) \in Seq(Packet) /\ Range(deletions(S)) = {Delete(c) : c \in S}
  BY DeletionsOf
<1>2. <<Announce(b)>> \in Seq(Packet) /\ Range(<<Announce(b)>>) = {Announce(b)}
  BY PacketsAre DEF Range
<1> DEFINE ps == deletions(S) \o <<Announce(b)>>
<1>3. ps \in Seq(Packet) /\ Range(ps) = Range(deletions(S)) \cup Range(<<Announce(b)>>)
  BY <1>1, <1>2, RangeConcatenation, ConcatProperties
<1> QED BY <1>1, <1>2, <1>3

\* The directory.
LEMMA Offered ==
  ASSUME NEW d \in Seq(Entry), Len(d) <= 1, NEW b \in Bodies, NEW s \in {"sap", "rtsp"}
  PROVE  LET o == offer(d, b, s)
         IN  /\ o \in Seq(Entry) /\ Len(o) = 1 /\ o # None
             /\ o[1].body = b /\ o[1].age = 0
<1>1. PICK S \in SUBSET {"sap", "rtsp"} :
         offer(d, b, s) = <<[body |-> b, age |-> 0, sources |-> S]>>
  <2>1. CASE d = None
    BY <2>1 DEF offer
  <2>2. CASE d # None
    <3>1. d[1] \in Entry
      BY <2>2 DEF None
    <3> QED BY <2>2, <3>1 DEF offer, Entry
  <2> QED BY <2>1, <2>2
<1>2. [body |-> b, age |-> 0, sources |-> S] \in Entry
  BY Marks DEF Entry
<1> QED BY <1>1, <1>2 DEF None

LEMMA EntryIsOne ==
  ASSUME NEW E, NEW d \in Seq(E), Len(d) <= 1, d # None
  PROVE  d[1] \in E /\ DOMAIN d = {1} /\ Len(d) = 1
<1>1. PICK n \in Nat : Len(d) = n
  OBVIOUS
<1>2. Len(d) = 1
  <2>1. n # 0
    BY <1>1, EmptySeq DEF None
  <2> QED BY <1>1, <2>1
<1> QED BY <1>2

LEMMA AgedDirectory ==
  ASSUME NEW d \in Seq(Entry), Len(d) <= 1
  PROVE  LET o == [i \in DOMAIN d |-> older(d[i])]
         IN  /\ o \in Seq(Entry) /\ Len(o) <= 1 /\ (o # None <=> d # None)
             /\ d # None => /\ o[1].body = d[1].body
                            /\ o[1].age = IF d[1].age = Stale THEN Stale ELSE d[1].age + 1
<1> DEFINE o == [i \in DOMAIN d |-> older(d[i])]
<1>1. ASSUME NEW e \in Entry
      PROVE  /\ older(e) \in Entry /\ older(e).body = e.body
             /\ older(e).age = IF e.age = Stale THEN Stale ELSE e.age + 1
  <2>1. /\ e.age \in 0..Stale /\ e = [body |-> e.body, age |-> e.age, sources |-> e.sources]
        /\ e.body \in Bodies /\ e.sources \in SUBSET {"sap", "rtsp"}
    BY DEF Entry
  <2>2. (IF e.age = Stale THEN e.age ELSE e.age + 1) \in 0..Stale
    BY <2>1, Marks
  <2> QED BY <2>1, <2>2 DEF older, Entry
<1>2. Len(d) \in Nat /\ DOMAIN d = 1..Len(d) /\ \A i \in DOMAIN d : d[i] \in Entry
  OBVIOUS
<1>3. o \in Seq(Entry) /\ Len(o) = Len(d)
  BY <1>1, <1>2, IsASeq
<1>4. o # None <=> d # None
  <2> HIDE DEF o
  <2> QED BY <1>3, EmptySeq DEF None
<1>5. d # None => o[1] = older(d[1]) /\ d[1] \in Entry
  BY EntryIsOne
<1> HIDE DEF o
<1> QED BY <1>1, <1>3, <1>4, <1>5 DEF o

LEMMA AgedService ==
  ASSUME NEW s \in Seq(Service), Len(s) <= 1
  PROVE  LET o == [i \in DOMAIN s |->
                     [s[i] EXCEPT !.age = IF @ > ServiceTimeout THEN @ ELSE @ + 1]]
         IN  /\ o \in Seq(Service) /\ Len(o) <= 1 /\ (o # None <=> s # None)
             /\ s # None => o[1].resolved = s[1].resolved
<1> DEFINE nxt(e) == [e EXCEPT !.age = IF @ > ServiceTimeout THEN @ ELSE @ + 1]
           o == [i \in DOMAIN s |-> nxt(s[i])]
<1>1. ASSUME NEW e \in Service
      PROVE  nxt(e) \in Service /\ nxt(e).resolved = e.resolved
  <2>1. /\ e.age \in 0..(ServiceTimeout + 1) /\ e = [resolved |-> e.resolved, age |-> e.age]
        /\ e.resolved \in BOOLEAN
    BY DEF Service
  <2>2. (IF e.age > ServiceTimeout THEN e.age ELSE e.age + 1) \in 0..(ServiceTimeout + 1)
    BY <2>1, Marks
  <2> QED BY <2>1, <2>2 DEF Service
<1>2. Len(s) \in Nat /\ DOMAIN s = 1..Len(s) /\ \A i \in DOMAIN s : s[i] \in Service
  OBVIOUS
<1>3. o \in Seq(Service) /\ Len(o) = Len(s)
  <2> HIDE DEF nxt
  <2> QED BY <1>1, <1>2, IsASeq
<1>4. o # None <=> s # None
  <2> HIDE DEF o
  <2> QED BY <1>3, EmptySeq DEF None
<1>5. s # None => o[1] = nxt(s[1]) /\ s[1] \in Service
  BY EntryIsOne
<1> HIDE DEF nxt
<1>6. s # None => o[1].resolved = s[1].resolved
  BY <1>1, <1>5
<1> QED BY <1>3, <1>4, <1>6 DEF nxt

LEMMA WireKept == wire' = wire => OnWire' = OnWire
BY DEF OnWire

LEMMA OneMore ==
  \A m, n \in Nat : n >= m => m + 1 \in Nat /\ n + 1 \in Nat /\ n + 1 >= m + 1
OBVIOUS

\* What is in time stays so when the question, or another fault, is still to come.
LEMMA LaterIsMore ==
  ASSUME DiscoveryTyped, DiscoveryTyped', AskedInTime, faults' >= faults,
         UNCHANGED <<remote, directory, service, queue, worker, refreshed, phase, steady>>
  PROVE  AskedInTime'
<1> SUFFICES ASSUME phase = "run", remote.src # 0, again(service), faults < SessionTimeout
             PROVE  \/ steady <= Rounds'
                    \/ /\ directory # None /\ directory[1].body = remote.src
                       /\ directory[1].age <= Rounds'
  BY Marks DEF AskedInTime, again, DiscoveryTyped
<1>1. Rounds \in Nat /\ Rounds' \in Nat /\ Rounds' >= Rounds
  <2>1. Asked' <=> Asked
    BY DEF Asked
  <2>2. faults \in Nat /\ faults' \in Nat
    BY DEF DiscoveryTyped
  <2>3. CASE Asked
    <3>1. Rounds = faults /\ Rounds' = faults' /\ faults' >= faults
      BY <2>1, <2>3 DEF Rounds
    <3> QED BY <2>2, <3>1
  <2>4. CASE ~Asked
    <3>1. Rounds = faults + 1 /\ Rounds' = faults' + 1 /\ faults' >= faults
      BY <2>1, <2>4 DEF Rounds
    <3>2. faults + 1 \in Nat /\ faults' + 1 \in Nat /\ faults' + 1 >= faults + 1
      BY <2>2, <3>1, OneMore
    <3> QED BY <3>1, <3>2
  <2> QED BY <2>3, <2>4
<1>2. directory # None => directory[1].age \in Nat
  <2>1. directory # None => directory[1] \in Entry
    BY EntryIsOne DEF DiscoveryTyped
  <2> QED BY <2>1, Marks DEF Entry
<1>3. \/ steady <= Rounds
      \/ directory # None /\ directory[1].body = remote.src /\ directory[1].age <= Rounds
  BY DEF AskedInTime
<1> QED BY <1>1, <1>2, <1>3 DEF DiscoveryTyped

-----------------------------------------------------------------------------
(* One step each *)

LEMMA EditKeeps ==
  ASSUME DiscoveryInv, NEW b \in Bodies \cup {0}, edit(b)
  PROVE  DiscoveryInv'
<1>1. /\ DiscoveryTyped /\ steady' = 0 /\ OnWire' = OnWire
      /\ UNCHANGED <<joined, heard, listener, directory, service, queue, worker, refreshed,
                     phase, faults, wire>>
      /\ remote'.src = b /\ remote'.announced = remote.announced
      /\ remote'.orderly = remote.orderly /\ goneFor' = IF b = 0 THEN 0 ELSE goneFor
  BY WireKept DEF DiscoveryInv, edit, Changed, sap, rtsp, DiscoveryTyped
<1>2. DiscoveryTyped'
  <2>1. remote' \in [src : Bodies \cup {0}, announced : SUBSET Bodies,
                     said : BOOLEAN, orderly : BOOLEAN]
    BY <1>1 DEF edit, DiscoveryTyped
  <2>2. goneFor' \in 0..(Stale + 1)
    BY <1>1, Marks DEF DiscoveryTyped
  <2> QED BY <1>1, <2>1, <2>2 DEF DiscoveryTyped
<1>3. EndedInTurn' /\ Sorted(heard') /\ Withdrawn'
  BY <1>1 DEF DiscoveryInv, EndedInTurn, Withdrawn
<1>4. SteadyWay' /\ GoneWay'
  BY <1>1, <1>2 DEF DiscoveryInv, SteadyWay, GoneWay
<1>5. AgedSince'
  <2> SUFFICES ASSUME remote'.src = 0, directory # None
               PROVE  directory[1].age >= goneFor'
    BY <1>1 DEF AgedSince
  <2>1. directory[1] \in Entry /\ goneFor' = 0
    BY <1>1, EntryIsOne DEF DiscoveryTyped
  <2> QED BY <2>1, Marks DEF Entry
<1>6. AskedInTime'
  BY <1>1 DEF AskedInTime, Rounds, DiscoveryTyped
<1> QED BY <1>2, <1>3, <1>4, <1>5, <1>6 DEF DiscoveryInv

\* An announcing round sends the deletions and what there is.
LEMMA RoundSent ==
  ASSUME DiscoveryTyped, refreshAndAnnounce
  PROVE  /\ wire' \in [Groups -> Seq(Packet)] /\ OnWire = {}
         /\ OnWire' = {Delete(b) : b \in remote.announced \ {remote.src}}
                        \cup (IF remote.src = 0 THEN {} ELSE {Announce(remote.src)})
<1> DEFINE S == remote.announced \ ({remote.src} \ {0})
           D == deletions(S)
<1>1. S \in SUBSET Bodies /\ IsFiniteSet(S) /\ wire \in [Groups -> Seq(Packet)] /\ quiet
  BY FS_Subset DEF DiscoveryTyped, refreshAndAnnounce
<1>2. S = remote.announced \ {remote.src}
  BY Marks DEF DiscoveryTyped
<1>3. send(D \o (IF remote.src = 0 THEN <<>> ELSE <<Announce(remote.src)>>))
  BY DEF refreshAndAnnounce, withdrawn
<1> HIDE DEF S
<1>4. D \in Seq(Packet) /\ Range(D) = {Delete(b) : b \in S}
  BY <1>1, DeletionsOf
<1>5. CASE remote.src = 0
  <2>1. D \o <<>> = D
    BY <1>4, ConcatEmptySeq
  <2>2. send(D)
    BY <1>3, <1>5, <2>1
  <2> HIDE DEF D
  <2> QED BY <1>1, <1>2, <1>4, <1>5, <2>2, PacketsSent
<1>6. CASE remote.src # 0
  <2> DEFINE ps == D \o <<Announce(remote.src)>>
  <2>1. remote.src \in Bodies
    BY <1>6 DEF DiscoveryTyped
  <2>2. ps \in Seq(Packet) /\ Range(ps) = {Delete(b) : b \in S} \cup {Announce(remote.src)}
    BY <1>1, <2>1, DeletionsThen
  <2>3. send(ps)
    BY <1>3, <1>6
  <2> HIDE DEF ps
  <2> QED BY <1>1, <1>2, <1>6, <2>2, <2>3, PacketsSent
<1> QED BY <1>5, <1>6

LEMMA RoundKeeps ==
  ASSUME DiscoveryInv, refreshAndAnnounce
  PROVE  DiscoveryInv'
<1>1. /\ DiscoveryTyped
      /\ UNCHANGED <<joined, heard, listener, directory, service, queue, worker, refreshed,
                     phase, faults, steady, goneFor>>
      /\ remote'.src = remote.src /\ remote'.announced = {remote.src} \ {0}
      /\ remote'.orderly = remote.orderly
      /\ remote.src \in Bodies \cup {0} /\ remote.announced \subseteq Bodies
  BY DEF DiscoveryInv, refreshAndAnnounce, sap, rtsp, history, bounds, DiscoveryTyped
<1>2. /\ wire' \in [Groups -> Seq(Packet)] /\ OnWire = {}
      /\ OnWire' = {Delete(b) : b \in remote.announced \ {remote.src}}
                     \cup (IF remote.src = 0 THEN {} ELSE {Announce(remote.src)})
  BY <1>1, RoundSent
<1>3. DiscoveryTyped'
  <2>1. IsFiniteSet({remote.src} \ {0})
    BY FS_Singleton, FS_Subset
  <2>2. remote' \in [src : Bodies \cup {0}, announced : SUBSET Bodies,
                     said : BOOLEAN, orderly : BOOLEAN]
    BY <1>1 DEF refreshAndAnnounce, DiscoveryTyped
  <2> QED BY <1>1, <1>2, <2>1, <2>2 DEF DiscoveryTyped
<1>4. EndedInTurn' /\ Sorted(heard') /\ AgedSince' /\ AskedInTime'
  BY <1>1 DEF DiscoveryInv, EndedInTurn, AgedSince, AskedInTime, Rounds, Asked
<1>5. \A p \in OnWire' : /\ ~p.deletion => p.payload = remote.src /\ remote.src # 0
                         /\ p.deletion <=> p.msgIdHash \notin remote'.announced
  BY <1>1, <1>2, Marks, PacketsAre
<1>6. SteadyWay' /\ GoneWay'
  BY <1>1, <1>5 DEF DiscoveryInv, SteadyWay, GoneWay, OnlyOf
<1>7. Withdrawn'
  <2> SUFFICES ASSUME remote.orderly, faults = 0
               PROVE  /\ joined
                      /\ \A b \in bodies(heard) : b \in remote'.announced \/ Delete(b) \in OnWire'
    BY <1>1, <1>5 DEF Withdrawn
  <2>1. joined /\ \A b \in bodies(heard) : b \in remote.announced
    BY <1>2 DEF DiscoveryInv, Withdrawn
  <2> QED BY <1>1, <1>2, <2>1, Marks
<1> QED BY <1>3, <1>4, <1>6, <1>7 DEF DiscoveryInv

LEMMA StopKeeps ==
  ASSUME DiscoveryInv, announcerStop
  PROVE  DiscoveryInv'
<1>1. /\ DiscoveryTyped /\ steady' = 0 /\ goneFor' = 0
      /\ UNCHANGED <<joined, heard, listener, directory, service, queue, worker, refreshed,
                     phase, faults>>
      /\ remote'.src = 0 /\ remote'.announced = {} /\ remote'.orderly = remote.orderly
      /\ remote.announced \in SUBSET Bodies /\ IsFiniteSet(remote.announced) /\ quiet
      /\ wire \in [Groups -> Seq(Packet)]
  BY DEF DiscoveryInv, announcerStop, Changed, sap, rtsp, DiscoveryTyped
<1>2. /\ wire' \in [Groups -> Seq(Packet)] /\ OnWire = {}
      /\ OnWire' = {Delete(b) : b \in remote.announced}
  <2> DEFINE D == deletions(remote.announced)
  <2>1. send(D)
    BY DEF announcerStop, withdrawn
  <2>2. D \in Seq(Packet) /\ Range(D) = {Delete(b) : b \in remote.announced}
    BY <1>1, DeletionsOf
  <2> HIDE DEF D
  <2> QED BY <1>1, <2>1, <2>2, PacketsSent
<1>3. DiscoveryTyped'
  <2>1. IsFiniteSet({})
    BY FS_EmptySet
  <2>2. remote' \in [src : Bodies \cup {0}, announced : SUBSET Bodies,
                     said : BOOLEAN, orderly : BOOLEAN]
    BY <1>1 DEF announcerStop, DiscoveryTyped
  <2> QED BY <1>1, <1>2, <2>1, <2>2, Marks DEF DiscoveryTyped
<1>4. EndedInTurn' /\ Sorted(heard') /\ AskedInTime' /\ SteadyWay' /\ GoneWay'
  BY <1>1 DEF DiscoveryInv, EndedInTurn, AskedInTime, SteadyWay, GoneWay
<1>5. AgedSince'
  <2> SUFFICES ASSUME directory # None PROVE directory[1].age >= 0
    BY <1>1 DEF AgedSince
  <2>1. directory[1] \in Entry
    BY <1>1, EntryIsOne DEF DiscoveryTyped
  <2> QED BY <2>1, Marks DEF Entry
<1>6. Withdrawn'
  <2> SUFFICES ASSUME remote.orderly, faults = 0
               PROVE  /\ joined /\ \A p \in OnWire' : p.deletion
                      /\ \A b \in bodies(heard) : Delete(b) \in OnWire'
    BY <1>1 DEF Withdrawn
  <2>1. joined /\ \A b \in bodies(heard) : b \in remote.announced
    BY <1>2 DEF DiscoveryInv, Withdrawn
  <2> QED BY <1>1, <1>2, <2>1, PacketsAre
<1> QED BY <1>3, <1>4, <1>5, <1>6 DEF DiscoveryInv

LEMMA CrashKeeps ==
  ASSUME DiscoveryInv, crash
  PROVE  DiscoveryInv'
<1>1. /\ DiscoveryTyped /\ steady' = 0 /\ goneFor' = 0
      /\ UNCHANGED <<wire, joined, heard, listener, directory, service, queue, worker,
                     refreshed, phase, faults>>
      /\ remote' = [src |-> 0, announced |-> {}, said |-> remote.said, orderly |-> FALSE]
  BY DEF DiscoveryInv, crash, Changed, Idle, sap, rtsp, DiscoveryTyped
<1>2. DiscoveryTyped'
  <2>1. IsFiniteSet({})
    BY FS_EmptySet
  <2> QED BY <1>1, <2>1, Marks DEF DiscoveryTyped
<1>3. EndedInTurn' /\ Sorted(heard') /\ AskedInTime' /\ SteadyWay' /\ GoneWay' /\ Withdrawn'
  BY <1>1 DEF DiscoveryInv, EndedInTurn, AskedInTime, SteadyWay, GoneWay, Withdrawn
<1>4. AgedSince'
  <2> SUFFICES ASSUME directory # None PROVE directory[1].age >= 0
    BY <1>1 DEF AgedSince
  <2>1. directory[1] \in Entry
    BY <1>1, EntryIsOne DEF DiscoveryTyped
  <2> QED BY <2>1, Marks DEF Entry
<1> QED BY <1>2, <1>3, <1>4 DEF DiscoveryInv

\* A packet that nobody here hears.
LEMMA LostKeeps ==
  ASSUME DiscoveryInv, NEW g \in Groups, lose(g) \/ missed(g)
  PROVE  DiscoveryInv'
<1>1. /\ DiscoveryTyped /\ wire[g] # <<>> /\ wire' = [wire EXCEPT ![g] = Tail(@)]
      /\ UNCHANGED <<remote, joined, heard, listener, directory, service, queue, worker,
                     refreshed, phase, steady, goneFor>>
      /\ faults' = faults + 1 \/ (faults' = faults /\ ~joined)
      /\ faults \in Nat
  BY DEF DiscoveryInv, lose, missed, sap, rtsp, history, bounds, DiscoveryTyped
<1>2. wire' \in [Groups -> Seq(Packet)] /\ OnWire' \subseteq OnWire
  BY <1>1, PacketTaken DEF DiscoveryTyped
<1>3. DiscoveryTyped'
  BY <1>1, <1>2 DEF DiscoveryTyped
<1>4. EndedInTurn' /\ Sorted(heard') /\ AgedSince'
  BY <1>1 DEF DiscoveryInv, EndedInTurn, AgedSince
<1>5. SteadyWay' /\ GoneWay'
  BY <1>1, <1>2 DEF DiscoveryInv, SteadyWay, GoneWay, OnlyOf
<1>6. Withdrawn'
  BY <1>1 DEF DiscoveryInv, Withdrawn
<1>7. AskedInTime'
  <2>1. AskedInTime /\ faults' >= faults
    BY <1>1 DEF DiscoveryInv
  <2> QED BY <1>1, <1>3, <2>1, LaterIsMore
<1> QED BY <1>3, <1>4, <1>5, <1>6, <1>7 DEF DiscoveryInv

LEMMA FlapKeeps ==
  ASSUME DiscoveryInv, flap
  PROVE  DiscoveryInv'
<1>1. /\ DiscoveryTyped
      /\ UNCHANGED <<remote, wire, heard, listener, directory, service, queue, worker,
                     refreshed, phase, steady, goneFor>>
      /\ faults' = faults + 1 /\ OnWire' = OnWire /\ faults \in Nat
  BY WireKept DEF DiscoveryInv, flap, sap, rtsp, history, DiscoveryTyped
<1>2. DiscoveryTyped'
  BY <1>1 DEF DiscoveryTyped
<1>3. EndedInTurn' /\ Sorted(heard') /\ AgedSince' /\ SteadyWay' /\ GoneWay'
  BY <1>1 DEF DiscoveryInv, EndedInTurn, AgedSince, SteadyWay, GoneWay, OnlyOf
<1>4. Withdrawn'
  BY <1>1 DEF Withdrawn
<1>5. AskedInTime'
  <2>1. AskedInTime /\ faults' >= faults
    BY <1>1 DEF DiscoveryInv
  <2> QED BY <1>1, <1>2, <2>1, LaterIsMore
<1> QED BY <1>2, <1>3, <1>4, <1>5 DEF DiscoveryInv

LEMMA EntryAge == DiscoveryTyped /\ directory # None => directory[1].age \in 0..Stale
<1>1. DiscoveryTyped /\ directory # None => directory[1] \in Entry
  BY EntryIsOne DEF DiscoveryTyped
<1> QED BY <1>1 DEF Entry

LEMMA EnqueuedIsOne ==
  ASSUME NEW q \in Seq({"service"})
  PROVE  enqueue(q) \in Seq({"service"}) /\ enqueue(q) # <<>>
<1>1. <<"service">> \in Seq({"service"}) /\ <<"service">> # <<>>
  OBVIOUS
<1>2. CASE q = <<>>
  BY <1>1, <1>2 DEF enqueue
<1>3. CASE q # <<>>
  BY <1>3 DEF enqueue
<1> QED BY <1>2, <1>3

LEMMA BrowseKeeps ==
  ASSUME DiscoveryInv, NEW resolved \in BOOLEAN, browseAdd(resolved)
  PROVE  DiscoveryInv'
<1>1. /\ DiscoveryTyped /\ OnWire' = OnWire
      /\ UNCHANGED <<remote, wire, joined, heard, listener, directory, worker, refreshed,
                     phase, goneFor, faults>>
      /\ service' = <<[resolved |-> resolved, age |-> 0]>>
      /\ queue' = IF resolved THEN enqueue(queue) ELSE queue
      /\ steady' = IF again(service) /\ resolved THEN steady ELSE 0
  BY WireKept DEF DiscoveryInv, browseAdd, again, sap, DiscoveryTyped
<1>2. [resolved |-> resolved, age |-> 0] \in Service
  BY Marks DEF Service
<1>3. service' \in Seq(Service) /\ Len(service') = 1 /\ again(service') = resolved
  BY <1>1, <1>2 DEF again, None
<1>4. queue' \in Seq({"service"}) /\ (resolved => queue' # <<>>)
  BY <1>1, EnqueuedIsOne DEF DiscoveryTyped
<1>5. DiscoveryTyped'
  BY <1>1, <1>3, <1>4 DEF DiscoveryTyped
<1>6. EndedInTurn' /\ Sorted(heard') /\ AgedSince' /\ GoneWay' /\ Withdrawn'
  BY <1>1 DEF DiscoveryInv, EndedInTurn, AgedSince, GoneWay, Withdrawn, OnlyOf
<1>7. SteadyWay'
  BY <1>1 DEF DiscoveryInv, SteadyWay, OnlyOf, DiscoveryTyped
<1>8. AskedInTime'
  <2> SUFFICES ASSUME phase = "run", remote.src # 0, resolved, faults < SessionTimeout
               PROVE  \/ steady' <= Rounds'
                      \/ /\ directory # None /\ directory[1].body = remote.src
                         /\ directory[1].age <= Rounds'
    BY <1>1, <1>3 DEF AskedInTime
  <2>1. Rounds' = faults + 1 /\ faults \in Nat
    BY <1>1, <1>4 DEF Rounds, Asked, DiscoveryTyped
  <2>2. CASE ~again(service)
    BY <1>1, <2>1, <2>2
  <2>3. CASE again(service)
    <3>1. Rounds \in {faults, faults + 1}
      BY DEF Rounds
    <3>2. directory # None => directory[1].age \in Nat
      BY <1>1, EntryAge, Marks
    <3>3. \/ steady <= Rounds
          \/ directory # None /\ directory[1].body = remote.src /\ directory[1].age <= Rounds
      BY <2>3 DEF DiscoveryInv, AskedInTime
    <3>4. steady' = steady /\ steady \in Nat
      BY <1>1, <2>3 DEF DiscoveryTyped
    <3> QED BY <2>1, <3>1, <3>2, <3>3, <3>4
  <2> QED BY <2>2, <2>3
<1> QED BY <1>5, <1>6, <1>7, <1>8 DEF DiscoveryInv

LEMMA GoodbyeKeeps ==
  ASSUME DiscoveryInv, browseRemove
  PROVE  DiscoveryInv'
<1>1. /\ DiscoveryTyped /\ OnWire' = OnWire /\ remote.src = 0
      /\ UNCHANGED <<remote, wire, joined, heard, listener, directory, queue, worker,
                     refreshed, phase, goneFor, faults>>
      /\ service' = <<>> /\ steady' = 0
  BY WireKept DEF DiscoveryInv, browseRemove, sap, bounds, None
<1>2. DiscoveryTyped'
  BY <1>1 DEF DiscoveryTyped
<1>3. EndedInTurn' /\ Sorted(heard') /\ AgedSince' /\ GoneWay' /\ Withdrawn'
  BY <1>1 DEF DiscoveryInv, EndedInTurn, AgedSince, GoneWay, Withdrawn, OnlyOf
<1>4. SteadyWay' /\ AskedInTime'
  BY <1>1 DEF SteadyWay, AskedInTime
<1> QED BY <1>2, <1>3, <1>4 DEF DiscoveryInv

LEMMA ReceiveKeeps ==
  ASSUME DiscoveryInv, NEW g \in Groups, receive(g)
  PROVE  DiscoveryInv'
<1> DEFINE p == Head(wire[g])
           b == p.msgIdHash
<1>1. /\ DiscoveryTyped /\ wire[g] # <<>> /\ wire' = [wire EXCEPT ![g] = Tail(@)]
      /\ UNCHANGED <<remote, joined, directory, service, queue, worker, refreshed, phase,
                     steady, goneFor, faults>>
      /\ phase # "deleted" /\ Sorted(heard) /\ heard \in Seq(Heard)
  BY DEF DiscoveryInv, receive, rtsp, history, bounds, DiscoveryTyped
<1>2. /\ wire' \in [Groups -> Seq(Packet)] /\ OnWire' \subseteq OnWire
      /\ p \in Packet /\ p \in OnWire /\ OnWire \subseteq OnWire' \cup {p}
  BY <1>1, PacketTaken DEF DiscoveryTyped
<1>3. /\ heard' = IF p.deletion THEN without(b) ELSE held(newest(b))
      /\ listener' = Waiting \/ (~p.deletion /\ listener' = p.payload)
  BY DEF receive, parseAnnouncement
<1> HIDE DEF p
<1>4. b \in Bodies /\ p.payload \in Bodies /\ p.deletion \in BOOLEAN
  BY <1>2 DEF Packet
<1> HIDE DEF b
<1>5. /\ heard' \in Seq(Heard) /\ Sorted(heard')
      /\ p.deletion => bodies(heard') \subseteq bodies(heard) \ {b}
      /\ ~p.deletion => bodies(heard') \subseteq bodies(heard) \cup {b}
  <2>1. CASE p.deletion
    BY <1>1, <1>3, <1>4, <2>1, WithoutIt
  <2>2. CASE ~p.deletion
    BY <1>1, <1>3, <1>4, <2>2, HeldList
  <2> QED BY <2>1, <2>2
<1>6. DiscoveryTyped'
  BY <1>1, <1>2, <1>3, <1>4, <1>5 DEF DiscoveryTyped
<1>7. EndedInTurn' /\ AgedSince'
  BY <1>1 DEF DiscoveryInv, EndedInTurn, AgedSince
<1>8. SteadyWay' /\ GoneWay'
  <2>1. ASSUME NEW c, OnlyOf(c) PROVE OnlyOf(c)'
    BY <1>1, <1>2, <1>3, <2>1, Marks DEF OnlyOf
  <2> QED BY <1>1, <2>1 DEF DiscoveryInv, SteadyWay, GoneWay
<1>9. Withdrawn'
  <2> SUFFICES ASSUME remote.orderly, faults = 0
               PROVE  /\ joined
                      /\ \A q \in OnWire' : q.deletion <=> q.msgIdHash \notin remote.announced
                      /\ \A c \in bodies(heard') : \/ c \in remote.announced
                                                   \/ Delete(c) \in OnWire'
    BY <1>1 DEF Withdrawn
  <2>1. /\ joined /\ \A q \in OnWire : q.deletion <=> q.msgIdHash \notin remote.announced
        /\ \A c \in bodies(heard) : c \in remote.announced \/ Delete(c) \in OnWire
    BY DEF DiscoveryInv, Withdrawn
  <2>2. ASSUME NEW c \in bodies(heard'), c \notin remote.announced
        PROVE  Delete(c) \in OnWire'
    <3>1. CASE p.deletion
      <4>1. c \in bodies(heard) /\ c # b
        BY <1>5, <2>2, <3>1
      <4>2. Delete(c) \in OnWire
        BY <2>1, <2>2, <4>1
      <4>3. Delete(c) # p
        BY <4>1 DEF b, Delete
      <4> QED BY <1>2, <4>2, <4>3
    <3>2. CASE ~p.deletion
      <4>1. b \in remote.announced
        BY <1>2, <2>1, <3>2 DEF b
      <4>2. c \in bodies(heard)
        BY <1>5, <2>2, <3>2, <4>1
      <4>3. Delete(c) \in OnWire
        BY <2>1, <2>2, <4>2
      <4>4. Delete(c) # p
        BY <3>2 DEF Delete
      <4> QED BY <1>2, <4>3, <4>4
    <3> QED BY <3>1, <3>2
  <2> QED BY <1>2, <2>1, <2>2
<1>10. AskedInTime'
  <2>1. AskedInTime /\ faults' >= faults
    BY <1>1 DEF DiscoveryInv, DiscoveryTyped
  <2> QED BY <1>1, <1>6, <2>1, LaterIsMore
<1> QED BY <1>5, <1>6, <1>7, <1>8, <1>9, <1>10 DEF DiscoveryInv

LEMMA RejoinKeeps ==
  ASSUME DiscoveryInv, rejoin
  PROVE  DiscoveryInv'
<1>1. /\ UNCHANGED <<remote, wire, heard, listener, directory, service, queue, worker,
                     refreshed, phase, steady, goneFor, faults>>
      /\ joined' = TRUE /\ OnWire' = OnWire
  BY WireKept DEF rejoin, maybeRejoin, sap, rtsp, history, bounds
<1> QED BY <1>1
        DEF DiscoveryInv, DiscoveryTyped, EndedInTurn, Withdrawn, SteadyWay, GoneWay,
                    OnlyOf, AgedSince, AskedInTime, Rounds, Asked

LEMMA ExpireKeeps ==
  ASSUME DiscoveryInv, getDiscoveredStreams
  PROVE  DiscoveryInv'
<1>1. /\ DiscoveryTyped /\ Sorted(heard) /\ heard \in Seq(Heard)
      /\ UNCHANGED <<remote, wire, joined, listener, directory, service, queue, worker,
                     refreshed, phase, steady, goneFor, faults>>
      /\ OnWire' = OnWire
  BY WireKept
  DEF DiscoveryInv, DiscoveryTyped, getDiscoveredStreams, sap, rtsp, history, bounds
<1>2. PICK n \in DOMAIN heard : heard' = SubSeq(heard, n + 1, Len(heard))
  BY DEF getDiscoveredStreams
<1>3. heard' \in Seq(Heard) /\ Sorted(heard') /\ bodies(heard') \subseteq bodies(heard)
  BY <1>1, <1>2, ExpiredDropped
<1>4. DiscoveryTyped'
  BY <1>1, <1>3 DEF DiscoveryTyped
<1>5. Withdrawn'
  BY <1>1, <1>3 DEF DiscoveryInv, Withdrawn
<1> QED BY <1>1, <1>3, <1>4, <1>5 DEF DiscoveryInv, EndedInTurn, SteadyWay, GoneWay,
                    OnlyOf, AgedSince, AskedInTime, Rounds, Asked

LEMMA ReadKeeps ==
  ASSUME DiscoveryInv, readSessions
  PROVE  DiscoveryInv'
<1>1. /\ DiscoveryTyped /\ OnWire' = OnWire
      /\ UNCHANGED <<remote, wire, joined, heard, listener, service, queue, worker,
                     refreshed, phase, steady, goneFor, faults>>
      /\ directory # None /\ directory[1].age > SessionTimeout /\ directory' = <<>>
  BY WireKept DEF DiscoveryInv, readSessions, unswept, sap, rtsp, history, bounds, None
<1>2. DiscoveryTyped'
  BY <1>1 DEF DiscoveryTyped
<1>3. AgedSince'
  BY <1>1 DEF AgedSince, None
<1>4. AskedInTime'
  <2> SUFFICES ASSUME phase = "run", remote.src # 0, again(service), faults < SessionTimeout
               PROVE  steady <= Rounds
    BY <1>1 DEF AskedInTime, Rounds, Asked
  <2>1. Rounds \in {faults, faults + 1} /\ faults \in Nat
    BY <1>1 DEF Rounds, DiscoveryTyped
  <2>2. directory[1].age \in Nat
    BY <1>1, EntryAge, Marks
  <2>3. ~(directory[1].age <= Rounds)
    BY <1>1, <2>1, <2>2, Marks
  <2> QED BY <2>3 DEF DiscoveryInv, AskedInTime
<1> QED BY <1>1, <1>2, <1>3, <1>4 DEF DiscoveryInv, EndedInTurn, Withdrawn, SteadyWay,
                                      GoneWay, OnlyOf

\* What is filed is what the network says now, whenever that matters.
LEMMA FiledKeeps ==
  ASSUME DiscoveryInv, NEW b \in Bodies, NEW source \in {"sap", "rtsp"},
         directory' = offer(directory, b, source), DiscoveryTyped', EndedInTurn',
         UNCHANGED <<remote, wire, joined, heard, service, queue, refreshed, phase, steady,
                     goneFor, faults>>,
         steady > 0 => b = remote.src, ~(remote.src = 0 /\ goneFor > 0),
         listener' \in {listener, Waiting}, worker' \in {worker, Waiting}
  PROVE  DiscoveryInv'
<1>1. /\ DiscoveryTyped /\ OnWire' = OnWire
      /\ directory' # None /\ directory'[1].body = b /\ directory'[1].age = 0
  <2>1. DiscoveryTyped /\ OnWire' = OnWire
    BY WireKept DEF DiscoveryInv
  <2>2. directory \in Seq(Entry) /\ Len(directory) <= 1
    BY <2>1 DEF DiscoveryTyped
  <2> QED BY <2>1, <2>2, Offered
<1>2. Sorted(heard') /\ Withdrawn'
  BY <1>1 DEF DiscoveryInv, Withdrawn
<1>3. SteadyWay' /\ GoneWay'
  BY <1>1, Marks DEF DiscoveryInv, SteadyWay, GoneWay, OnlyOf
<1>4. AgedSince'
  <2>1. goneFor \in Nat
    BY <1>1, Marks DEF DiscoveryTyped
  <2> QED BY <1>1, <2>1 DEF AgedSince
<1>5. AskedInTime'
  <2>1. Rounds' \in Nat
    <3>1. faults' \in Nat
      BY DEF DiscoveryTyped
    <3> QED BY <3>1 DEF Rounds
  <2>2. steady \in Nat
    BY <1>1 DEF DiscoveryTyped
  <2>3. CASE steady = 0
    BY <2>1, <2>2, <2>3 DEF AskedInTime
  <2>4. CASE steady > 0
    BY <1>1, <2>1, <2>4 DEF AskedInTime
  <2> QED BY <2>2, <2>3, <2>4
<1> QED BY <1>2, <1>3, <1>4, <1>5 DEF DiscoveryInv

LEMMA TellKeeps ==
  ASSUME DiscoveryInv, tell
  PROVE  DiscoveryInv'
<1>1. /\ DiscoveryTyped /\ listener \in Bodies
      /\ directory' = offer(directory, listener, "sap")
      /\ UNCHANGED <<remote, wire, joined, heard, service, queue, worker, refreshed, phase,
                     steady, goneFor, faults>>
      /\ listener' = Waiting
  BY DEF DiscoveryInv, tell, rtsp, history, bounds
<1>2. (steady > 0 => listener = remote.src) /\ ~(remote.src = 0 /\ goneFor > 0)
  BY <1>1, Marks DEF DiscoveryInv, SteadyWay, GoneWay, OnlyOf
<1>3. DiscoveryTyped'
  <2>1. directory \in Seq(Entry) /\ Len(directory) <= 1
    BY <1>1 DEF DiscoveryTyped
  <2>2. directory' \in Seq(Entry) /\ Len(directory') = 1
    BY <1>1, <2>1, Offered
  <2>3. directory' \in Seq(Entry) /\ Len(directory') <= 1
    BY <2>2
  <2> QED BY <1>1, <2>3 DEF DiscoveryTyped
<1>4. EndedInTurn'
  BY <1>1, Marks DEF DiscoveryInv, EndedInTurn
<1> QED BY <1>1, <1>2, <1>3, <1>4, FiledKeeps

LEMMA FileKeeps ==
  ASSUME DiscoveryInv, fileDescription
  PROVE  DiscoveryInv'
<1>1. /\ DiscoveryTyped /\ worker \in Bodies
      /\ directory' = offer(directory, worker, "rtsp")
      /\ UNCHANGED <<remote, wire, joined, heard, listener, service, queue, refreshed,
                     phase, steady, goneFor, faults>>
      /\ worker' = Waiting
  BY DEF DiscoveryInv, fileDescription, sap, history, bounds
<1>2. (steady > 0 => worker = remote.src) /\ ~(remote.src = 0 /\ goneFor > 0)
  BY <1>1, Marks DEF DiscoveryInv, SteadyWay, GoneWay, OnlyOf
<1>3. DiscoveryTyped'
  <2>1. directory \in Seq(Entry) /\ Len(directory) <= 1
    BY <1>1 DEF DiscoveryTyped
  <2>2. directory' \in Seq(Entry) /\ Len(directory') = 1
    BY <1>1, <2>1, Offered
  <2>3. directory' \in Seq(Entry) /\ Len(directory') <= 1
    BY <2>2
  <2> QED BY <1>1, <2>3 DEF DiscoveryTyped
<1>4. EndedInTurn'
  BY <1>1, Marks DEF DiscoveryInv, EndedInTurn
<1> QED BY <1>1, <1>2, <1>3, <1>4, FiledKeeps

LEMMA DescribeKeeps ==
  ASSUME DiscoveryInv, describe
  PROVE  DiscoveryInv'
<1>1. /\ DiscoveryTyped /\ OnWire' = OnWire /\ queue # <<>> /\ worker = Waiting
      /\ UNCHANGED <<remote, wire, joined, heard, listener, directory, service, refreshed,
                     phase, steady, goneFor>>
      /\ queue' = Tail(queue) /\ phase = "run"
  BY WireKept DEF DiscoveryInv, describe, sap, history
<1>2. /\ remote.src \in Bodies \cup {0} /\ faults \in Nat /\ queue \in Seq({"service"})
  BY <1>1 DEF DiscoveryTyped
<1>3. \/ remote.src # 0 /\ worker' = remote.src /\ faults' = faults
      \/ remote.src = 0 /\ worker' = worker /\ faults' = faults
      \/ faults' = faults + 1 /\ worker' = worker
  BY <1>2, Marks DEF describe, serve, NotFound
<1>4. queue' \in Seq({"service"})
  BY <1>1, <1>2
<1>5. DiscoveryTyped'
  BY <1>1, <1>2, <1>3, <1>4 DEF DiscoveryTyped
<1>6. EndedInTurn' /\ Sorted(heard') /\ AgedSince'
  BY <1>1 DEF DiscoveryInv, EndedInTurn, AgedSince
<1>7. Withdrawn'
  BY <1>1, <1>2, <1>3 DEF DiscoveryInv, Withdrawn
<1>8. SteadyWay' /\ GoneWay'
  BY <1>1, <1>3 DEF DiscoveryInv, SteadyWay, GoneWay, OnlyOf
<1>9. AskedInTime'
  <2> SUFFICES ASSUME remote.src # 0, again(service), faults' < SessionTimeout
               PROVE  \/ steady <= Rounds'
                      \/ /\ directory # None /\ directory[1].body = remote.src
                         /\ directory[1].age <= Rounds'
    BY <1>1 DEF AskedInTime
  <2>1. Rounds = faults + 1 /\ faults < SessionTimeout
    BY <1>1, <1>2, <1>3, Marks DEF Rounds, Asked
  <2>2. Rounds' \in Nat /\ Rounds' >= faults + 1
    <3>1. CASE worker' = remote.src
      <4>1. ~Asked' /\ faults' \in Nat /\ faults' >= faults
        BY <1>2, <1>3, <3>1, Marks DEF Asked
      <4>2. Rounds' = faults' + 1
        BY <4>1 DEF Rounds
      <4> QED BY <1>2, <4>1, <4>2, OneMore
    <3>2. CASE faults' = faults + 1
      <4>1. Rounds' \in {faults + 1, faults + 1 + 1}
        BY <3>2 DEF Rounds
      <4>2. faults + 1 \in Nat /\ faults + 1 + 1 \in Nat /\ faults + 1 + 1 >= faults + 1
        BY <1>2
      <4> QED BY <4>1, <4>2
    <3> QED BY <1>3, <3>1, <3>2
  <2>3. directory # None => directory[1].age \in Nat
    BY <1>1, EntryAge, Marks
  <2>4. \/ steady <= Rounds
        \/ directory # None /\ directory[1].body = remote.src /\ directory[1].age <= Rounds
    BY <1>1, <2>1 DEF DiscoveryInv, AskedInTime
  <2>5. steady \in Nat
    BY <1>1 DEF DiscoveryTyped
  <2> QED BY <1>2, <2>1, <2>2, <2>3, <2>4, <2>5
<1> QED BY <1>5, <1>6, <1>7, <1>8, <1>9 DEF DiscoveryInv

LEMMA RefreshKeeps ==
  ASSUME DiscoveryInv, refresh
  PROVE  DiscoveryInv'
<1>1. /\ DiscoveryTyped /\ OnWire' = OnWire /\ worker = Waiting /\ phase = "run" /\ ~refreshed
      /\ UNCHANGED <<remote, wire, joined, heard, listener, directory, worker, phase,
          goneFor,
                     faults>>
      /\ service' = sweptService(service) /\ refreshed' = TRUE
      /\ queue' = IF again(service') THEN enqueue(queue) ELSE queue
      /\ steady' = IF service' = service THEN steady ELSE 0
  BY WireKept DEF DiscoveryInv, refresh, sap, bounds
<1>2. /\ service' = service \/ service' = <<>>
  BY <1>1 DEF sweptService, None
<1>3. service' \in Seq(Service) /\ Len(service') <= 1
  <2>1. CASE service' = service
    BY <1>1, <2>1 DEF DiscoveryTyped
  <2>2. CASE service' = <<>>
    BY <2>2
  <2> QED BY <1>2, <2>1, <2>2
<1>4. queue' \in Seq({"service"}) /\ (again(service') => queue' # <<>>)
  BY <1>1, EnqueuedIsOne DEF DiscoveryTyped
<1>5. DiscoveryTyped'
  BY <1>1, <1>3, <1>4 DEF DiscoveryTyped
<1>6. EndedInTurn' /\ Sorted(heard') /\ AgedSince' /\ GoneWay' /\ Withdrawn'
  BY <1>1 DEF DiscoveryInv, EndedInTurn, AgedSince, GoneWay, Withdrawn, OnlyOf
<1>7. SteadyWay'
  BY <1>1 DEF DiscoveryInv, SteadyWay, OnlyOf, DiscoveryTyped
<1>8. AskedInTime'
  <2> SUFFICES ASSUME remote.src # 0, again(service'), faults < SessionTimeout
               PROVE  \/ steady' <= Rounds'
                      \/ /\ directory # None /\ directory[1].body = remote.src
                         /\ directory[1].age <= Rounds'
    BY <1>1 DEF AskedInTime
  <2>1. service' = service /\ steady' = steady
    BY <1>1, <1>2 DEF again, None
  <2>2. Rounds = faults + 1 /\ Rounds' = faults + 1
    BY <1>1, <1>4 DEF Rounds, Asked
  <2> QED BY <1>1, <2>1, <2>2 DEF DiscoveryInv, AskedInTime
<1> QED BY <1>5, <1>6, <1>7, <1>8 DEF DiscoveryInv

LEMMA StoppingKeeps ==
  ASSUME DiscoveryInv, stopRtsp \/ workerEnds \/ stopSap \/ listenerEnds \/ delete
  PROVE  DiscoveryInv'
<1>1. /\ DiscoveryTyped /\ OnWire' = OnWire
      /\ UNCHANGED <<remote, wire, joined, heard, directory, service, refreshed, steady,
          goneFor,
                     faults>>
      /\ listener' \in {listener, Ended} /\ worker' \in {worker, Ended}
      /\ queue' \in {queue, <<>>} /\ phase' # "run"
  BY WireKept
  DEF DiscoveryInv, stopRtsp, workerEnds, stopSap, listenerEnds, delete, sap, rtsp,
                  history, bounds
<1>2. EndedInTurn'
  BY DEF DiscoveryInv, EndedInTurn, stopRtsp, workerEnds, joinedWorker, stopSap,
     listenerEnds,
         delete, sap, rtsp
<1>3. DiscoveryTyped'
  <2>1. queue' \in Seq({"service"})
    <3>1. CASE queue' = queue
      BY <1>1, <3>1 DEF DiscoveryTyped
    <3>2. CASE queue' = <<>>
      BY <3>2
    <3> QED BY <1>1, <3>1, <3>2
  <2>2. listener' \in Bodies \cup {Waiting, Ended} /\ worker' \in Bodies \cup {Waiting,
      Ended}
    BY <1>1 DEF DiscoveryTyped
  <2> QED BY <1>1, <2>1, <2>2 DEF DiscoveryTyped
<1>4. SteadyWay' /\ GoneWay'
  BY <1>1, Marks DEF DiscoveryInv, SteadyWay, GoneWay, OnlyOf
<1>5. Sorted(heard') /\ Withdrawn' /\ AgedSince' /\ AskedInTime'
  BY <1>1 DEF DiscoveryInv, Withdrawn, AgedSince, AskedInTime
<1> QED BY <1>2, <1>3, <1>4, <1>5 DEF DiscoveryInv

LEMMA TickKeeps ==
  ASSUME DiscoveryInv, tick
  PROVE  DiscoveryInv'
<1>1. /\ DiscoveryTyped /\ OnWire' = OnWire /\ OnWire = {} /\ joined /\ phase = "run"
      /\ listener = Waiting /\ worker = Waiting /\ queue = <<>> /\ refreshed
      /\ UNCHANGED <<wire, joined, listener, queue, worker, phase, faults>>
      /\ ~refreshed'
  BY WireKept, QuietIsEmpty DEF DiscoveryInv, tick, bounds
<1>2. /\ remote' \in [src : Bodies \cup {0}, announced : SUBSET Bodies,
                      said : BOOLEAN, orderly : BOOLEAN]
      /\ remote'.src = remote.src /\ remote'.announced = remote.announced
      /\ remote'.orderly = remote.orderly
  BY <1>1 DEF tick, DiscoveryTyped
<1>3. /\ heard' \in Seq(Heard) /\ Sorted(heard') /\ bodies(heard') = bodies(heard)
  BY <1>1, AgedList DEF DiscoveryInv, DiscoveryTyped, tick
<1>4. /\ directory' \in Seq(Entry) /\ Len(directory') <= 1
      /\ directory' # None <=> directory # None
      /\ directory # None => /\ directory'[1].body = directory[1].body
                             /\ directory'[1].age = IF directory[1].age = Stale THEN Stale
                                                    ELSE directory[1].age + 1
  BY <1>1, AgedDirectory DEF DiscoveryTyped, tick
<1>5. /\ service' \in Seq(Service) /\ Len(service') <= 1
      /\ again(service') => again(service)
  BY <1>1, AgedService DEF DiscoveryTyped, tick, again
<1>6. /\ steady \in Nat /\ steady' \in Nat /\ steady' <= steady + 1
      /\ goneFor \in 0..(Stale + 1) /\ goneFor' \in 0..(Stale + 1)
      /\ goneFor' <= goneFor + 1
  <2>1. steady \in Nat /\ goneFor \in 0..(Stale + 1)
    BY <1>1 DEF DiscoveryTyped
  <2>2. /\ steady' \in {steady, steady + 1}
        /\ goneFor' = goneFor \/ (~(goneFor > Stale) /\ goneFor' = goneFor + 1)
    BY DEF tick
  <2>3. steady' \in Nat /\ steady' <= steady + 1
    BY <2>1, <2>2
  <2>4. goneFor' \in 0..(Stale + 1) /\ goneFor' <= goneFor + 1
    BY <2>1, <2>2, Marks
  <2> QED BY <2>1, <2>3, <2>4
<1>7. DiscoveryTyped'
  BY <1>1, <1>2, <1>3, <1>4, <1>5, <1>6 DEF DiscoveryTyped
<1>8. EndedInTurn' /\ Withdrawn'
  BY <1>1, <1>2, <1>3 DEF DiscoveryInv, EndedInTurn, Withdrawn
<1>9. SteadyWay' /\ GoneWay'
  BY <1>1, Marks DEF SteadyWay, GoneWay, OnlyOf
<1>10. AgedSince'
  <2> SUFFICES ASSUME remote.src = 0, directory # None
               PROVE  directory'[1].age >= goneFor' \/ directory'[1].age = Stale
    BY <1>2, <1>4 DEF AgedSince
  <2>1. directory[1].age \in 0..Stale
    BY <1>1, EntryAge
  <2>2. directory[1].age >= goneFor \/ directory[1].age = Stale
    BY DEF DiscoveryInv, AgedSince
  <2> QED BY <1>4, <1>6, <2>1, <2>2, Marks
<1>11. AskedInTime'
  <2> SUFFICES ASSUME remote.src # 0, again(service), faults < SessionTimeout
               PROVE  \/ steady' <= Rounds'
                      \/ /\ directory' # None /\ directory'[1].body = remote.src
                         /\ directory'[1].age <= Rounds'
    BY <1>1, <1>2, <1>5 DEF AskedInTime
  <2>1. Rounds = faults /\ Rounds' = faults + 1 /\ faults \in Nat
    BY <1>1 DEF Rounds, Asked, DiscoveryTyped
  <2>2. \/ steady <= Rounds
        \/ directory # None /\ directory[1].body = remote.src /\ directory[1].age <= Rounds
    BY <1>1 DEF DiscoveryInv, AskedInTime
  <2>3. directory # None => directory[1].age \in Nat
    BY <1>1, EntryAge, Marks
  <2> QED BY <1>4, <1>6, <2>1, <2>2, <2>3, Marks
<1> QED BY <1>3, <1>7, <1>8, <1>9, <1>10, <1>11 DEF DiscoveryInv

-----------------------------------------------------------------------------

LEMMA DiscoveryInitially == Init => DiscoveryInv
<1> SUFFICES ASSUME Init PROVE DiscoveryInv
  OBVIOUS
<1>1. quiet /\ OnWire = {}
  BY QuietIsEmpty DEF Init, quiet
<1>2. DiscoveryTyped
  <2>1. IsFiniteSet({})
    BY FS_EmptySet
  <2>2. remote = [src |-> 0, announced |-> {}, said |-> FALSE, orderly |-> TRUE]
    BY DEF Init, Idle
  <2>3. wire \in [Groups -> Seq(Packet)]
    BY DEF Init
  <2>4. goneFor \in 0..(Stale + 1)
    BY Marks DEF Init
  <2> QED BY <2>1, <2>2, <2>3, <2>4 DEF Init, DiscoveryTyped, None
<1>3. EndedInTurn /\ Sorted(heard) /\ bodies(heard) = {}
  BY DEF Init, EndedInTurn, Sorted, bodies
<1>4. Withdrawn
  BY <1>1, <1>3 DEF Withdrawn, Init
<1>5. SteadyWay /\ GoneWay
  BY <1>1, Marks DEF Init, SteadyWay, GoneWay, OnlyOf
<1>6. AgedSince /\ AskedInTime
  BY DEF Init, AgedSince, AskedInTime, Idle
<1> QED BY <1>2, <1>3, <1>4, <1>5, <1>6 DEF DiscoveryInv

LEMMA DiscoveryStep == DiscoveryInv /\ [Next]_vars => DiscoveryInv'
<1> SUFFICES ASSUME DiscoveryInv, [Next]_vars PROVE DiscoveryInv'
  OBVIOUS
<1>1. CASE UNCHANGED vars
  <2>1. /\ UNCHANGED <<remote, wire, joined, heard, listener, directory, service, queue,
                       worker, refreshed, phase, steady, goneFor, faults>>
        /\ OnWire' = OnWire
    BY <1>1, WireKept DEF vars, sap, rtsp, history, bounds
  <2> QED BY <2>1
          DEF DiscoveryInv, DiscoveryTyped, EndedInTurn, Withdrawn, SteadyWay, GoneWay,
                      OnlyOf, AgedSince, AskedInTime, Rounds, Asked
<1>2. CASE Remote
  BY <1>2, EditKeeps, RoundKeeps, StopKeeps, CrashKeeps, FlapKeeps, LostKeeps, BrowseKeeps,
     GoodbyeKeeps DEF Remote
<1>3. CASE Local
  BY <1>3, ReceiveKeeps, RejoinKeeps, TellKeeps, ExpireKeeps, ReadKeeps, DescribeKeeps,
     FileKeeps, RefreshKeeps, StoppingKeeps DEF Local
<1>4. CASE tick
  BY <1>4, TickKeeps
<1> QED BY <1>1, <1>2, <1>3, <1>4 DEF Next

\* For any versions, timeouts, changes and faults: SAPListener's own list, when nothing was
\* lost, keeps no announcement that was withdrawn; SessionDirectory shows no session that
\* has been gone for longer than the timeout it is given, and shows the present session of
\* a device for as long as MDNSBrowser lists it resolved, although questions fail; no
\* thread files into a deleted SessionDirectory.  A session that is only announced may
\* still age out of the directory, see AnnouncedIsListed.
THEOREM DirectoryAlwaysTells == Spec => []DirectoryTells
<1>1. DiscoveryInv => DirectoryTells
  <2> SUFFICES ASSUME DiscoveryInv PROVE DirectoryTells
    OBVIOUS
  <2>1. DiscoveryTyped
    BY DEF DiscoveryInv
  <2>2. directory # None => directory[1].age \in 0..Stale
    BY <2>1, EntryAge
  <2>3. WithdrawnIsForgotten
    <3> SUFFICES ASSUME remote.orderly, faults = 0, quiet, NEW i \in DOMAIN heard
                 PROVE  heard[i].body \in remote.announced
      BY DEF WithdrawnIsForgotten
    <3>1. heard[i].body \in bodies(heard) /\ OnWire = {}
      BY QuietIsEmpty DEF bodies
    <3> QED BY <3>1 DEF DiscoveryInv, Withdrawn
  <2>4. GoneIsNotShown
    <3> SUFFICES ASSUME remote.src = 0, goneFor > SessionTimeout, directory # None
                 PROVE  directory[1].age > SessionTimeout
      BY DEF GoneIsNotShown, unswept
    <3>1. directory[1].age >= goneFor \/ directory[1].age = Stale
      BY DEF DiscoveryInv, AgedSince
    <3> QED BY <2>1, <2>2, <3>1, Marks DEF DiscoveryTyped
  <2>5. StillThereIsListed
    <3> SUFFICES ASSUME phase = "run", remote.src # 0, again(service), steady >= faults + 2,
                        faults < SessionTimeout
                 PROVE  /\ directory # None /\ ~(directory[1].age > SessionTimeout)
                        /\ directory[1].body = remote.src
      BY DEF StillThereIsListed, unswept, again
    <3>1. Rounds \in {faults, faults + 1} /\ faults \in Nat /\ steady \in Nat
      BY <2>1 DEF Rounds, DiscoveryTyped
    <3>2. directory # None /\ directory[1].body = remote.src /\ directory[1].age <= Rounds
      BY <3>1 DEF DiscoveryInv, AskedInTime
    <3> QED BY <2>2, <3>1, <3>2, Marks
  <2>6. NoOneFilesLate
    BY DEF DiscoveryInv, EndedInTurn, NoOneFilesLate
  <2> QED BY <2>3, <2>4, <2>5, <2>6 DEF DirectoryTells
<1> QED BY <1>1, DiscoveryInitially, DiscoveryStep, PTL DEF Spec
=============================================================================
