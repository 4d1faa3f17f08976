-------------------------- MODULE ServiceMesh_proofs --------------------------
(***************************************************************************)
(* ServiceMesh, for any clusters, pods and bounds.                         *)
(***************************************************************************)
EXTENDS ServiceMesh, SequenceTheorems, TLAPS

-----------------------------------------------------------------------------
(* A sequence with an element before it.                                   *)
LEMMA ConsFacts ==
  ASSUME NEW S, NEW e \in S, NEW q \in Seq(S)
  PROVE  /\ << e >> \o q \in Seq(S)
         /\ Len(<< e >> \o q) = Len(q) + 1
         /\ (<< e >> \o q)[1] = e
         /\ \A i \in 1 .. Len(q) : (<< e >> \o q)[i + 1] = q[i]
         /\ << e >> \o q # << >>
  <1>1. << e >> \in Seq(S) /\ Len(<< e >>) = 1 /\ << e >>[1] = e /\ Len(q) \in Nat
    BY LenProperties
  <1> DEFINE o == << e >> \o q
  <1>2. /\ o \in Seq(S) /\ Len(o) = 1 + Len(q)
        /\ \A i \in 1 .. 1 + Len(q) : o[i] = IF i <= 1 THEN << e >>[i] ELSE q[i - 1]
    BY <1>1, ConcatProperties
  <1> HIDE DEF o
  <1>3. o[1] = e /\ \A i \in 1 .. Len(q) : o[i + 1] = q[i]
    BY <1>1, <1>2
  <1>4. o # << >>
    BY <1>1, <1>2, EmptySeq
  <1> QED
    BY <1>1, <1>2, <1>3, <1>4 DEF o

LEMMA ConsTail ==
  ASSUME NEW S, NEW e \in S, NEW q \in Seq(S)
  PROVE  /\ Tail(<< e >> \o q) = q
         /\ \A x \in S : Append(<< e >> \o q, x) = << e >> \o Append(q, x)
  <1> DEFINE o == << e >> \o q
  <1>1. /\ o \in Seq(S) /\ Len(o) = Len(q) + 1 /\ o[1] = e
        /\ \A i \in 1 .. Len(q) : o[i + 1] = q[i]
        /\ o # << >> /\ Len(q) \in Nat
    BY ConsFacts, LenProperties
  <1>2. Tail(o) = q
    <2> HIDE DEF o
    <2>1. /\ Tail(o) \in Seq(S) /\ Len(Tail(o)) = Len(o) - 1
          /\ \A i \in 1 .. Len(Tail(o)) : Tail(o)[i] = o[i + 1]
      BY <1>1, HeadTailProperties
    <2>2. Len(Tail(o)) = Len(q) /\ \A i \in 1 .. Len(q) : Tail(o)[i] = q[i]
      BY <1>1, <2>1
    <2> QED
      BY <2>1, <2>2, SeqEqual
  <1>3. ASSUME NEW x \in S PROVE Append(o, x) = << e >> \o Append(q, x)
    <2> DEFINE a == Append(o, x)
               b == Append(q, x)
               p == << e >> \o b
    <2>1. /\ b \in Seq(S) /\ Len(b) = Len(q) + 1 /\ b[Len(q) + 1] = x
          /\ \A i \in 1 .. Len(q) : b[i] = q[i]
      BY AppendProperties
    <2>2. /\ p \in Seq(S) /\ Len(p) = Len(b) + 1 /\ p[1] = e
          /\ \A i \in 1 .. Len(b) : p[i + 1] = b[i]
      BY <2>1, ConsFacts
    <2> HIDE DEF o
    <2>3. /\ a \in Seq(S) /\ Len(a) = Len(o) + 1 /\ a[Len(o) + 1] = x
          /\ \A i \in 1 .. Len(o) : a[i] = o[i]
      BY <1>1, AppendProperties
    <2> HIDE DEF a, b, p
    <2>4. ASSUME NEW i \in 1 .. Len(a) PROVE a[i] = p[i]
      <3>1. CASE i = 1
        BY <1>1, <2>1, <2>2, <2>3, <3>1
      <3>2. CASE i = Len(q) + 2
        BY <1>1, <2>1, <2>2, <2>3, <3>2
      <3>3. CASE i # 1 /\ i # Len(q) + 2
        <4>1. i - 1 \in 1 .. Len(q) /\ i - 1 \in 1 .. Len(b) /\ (i - 1) + 1 = i /\ i \in 1 .. Len(o)
          BY <1>1, <2>1, <2>3, <3>3
        <4>2. a[i] = q[i - 1]
          BY <1>1, <2>3, <4>1
        <4>3. p[i] = q[i - 1]
          BY <2>1, <2>2, <4>1
        <4> QED
          BY <4>2, <4>3
      <3> QED
        BY <3>1, <3>2, <3>3
    <2>5. a = p
      BY <1>1, <2>1, <2>2, <2>3, <2>4, SeqEqual
    <2> QED
      BY <2>5 DEF a, b, p
  <1> QED
    BY <1>2, <1>3 DEF o

LEMMA HeadAndTail ==
  ASSUME NEW S, NEW q \in Seq(S), q # << >>
  PROVE  /\ Head(q) = q[1] /\ Head(q) \in S /\ Tail(q) \in Seq(S)
         /\ << Head(q) >> \o Tail(q) = q
  <1>1. /\ Head(q) = q[1] /\ Head(q) \in S /\ Tail(q) \in Seq(S) /\ Len(Tail(q)) = Len(q) - 1
        /\ \A i \in 1 .. Len(Tail(q)) : Tail(q)[i] = q[i + 1]
        /\ Len(q) \in Nat \ {0}
    BY HeadTailProperties, EmptySeq
  <1> DEFINE o == << Head(q) >> \o Tail(q)
             u == Tail(q)
  <1>2. /\ o \in Seq(S) /\ Len(o) = Len(u) + 1 /\ o[1] = Head(q)
        /\ \A i \in 1 .. Len(u) : o[i + 1] = u[i]
    BY <1>1, ConsFacts
  <1>3. u \in Seq(S) /\ Len(u) = Len(q) - 1 /\ \A i \in 1 .. Len(u) : u[i] = q[i + 1]
    BY <1>1
  <1> HIDE DEF o, u
  <1>4. ASSUME NEW i \in 1 .. Len(o) PROVE o[i] = q[i]
    <2>1. CASE i = 1
      BY <1>1, <1>2, <2>1
    <2>2. CASE i # 1
      <3>1. i - 1 \in 1 .. Len(u) /\ (i - 1) + 1 = i
        BY <1>1, <1>2, <1>3, <2>2
      <3> QED
        BY <1>2, <1>3, <3>1
    <2> QED
      BY <2>1, <2>2
  <1>5. o = q
    BY <1>1, <1>2, <1>3, <1>4, SeqEqual
  <1> QED
    BY <1>1, <1>5 DEF o

-----------------------------------------------------------------------------
(* Entries of the Endpoints.                                               *)
LEMMA EntryWritten ==
  ASSUME NEW obj \in Endpoints, NEW c \in Clusters, NEW x \in Entry
  PROVE  LET r == [obj EXCEPT !.of[c] = x]
         IN  /\ r \in Endpoints /\ r.gen = obj.gen /\ r.of[c] = x
             /\ \A d \in Clusters : d # c => r.of[d] = obj.of[d]
  BY DEF Endpoints

LEMMA EntryExposed ==
  ASSUME NEW obj \in Endpoints, NEW c \in Clusters, Listed(obj, c)
  PROVE  LET r == [obj EXCEPT !.of[c].exposed = TRUE]
         IN  /\ r \in Endpoints /\ r.gen = obj.gen
             /\ r.of[c].num = obj.of[c].num /\ r.of[c].exposed
             /\ \A d \in Clusters : d # c => r.of[d] = obj.of[d]
  <1> DEFINE e == obj.of[c]
             x == [e EXCEPT !.exposed = TRUE]
  <1>1. e \in [num : Nat \ {0}, exposed : BOOLEAN]
    BY DEF Endpoints, Listed, Entry
  <1>2. x \in [num : Nat \ {0}, exposed : BOOLEAN] /\ x.num = e.num /\ x.exposed = TRUE
    BY <1>1
  <1>3. x \in Entry
    BY <1>2 DEF Entry
  <1> HIDE DEF x
  <1>4. LET r == [obj EXCEPT !.of[c] = x]
        IN  /\ r \in Endpoints /\ r.gen = obj.gen /\ r.of[c] = x
            /\ \A d \in Clusters : d # c => r.of[d] = obj.of[d]
    BY <1>3, EntryWritten
  <1>5. [obj EXCEPT !.of[c].exposed = TRUE] = [obj EXCEPT !.of[c] = x]
    BY DEF x
  <1> QED
    BY <1>2, <1>4, <1>5

LEMMA WithEntryFacts ==
  ASSUME NEW obj \in Endpoints, NEW c \in Clusters
  PROVE  /\ WithEntry(c, obj) \in Endpoints
         /\ WithEntry(c, obj).gen = obj.gen
         /\ WithEntry(c, obj).of[c].num = Pods[c]
         /\ \A d \in Clusters : d # c => WithEntry(c, obj).of[d] = obj.of[d]
  <1>1. CASE obj.of[c].num = Pods[c]
    BY <1>1 DEF WithEntry
  <1>2. CASE obj.of[c].num # Pods[c]
    <2> DEFINE x == [num |-> Pods[c], exposed |-> FALSE]
    <2>1. Pods[c] \in Nat
      BY ServiceMeshAssumption
    <2>2. x \in Entry /\ x.num = Pods[c]
      BY <2>1 DEF Entry, NoEntry
    <2>3. WithEntry(c, obj) = [obj EXCEPT !.of[c] = x]
      BY <1>2 DEF WithEntry
    <2> HIDE DEF x
    <2> QED
      BY <2>2, <2>3, EntryWritten
  <1> QED
    BY <1>1, <1>2

-----------------------------------------------------------------------------
(* Nothing has come in between but an import that was repeated.            *)
Clean == disturbed \subseteq {"repeated"}

-----------------------------------------------------------------------------
(* The types: whatever there is tells of creations that have been, and of  *)
(* the pods that there are.                                                *)
Past == 1 .. changes
Counts == {f \in [Clusters -> Entry] : \A c \in Clusters : f[c].num \in {0, Pods[c]}}
PastService == [gen : Past]
PastEndpoints == [gen : Past, of : Counts]
PastEvent == [type : {"ADD", "DELETE"}, gen : Past]
PastWrite == [type : {"UPDATE", "DELETE"}, obj : PastEndpoints]

EC == [queue : Seq(PastEvent), at : {"idle", "fetch", "put"}, event : Seq(PastEvent),
       copy : PastEndpoints \cup {None}, base : PastEndpoints \cup {None}]
PC == [queue : Seq(PastWrite), put : Seq(PastWrite), peers : SUBSET Others]

\* A controller at work has the addition of a service in hand; what it is
\* about to put is what it got, with its own entry.
Sound(c, r) ==
  /\ r.at = "idle" => r.event = << >>
  /\ r.at # "idle" => /\ r.event # << >> /\ r.event = << r.event[1] >>
                      /\ r.event[1].type = "ADD"
  /\ r.at = "put" => r.base # None /\ r.copy = WithEntry(c, r.base)

\* Only who is not the primary exports, and exposes, where it is listed; only
\* the primary goes through the peers it imported from.
ProxySound(c, r) ==
  /\ r.put # << >> => /\ c # Primary /\ r.put = << r.put[1] >>
                      /\ r.put[1].type = "UPDATE" /\ Listed(r.put[1].obj, c)
  /\ r.peers # {} => c = Primary /\ r.put = << >>

StoreFits ==
  /\ changes \in 0 .. MaxChanges /\ faults \in 0 .. MaxFaults
  /\ service \in PastService \cup {None} /\ sc \in PastService \cup {None}
  /\ endpoints \in PastEndpoints \cup {None}
  /\ k8 \subseteq Clusters /\ exports \subseteq Others
  /\ imports \in [Others -> Nat] /\ \A c \in Others : imports[c] > 0 => Pods[c] > 0
  /\ disturbed \subseteq Disturbances
EcFits ==
  /\ ec \in [Clusters -> EC]
  /\ \A c \in Clusters : Sound(c, ec[c])
  /\ ec[Primary].at = "put" => endpoints # None
PcFits ==
  /\ pc \in [Clusters -> PC]
  /\ \A c \in Clusters : ProxySound(c, pc[c])

Typed == StoreFits /\ EcFits /\ PcFits

LEMMA PastIsKnown ==
  ASSUME StoreFits
  PROVE  /\ Past \subseteq Gens /\ 0 \notin Past
         /\ PastService \subseteq Service /\ PastEndpoints \subseteq Endpoints
         /\ PastEvent \subseteq ServiceEvent /\ PastWrite \subseteq EndpointsEvent
         /\ None \notin PastService /\ None \notin PastEndpoints
  <1>1. changes \in Nat /\ changes <= MaxChanges /\ MaxChanges \in Nat
    BY ServiceMeshAssumption DEF StoreFits
  <1>2. Past \subseteq Gens /\ 0 \notin Past
    BY <1>1 DEF Past, Gens
  <1>3. PastEndpoints \subseteq Endpoints
    BY <1>2 DEF PastEndpoints, Counts, Endpoints
  <1>4. None \notin PastService /\ None \notin PastEndpoints
    BY <1>2 DEF PastService, PastEndpoints, None
  <1> QED
    BY <1>2, <1>3, <1>4 DEF PastService, Service, PastEvent, ServiceEvent, PastWrite, EndpointsEvent

LEMMA TypedIsTypeOK == Typed => TypeOK
  <1> SUFFICES ASSUME Typed PROVE TypeOK
    OBVIOUS
  <1>1. StoreFits /\ EcFits /\ PcFits
    BY DEF Typed
  <1>2. Seq(PastEvent) \subseteq Seq(ServiceEvent) /\ Seq(PastWrite) \subseteq Seq(EndpointsEvent)
    BY <1>1, PastIsKnown, SeqMonotonic
  <1>3. EC \subseteq [queue : Seq(ServiceEvent), at : {"idle", "fetch", "put"},
                      event : Seq(ServiceEvent), copy : Endpoints \cup {None},
                      base : Endpoints \cup {None}]
    BY <1>1, <1>2, PastIsKnown DEF EC
  <1>4. PC \subseteq [queue : Seq(EndpointsEvent), put : Seq(EndpointsEvent), peers : SUBSET Others]
    BY <1>2 DEF PC
  <1>5. /\ service \in Service \cup {None} /\ sc \in Service \cup {None}
        /\ endpoints \in Endpoints \cup {None}
    BY <1>1, PastIsKnown DEF StoreFits
  <1>6. /\ ec \in [Clusters -> [queue : Seq(ServiceEvent), at : {"idle", "fetch", "put"},
                      event : Seq(ServiceEvent), copy : Endpoints \cup {None},
                      base : Endpoints \cup {None}]]
        /\ pc \in [Clusters -> [queue : Seq(EndpointsEvent), put : Seq(EndpointsEvent),
                            peers : SUBSET Others]]
    BY <1>1, <1>3, <1>4 DEF EcFits, PcFits
  <1> QED
    BY <1>1, <1>5, <1>6 DEF StoreFits, TypeOK, Others

-----------------------------------------------------------------------------
(* What is before the endpoints controller of c, the event in its hand     *)
(* included.                                                               *)
At(c) == ec[c].at
Events(c) == ec[c].event \o ec[c].queue

LEMMA EventsFacts ==
  ASSUME Typed, NEW c \in Clusters
  PROVE  /\ Events(c) \in Seq(PastEvent) /\ ec[c].queue \in Seq(PastEvent)
         /\ At(c) \in {"idle", "fetch", "put"}
         /\ At(c) = "idle" => Events(c) = ec[c].queue
         /\ At(c) # "idle" => /\ Events(c) = << EventOf(c) >> \o ec[c].queue
                              /\ EventOf(c) \in PastEvent /\ EventOf(c).type = "ADD"
                              /\ Events(c) # << >> /\ Events(c)[1] = EventOf(c)
                              /\ ec[c].event = << EventOf(c) >>
  <1>1. ec[c] \in EC /\ Sound(c, ec[c])
    BY DEF Typed, EcFits
  <1>2. /\ ec[c].queue \in Seq(PastEvent) /\ ec[c].event \in Seq(PastEvent)
        /\ ec[c].at \in {"idle", "fetch", "put"}
    BY <1>1 DEF EC
  <1>3. CASE ec[c].at = "idle"
    BY <1>1, <1>2, <1>3, ConcatEmptySeq DEF Sound, Events, At
  <1>4. CASE ec[c].at # "idle"
    <2>1. /\ ec[c].event # << >> /\ ec[c].event = << EventOf(c) >> /\ EventOf(c).type = "ADD"
      BY <1>1, <1>4 DEF Sound, EventOf
    <2>2. EventOf(c) \in PastEvent
      <3>1. Len(ec[c].event) = 1
        BY <2>1
      <3> QED
        BY <1>2, <3>1, ElementOfSeq DEF EventOf
    <2>3. Events(c) = << EventOf(c) >> \o ec[c].queue
      BY <2>1 DEF Events
    <2> QED
      BY <1>2, <1>4, <2>1, <2>2, <2>3, ConsFacts DEF At
  <1> QED
    BY <1>3, <1>4

-----------------------------------------------------------------------------
(* The types are kept.  What was known stays known.                        *)
LEMMA PastGrows ==
  ASSUME StoreFits, changes' \in {changes, changes + 1}
  PROVE  /\ Past \subseteq Past' /\ PastService \subseteq PastService'
         /\ PastEndpoints \subseteq PastEndpoints' /\ PastEvent \subseteq PastEvent'
         /\ EC \subseteq EC' /\ PC \subseteq PC'
  <1>1. changes \in Nat
    BY DEF StoreFits
  <1>2. Past \subseteq Past'
    BY <1>1 DEF Past
  <1>3. /\ PastService \subseteq PastService' /\ PastEndpoints \subseteq PastEndpoints'
        /\ PastEvent \subseteq PastEvent'
    BY <1>2 DEF PastService, PastEndpoints, PastEvent
  <1>4. PastWrite \subseteq PastWrite'
    BY <1>3 DEF PastWrite
  <1>5. Seq(PastEvent) \subseteq Seq(PastEvent') /\ Seq(PastWrite) \subseteq Seq(PastWrite')
    BY <1>3, <1>4, SeqMonotonic
  <1>6. EC \subseteq EC'
    BY <1>3, <1>5 DEF EC
  <1>7. PC \subseteq PC'
    BY <1>5 DEF PC
  <1> QED
    BY <1>2, <1>3, <1>6, <1>7

LEMMA PcStays ==
  ASSUME StoreFits, PcFits, changes' \in {changes, changes + 1}, pc' = pc
  PROVE  PcFits'
  BY PastGrows DEF PcFits

LEMMA EcStays ==
  ASSUME StoreFits, EcFits, changes' \in {changes, changes + 1}, ec' = ec,
         endpoints # None => endpoints' # None
  PROVE  EcFits' /\ \A c \in Clusters : At(c)' = At(c) /\ Events(c)' = Events(c)
  BY PastGrows DEF EcFits, At, Events

\* A controller goes on, from one record to the next.
LEMMA EcMoves ==
  ASSUME EcFits, UNCHANGED changes, NEW c \in Clusters, NEW r \in EC, Sound(c, r),
         ec' = [ec EXCEPT ![c] = r],
         IF c = Primary THEN r.at = "put" => endpoints' # None
         ELSE endpoints # None => endpoints' # None
  PROVE  /\ EcFits'
         /\ ec'[c] = r
         /\ \A d \in Clusters : d # c => ec'[d] = ec[d]
  <1>1. ec'[c] = r /\ \A d \in Clusters : d # c => ec'[d] = ec[d]
    BY DEF EcFits
  <1>2. EC' = EC
    BY DEF EC, PastEvent, PastEndpoints, Past
  <1>3. \A d \in Clusters : Sound(d, ec'[d])
    BY <1>1 DEF EcFits
  <1>4. ec' \in [Clusters -> EC]
    BY DEF EcFits
  <1>5. Primary \in Clusters
    BY ServiceMeshAssumption
  <1> QED
    BY <1>1, <1>2, <1>3, <1>4, <1>5 DEF EcFits

LEMMA PcMoves ==
  ASSUME PcFits, UNCHANGED changes, NEW c \in Clusters, NEW r \in PC, ProxySound(c, r),
         pc' = [pc EXCEPT ![c] = r]
  PROVE  /\ PcFits'
         /\ pc'[c] = r
         /\ \A d \in Clusters : d # c => pc'[d] = pc[d]
  <1>1. pc'[c] = r /\ \A d \in Clusters : d # c => pc'[d] = pc[d]
    BY DEF PcFits
  <1>2. PC' = PC
    BY DEF PC, PastWrite, PastEndpoints, Past
  <1>3. \A d \in Clusters : ProxySound(d, pc'[d])
    BY <1>1 DEF PcFits
  <1>4. pc' \in [Clusters -> PC]
    BY DEF PcFits
  <1> QED
    BY <1>1, <1>2, <1>3, <1>4 DEF PcFits

-----------------------------------------------------------------------------
(* Writes of the Endpoints.  w is queued for the proxy controllers of T.   *)
Tells(pcs, T, w) ==
  pc' = [c \in Clusters |-> IF c \in T THEN [pcs[c] EXCEPT !.queue = Append(@, w)] ELSE pcs[c]]
Told(pcs, T, w) ==
  \A c \in Clusters :
    /\ pc'[c].put = pcs[c].put /\ pc'[c].peers = pcs[c].peers
    /\ pc'[c].queue = IF c \in T THEN Append(pcs[c].queue, w) ELSE pcs[c].queue
AreProxies(pcs) == pcs \in [Clusters -> PC] /\ \A c \in Clusters : ProxySound(c, pcs[c])

LEMMA ProxiesTold ==
  ASSUME UNCHANGED changes, NEW w \in PastWrite, NEW T, NEW pcs, AreProxies(pcs), Tells(pcs, T, w)
  PROVE  PcFits' /\ Told(pcs, T, w)
  <1>1. PC' = PC
    BY DEF PC, PastWrite, PastEndpoints, Past
  <1>2. ASSUME NEW c \in Clusters
        PROVE  /\ pc'[c] \in PC /\ pc'[c].put = pcs[c].put /\ pc'[c].peers = pcs[c].peers
               /\ pc'[c].queue = IF c \in T THEN Append(pcs[c].queue, w) ELSE pcs[c].queue
    <2>1. pcs[c] \in PC
      BY DEF AreProxies
    <2>2. Append(pcs[c].queue, w) \in Seq(PastWrite)
      BY <2>1, AppendProperties DEF PC
    <2> DEFINE r == [pcs[c] EXCEPT !.queue = Append(@, w)]
    <2>3. /\ r \in PC /\ r.put = pcs[c].put /\ r.peers = pcs[c].peers
          /\ r.queue = Append(pcs[c].queue, w)
      BY <2>1, <2>2 DEF PC
    <2>4. pc'[c] = IF c \in T THEN r ELSE pcs[c]
      BY DEF Tells
    <2> HIDE DEF r
    <2> QED
      BY <2>1, <2>3, <2>4
  <1>3. pc' \in [Clusters -> PC]
    <2>1. \A c \in Clusters : pc'[c] \in PC
      BY <1>2
    <2> QED
      BY <2>1 DEF Tells
  <1>4. \A c \in Clusters : ProxySound(c, pc'[c])
    BY <1>2 DEF ProxySound, AreProxies
  <1> QED
    BY <1>1, <1>2, <1>3, <1>4 DEF PcFits, Told

Deletion == [type |-> "DELETE", obj |-> endpoints]

LEMMA EndpointsDeleted ==
  ASSUME StoreFits, PcFits, UNCHANGED changes, endpoints # None, DeleteEndpoints
  PROVE  PcFits' /\ endpoints' = None /\ Told(pc, Clusters, Deletion)
  <1>1. Deletion \in PastWrite
    BY DEF StoreFits, PastWrite, Deletion
  <1>2. Tells(pc, Clusters, Deletion)
    BY DEF DeleteEndpoints, Tells, Deletion
  <1>3. AreProxies(pc)
    BY DEF PcFits, AreProxies
  <1> QED
    BY <1>1, <1>2, <1>3, ProxiesTold DEF DeleteEndpoints

Put(obj) == [type |-> "UPDATE", obj |-> obj]
Wanting(new) == {c \in Clusters : ProxyWants(c, endpoints, new)}

\* A put, by an endpoints controller or a proxy controller.
LEMMA EndpointsPut ==
  ASSUME StoreFits, UNCHANGED changes, NEW copy \in PastEndpoints, NEW base,
         NEW pcs, AreProxies(pcs), PutEndpoints(copy, base, pcs)
  PROVE  /\ PcFits' /\ endpoints' = copy /\ Told(pcs, Wanting(copy), Put(copy))
         /\ Clean' => endpoints = base
         /\ disturbed' \subseteq disturbed \cup {"overwritten"} /\ disturbed \subseteq disturbed'
  <1>1. Put(copy) \in PastWrite
    BY DEF PastWrite, Put
  <1>2. Tells(pcs, Wanting(copy), Put(copy))
    BY DEF PutEndpoints, Tells, Wanting, Put
  <1>3. PcFits' /\ Told(pcs, Wanting(copy), Put(copy))
    BY <1>1, <1>2, ProxiesTold
  <1> QED
    BY <1>3 DEF PutEndpoints, Disturb, If, Clean

-----------------------------------------------------------------------------
(* What the steps do to the events before the endpoints controllers.       *)
EventsStay == \A c \in Clusters : At(c)' = At(c) /\ Events(c)' = Events(c)
Announced(e) == \A c \in Clusters : At(c)' = At(c) /\ Events(c)' = Append(Events(c), e)
OthersRest(c) == \A d \in Clusters : d # c => At(d)' = At(d) /\ Events(d)' = Events(d)
Goes(c, at) == OthersRest(c) /\ At(c)' = at /\ Events(c)' = Events(c)
Finishes(c) == OthersRest(c) /\ At(c)' = "idle" /\ Events(c)' = Tail(Events(c))

LEMMA StoreStays ==
  ASSUME StoreFits, UNCHANGED <<service, sc, changes>>, faults' \in 0 .. MaxFaults,
         endpoints' \in PastEndpoints \cup {None},
         k8' \subseteq Clusters, exports' \subseteq Others, imports' \in [Others -> Nat],
         \A c \in Others : imports'[c] > 0 => Pods[c] > 0, disturbed' \subseteq Disturbances
  PROVE  StoreFits'
  BY DEF StoreFits, PastService, PastEndpoints, Past

LEMMA FailFacts ==
  ASSUME StoreFits, Fail
  PROVE  faults' \in 0 .. MaxFaults /\ disturbed' \subseteq Disturbances /\ ~Clean'
  <1>1. faults \in Nat /\ MaxFaults \in Nat /\ faults < MaxFaults /\ faults' = faults + 1
    BY ServiceMeshAssumption DEF StoreFits, Fail
  <1>2. disturbed' = disturbed \cup {"failed"} /\ "failed" \in Disturbances
    BY DEF Fail, Disturb, Disturbances
  <1>3. disturbed' \subseteq Disturbances
    BY <1>2 DEF StoreFits
  <1> QED
    BY <1>1, <1>2, <1>3 DEF Clean

LEMMA DisturbFacts ==
  ASSUME StoreFits, NEW kinds \in SUBSET Disturbances, Disturb(kinds)
  PROVE  disturbed' \subseteq Disturbances /\ disturbed \subseteq disturbed' /\ (Clean' => Clean)
  BY DEF StoreFits, Disturb, Clean

LEMMA InitTyped == Init => Typed /\ \A c \in Clusters : At(c) = "idle" /\ Events(c) = << >>
  <1> SUFFICES ASSUME Init PROVE Typed /\ \A c \in Clusters : At(c) = "idle" /\ Events(c) = << >>
    OBVIOUS
  <1>1. StoreFits
    BY ServiceMeshAssumption DEF Init, StoreFits, Disturbances
  <1>2. IdleEC \in EC /\ IdlePC \in PC
    BY DEF IdleEC, IdlePC, EC, PC
  <1>3. EcFits
    BY <1>2, ServiceMeshAssumption DEF Init, EcFits, Sound, IdleEC
  <1>4. PcFits
    BY <1>2 DEF Init, PcFits, ProxySound, IdlePC
  <1>5. \A c \in Clusters : At(c) = "idle" /\ Events(c) = << >>
    BY DEF Init, At, Events, IdleEC
  <1> QED
    BY <1>1, <1>3, <1>4, <1>5 DEF Typed

\* The users' changes are told to all.
LEMMA ToldToAll ==
  ASSUME Typed, changes' = changes + 1, NEW type \in {"ADD", "DELETE"}, NEW obj,
         obj.gen \in Past', Tell(type, obj), UNCHANGED endpoints
  PROVE  EcFits' /\ Announced([type |-> type, gen |-> obj.gen])
  <1> DEFINE e == [type |-> type, gen |-> obj.gen]
  <1>1. StoreFits /\ EcFits /\ EC \subseteq EC' /\ PastEvent \subseteq PastEvent'
    BY PastGrows DEF Typed
  <1>2. e \in PastEvent'
    BY DEF PastEvent
  <1>3. ec' = [c \in Clusters |-> [ec[c] EXCEPT !.queue = Append(@, e)]]
    BY DEF Tell
  <1> HIDE DEF e
  <1>4. ASSUME NEW c \in Clusters
        PROVE  /\ ec'[c] \in EC' /\ Sound(c, ec'[c]) /\ ec'[c].at = ec[c].at
               /\ Events(c)' = Append(Events(c), e)
    <2>1. ec[c] \in EC /\ ec[c] \in EC' /\ Sound(c, ec[c])
      BY <1>1 DEF EcFits
    <2>2. /\ ec[c].queue \in Seq(PastEvent) /\ ec[c].event \in Seq(PastEvent)
          /\ ec[c].queue \in Seq(PastEvent')
      BY <2>1 DEF EC
    <2>3. Append(ec[c].queue, e) \in Seq(PastEvent')
      BY <1>2, <2>2, AppendProperties
    <2> DEFINE r == [ec[c] EXCEPT !.queue = Append(@, e)]
    <2>4. /\ r \in EC' /\ r.at = ec[c].at /\ r.event = ec[c].event
          /\ r.queue = Append(ec[c].queue, e) /\ r.base = ec[c].base /\ r.copy = ec[c].copy
      BY <2>1, <2>3 DEF EC
    <2>5. ec'[c] = r
      BY <1>3
    <2> HIDE DEF r
    <2>6. Sound(c, r)
      BY <2>1, <2>4 DEF Sound
    <2>7. Events(c)' = Append(Events(c), e)
      <3>1. Events(c)' = ec[c].event \o Append(ec[c].queue, e)
        BY <2>4, <2>5 DEF Events
      <3>2. CASE At(c) = "idle"
        <4>1. ec[c].event = << >>
          BY <2>1, <3>2 DEF Sound, At
        <4> QED
          BY <1>2, <2>2, <2>3, <3>1, <4>1, ConcatEmptySeq DEF Events
      <3>3. CASE At(c) # "idle"
        <4>1. ec[c].event = << EventOf(c) >> /\ EventOf(c) \in PastEvent'
          BY <1>1, <3>3, EventsFacts
        <4> DEFINE x == EventOf(c)
                   q == ec[c].queue
        <4>2. x \in PastEvent' /\ q \in Seq(PastEvent')
          BY <2>2, <4>1
        <4>3. Events(c) = << x >> \o q /\ Events(c)' = << x >> \o Append(q, e)
          BY <3>1, <4>1 DEF Events
        <4> HIDE DEF x, q
        <4> QED
          BY <1>2, <4>2, <4>3, ConsTail
      <3> QED
        BY <3>2, <3>3
    <2> QED
      BY <2>4, <2>5, <2>6, <2>7
  <1>5. ec' \in [Clusters -> EC']
    BY <1>3, <1>4
  <1>6. Primary \in Clusters
    BY ServiceMeshAssumption
  <1> QED
    BY <1>1, <1>4, <1>5, <1>6 DEF EcFits, Announced, At, e

LEMMA UserCreatesEffect ==
  ASSUME Typed, UserCreates
  PROVE  /\ Typed' /\ service' # None /\ service'.gen = changes'
         /\ Announced([type |-> "ADD", gen |-> service'.gen])
  <1>1. /\ StoreFits /\ PcFits /\ changes' = changes + 1 /\ changes \in Nat
        /\ changes' \in 0 .. MaxChanges
    BY ServiceMeshAssumption DEF Typed, UserCreates, User, StoreFits
  <1>2. service'.gen = changes' /\ service' \in PastService' /\ service' # None
    BY <1>1 DEF UserCreates, PastService, Past, None
  <1>3. EcFits' /\ Announced([type |-> "ADD", gen |-> service'.gen])
    <2>1. service'.gen \in Past' /\ Tell("ADD", service') /\ UNCHANGED endpoints
      BY <1>2 DEF UserCreates, PastService
    <2> QED
      BY <1>1, <2>1, ToldToAll
  <1>4. StoreFits' /\ PcFits'
    BY <1>1, <1>2, PastGrows, PcStays DEF UserCreates, StoreFits, world
  <1> QED
    BY <1>2, <1>3, <1>4 DEF Typed

LEMMA UserDeletesEffect ==
  ASSUME Typed, UserDeletes
  PROVE  Typed' /\ Announced([type |-> "DELETE", gen |-> service.gen])
  <1>1. /\ StoreFits /\ PcFits /\ changes' = changes + 1 /\ changes \in Nat
        /\ changes' \in 0 .. MaxChanges
    BY ServiceMeshAssumption DEF Typed, UserDeletes, User, StoreFits
  <1>2. EcFits' /\ Announced([type |-> "DELETE", gen |-> service.gen])
    <2>1. service.gen \in Past
      BY <1>1 DEF UserDeletes, StoreFits, PastService
    <2>2. service.gen \in Past' /\ Tell("DELETE", service) /\ UNCHANGED endpoints
      BY <1>1, <2>1, PastGrows DEF UserDeletes
    <2> QED
      BY <1>1, <2>2, ToldToAll
  <1>3. StoreFits' /\ PcFits'
    BY <1>1, PastGrows, PcStays DEF UserDeletes, StoreFits, world, None
  <1> QED
    BY <1>2, <1>3 DEF Typed

\* The steps of an endpoints controller.
LEMMA EcTypes ==
  ASSUME Typed, NEW c \in Clusters
  PROVE  /\ StoreFits /\ EcFits /\ PcFits /\ ec[c] \in EC /\ Sound(c, ec[c])
         /\ ec[c].queue \in Seq(PastEvent) /\ ec[c].event \in Seq(PastEvent)
         /\ ec[c].base \in PastEndpoints \cup {None} /\ ec[c].copy \in PastEndpoints \cup {None}
         /\ pc[c] \in PC /\ pc[c].queue \in Seq(PastWrite) /\ pc[c].put \in Seq(PastWrite)
         /\ pc[c].peers \subseteq Others /\ ProxySound(c, pc[c])
  BY DEF Typed, EcFits, PcFits, EC, PC

LEMMA TakeServiceEventEffect ==
  ASSUME Typed, NEW c \in Clusters, TakeServiceEvent(c)
  PROVE  /\ Typed' /\ At(c) = "idle" /\ Goes(c, "fetch")
         /\ Events(c) # << >> /\ Events(c)[1].type = "ADD"
  <1>1. /\ ec[c].queue # << >> /\ ec[c].at = "idle" /\ Events(c) = ec[c].queue
        /\ Head(ec[c].queue).type # "DELETE" /\ UNCHANGED <<changes, endpoints>>
    BY EventsFacts DEF TakeServiceEvent, At
  <1> DEFINE e == Head(ec[c].queue)
             u == Tail(ec[c].queue)
             r == [ec[c] EXCEPT !.queue = u, !.at = "fetch", !.event = << e >>]
  <1>2. e \in PastEvent /\ u \in Seq(PastEvent) /\ e = ec[c].queue[1] /\ << e >> \o u = ec[c].queue
    BY <1>1, EcTypes, HeadAndTail
  <1>3. e.type = "ADD"
    BY <1>1, <1>2 DEF PastEvent
  <1>4. ec' = [ec EXCEPT ![c] = r]
    BY DEF TakeServiceEvent
  <1>5. << e >> # << >> /\ << e >>[1] = e /\ << e >> \in Seq(PastEvent)
    BY <1>2
  <1> HIDE DEF u, e
  <1>6. r \in EC /\ r.queue = u /\ r.at = "fetch" /\ r.event = << e >>
    BY <1>2, <1>5, EcTypes DEF EC
  <1> HIDE DEF r
  <1>7. Sound(c, r)
    BY <1>3, <1>5, <1>6 DEF Sound
  <1>8. EcFits' /\ ec'[c] = r /\ \A d \in Clusters : d # c => ec'[d] = ec[d]
    BY <1>1, <1>4, <1>6, <1>7, EcTypes, EcMoves
  <1>9. StoreFits' /\ PcFits'
    BY EcTypes, StoreStays, PcStays DEF TakeServiceEvent, world, StoreFits
  <1> QED
    BY <1>1, <1>2, <1>3, <1>6, <1>8, <1>9 DEF Typed, At, Events, OthersRest, Goes

LEMMA TakeServiceDeleteEffect ==
  ASSUME Typed, NEW c \in Clusters, TakeServiceDelete(c)
  PROVE  /\ Typed' /\ At(c) = "idle" /\ Finishes(c)
         /\ Events(c) # << >> /\ Events(c)[1].type = "DELETE"
         /\ IF c = Primary /\ endpoints # None
            THEN endpoints' = None /\ Told(pc, Clusters, Deletion)
            ELSE UNCHANGED <<endpoints, pc>>
  <1>1. /\ ec[c].queue # << >> /\ ec[c].at = "idle" /\ Events(c) = ec[c].queue
        /\ Head(ec[c].queue).type = "DELETE" /\ UNCHANGED changes
    BY EventsFacts DEF TakeServiceDelete, At
  <1> DEFINE u == Tail(ec[c].queue)
             r == [ec[c] EXCEPT !.queue = u]
  <1>2. u \in Seq(PastEvent) /\ Events(c)[1].type = "DELETE" /\ ec[c].event = << >>
    BY <1>1, EcTypes, HeadAndTail DEF Sound
  <1>3. ec' = [ec EXCEPT ![c] = r]
    BY DEF TakeServiceDelete
  <1> HIDE DEF u
  <1>4. /\ r \in EC /\ r.queue = u /\ r.at = "idle" /\ r.event = << >>
    BY <1>1, <1>2, EcTypes DEF EC
  <1> HIDE DEF r
  <1>5. Sound(c, r)
    BY <1>4 DEF Sound
  <1>6. IF c = Primary THEN r.at = "put" => endpoints' # None
        ELSE endpoints # None => endpoints' # None
    BY <1>4 DEF TakeServiceDelete
  <1>7. EcFits' /\ ec'[c] = r /\ \A d \in Clusters : d # c => ec'[d] = ec[d]
    BY <1>1, <1>3, <1>4, <1>5, <1>6, EcTypes, EcMoves
  <1>8. /\ PcFits'
        /\ IF c = Primary /\ endpoints # None
           THEN endpoints' = None /\ Told(pc, Clusters, Deletion)
           ELSE UNCHANGED <<endpoints, pc>>
    <2>1. CASE c = Primary /\ endpoints # None
      <3>1. DeleteEndpoints
        BY <2>1 DEF TakeServiceDelete
      <3>2. PcFits' /\ endpoints' = None /\ Told(pc, Clusters, Deletion)
        BY <1>1, <2>1, <3>1, EcTypes, EndpointsDeleted
      <3> QED
        BY <2>1, <3>2
    <2>2. CASE ~(c = Primary /\ endpoints # None)
      <3>1. UNCHANGED <<endpoints, pc>>
        BY <2>2 DEF TakeServiceDelete
      <3> QED
        BY <1>1, <2>2, <3>1, EcTypes, PcStays
    <2> QED
      BY <2>1, <2>2
  <1>10. StoreFits'
    <2>1. endpoints' \in PastEndpoints \cup {None}
      BY <1>8, EcTypes DEF StoreFits
    <2>2. /\ faults' \in 0 .. MaxFaults /\ disturbed' \subseteq Disturbances
          /\ k8' \subseteq Clusters
      <3>1. StoreFits /\ {"late"} \in SUBSET Disturbances
        BY EcTypes DEF Disturbances
      <3>2. /\ k8' = k8 \/ k8' = k8 \ {c}
            /\ \/ UNCHANGED <<faults, disturbed>>
               \/ Fail
               \/ UNCHANGED faults /\ Disturb({"late"})
        BY DEF TakeServiceDelete, DeleteService
      <3> QED
        BY <3>1, <3>2, FailFacts, DisturbFacts DEF StoreFits
    <2> QED
      BY <2>1, <2>2, EcTypes, StoreStays DEF TakeServiceDelete, StoreFits
  <1>11. Events(c)' = u
    BY <1>2, <1>4, <1>7, ConcatEmptySeq DEF Events
  <1> QED
    BY <1>1, <1>2, <1>4, <1>7, <1>8, <1>10, <1>11 DEF Typed, At, Events, OthersRest, Finishes, u

LEMMA WithEntryIsPast ==
  ASSUME StoreFits, NEW c \in Clusters, NEW obj \in PastEndpoints
  PROVE  WithEntry(c, obj) \in PastEndpoints
  <1> DEFINE w == WithEntry(c, obj)
  <1>1. obj \in Endpoints /\ obj.gen \in Past /\ obj.of \in Counts
    BY PastIsKnown DEF PastEndpoints
  <1>2. /\ w \in Endpoints /\ w.gen \in Past /\ w.of[c].num = Pods[c]
        /\ \A d \in Clusters : d # c => w.of[d] = obj.of[d]
    BY <1>1, WithEntryFacts
  <1> HIDE DEF w
  <1>3. \A d \in Clusters : w.of[d].num \in {0, Pods[d]}
    BY <1>1, <1>2 DEF Counts
  <1>4. w.of \in Counts
    BY <1>2, <1>3 DEF Endpoints, Counts
  <1>5. w \in PastEndpoints
    BY <1>2, <1>4 DEF Endpoints, PastEndpoints
  <1> QED
    BY <1>5 DEF w

LEMMA NewIsPast ==
  ASSUME Typed, NEW c \in Clusters, At(c) = "fetch", Create(c)
  PROVE  /\ endpoints' \in PastEndpoints /\ endpoints' # None /\ endpoints = None
         /\ endpoints'.gen = Events(c)[1].gen /\ \A d \in Clusters : endpoints'.of[d] = NoEntry
  <1> DEFINE g == EventOf(c).gen
             of == [d \in Clusters |-> NoEntry]
             obj == [gen |-> g, of |-> of]
  <1>1. EventOf(c) \in PastEvent /\ Events(c)[1] = EventOf(c) /\ endpoints' = obj /\ endpoints = None
    BY EventsFacts DEF Create
  <1>2. g \in Past
    BY <1>1 DEF PastEvent
  <1>3. of \in Counts /\ \A d \in Clusters : of[d] = NoEntry
    BY DEF Counts, Entry, NoEntry
  <1> HIDE DEF g, of
  <1>4. obj \in PastEndpoints /\ obj.gen = g /\ obj.of = of
    BY <1>2, <1>3 DEF PastEndpoints
  <1> HIDE DEF obj
  <1>5. obj # None
    BY <1>4, EcTypes, PastIsKnown
  <1> QED
    BY <1>1, <1>3, <1>4, <1>5 DEF g

\* What is fetched, and with whose entry it will be put.
LEMMA FetchedEffect ==
  ASSUME Typed, NEW c \in Clusters, At(c) = "fetch", NEW obj \in PastEndpoints,
         UNCHANGED changes, Fetched(c, obj), endpoints' # None
  PROVE  /\ EcFits' /\ Goes(c, "put")
         /\ ec'[c].base = obj /\ ec'[c].copy = WithEntry(c, obj)
         /\ \A d \in Clusters : d # c => ec'[d] = ec[d]
  <1> DEFINE w == WithEntry(c, obj)
             r == [ec[c] EXCEPT !.at = "put", !.base = obj, !.copy = w]
  <1>1. w \in PastEndpoints
    BY EcTypes, WithEntryIsPast
  <1>2. ec' = [ec EXCEPT ![c] = r]
    BY DEF Fetched
  <1>3. obj # None /\ ec[c].at = "fetch"
    BY EcTypes, PastIsKnown DEF At
  <1> HIDE DEF w
  <1>4. /\ r \in EC /\ r.queue = ec[c].queue /\ r.at = "put" /\ r.event = ec[c].event
        /\ r.base = obj /\ r.copy = w
    BY <1>1, EcTypes DEF EC
  <1> HIDE DEF r
  <1>5. Sound(c, r)
    BY <1>3, <1>4, EcTypes DEF Sound, w
  <1>6. EcFits' /\ ec'[c] = r /\ \A d \in Clusters : d # c => ec'[d] = ec[d]
    BY <1>2, <1>4, <1>5, EcTypes, EcMoves
  <1> QED
    BY <1>4, <1>6 DEF At, Events, OthersRest, Goes, w

LEMMA CreateEndpointsEffect ==
  ASSUME Typed, NEW c \in Clusters, CreateEndpoints(c)
  PROVE  /\ Typed' /\ c = Primary /\ At(c) = "fetch" /\ Goes(c, "put")
         /\ endpoints = None /\ endpoints' # None
         /\ endpoints'.gen = Events(c)[1].gen /\ ec'[c].base = endpoints'
         /\ \A d \in Clusters : endpoints'.of[d] = NoEntry
         /\ \A d \in Clusters : d # c => ec'[d] = ec[d]
  <1>1. At(c) = "fetch" /\ c = Primary /\ Create(c) /\ UNCHANGED changes /\ Fetched(c, endpoints')
    BY DEF CreateEndpoints, Create, At
  <1>2. /\ endpoints' \in PastEndpoints /\ endpoints' # None /\ endpoints = None
        /\ endpoints'.gen = Events(c)[1].gen /\ \A d \in Clusters : endpoints'.of[d] = NoEntry
    BY <1>1, NewIsPast
  <1>3. EcFits' /\ Goes(c, "put") /\ ec'[c].base = endpoints' /\ \A d \in Clusters : d # c => ec'[d] = ec[d]
    <2> DEFINE obj == endpoints'
    <2>1. obj \in PastEndpoints /\ Fetched(c, obj)
      BY <1>1, <1>2
    <2> HIDE DEF obj
    <2>2. EcFits' /\ Goes(c, "put") /\ ec'[c].base = obj /\ \A d \in Clusters : d # c => ec'[d] = ec[d]
      BY <1>1, <1>2, <2>1, FetchedEffect
    <2> QED
      BY <2>2 DEF obj
  <1>4. k8' \subseteq Clusters
    BY EcTypes DEF CreateEndpoints, K8After, StoreFits
  <1>5. StoreFits' /\ PcFits'
    BY <1>1, <1>2, <1>4, EcTypes, StoreStays, PcStays DEF CreateEndpoints, StoreFits
  <1> QED
    BY <1>1, <1>2, <1>3, <1>5 DEF Typed

LEMMA FetchEndpointsEffect ==
  ASSUME Typed, NEW c \in Clusters, FetchEndpoints(c)
  PROVE  /\ Typed' /\ At(c) = "fetch" /\ Goes(c, "put") /\ endpoints # None
         /\ ec'[c].base = endpoints
         /\ Clean' => Clean /\ endpoints.gen = Events(c)[1].gen
         /\ \A d \in Clusters : d # c => ec'[d] = ec[d]
  <1>1. /\ At(c) = "fetch" /\ endpoints # None /\ UNCHANGED <<endpoints, changes>>
        /\ Fetched(c, endpoints)
    BY DEF FetchEndpoints, At
  <1>2. endpoints \in PastEndpoints
    BY <1>1, EcTypes DEF StoreFits
  <1>3. /\ EcFits' /\ Goes(c, "put") /\ ec'[c].base = endpoints
        /\ \A d \in Clusters : d # c => ec'[d] = ec[d]
    BY <1>1, <1>2, FetchedEffect
  <1>4. k8' \subseteq Clusters
    BY EcTypes DEF FetchEndpoints, K8After, StoreFits
  <1>5. StoreFits' /\ PcFits'
    <2>1. StoreFits /\ If(endpoints.gen # EventOf(c).gen, "crossed") \in SUBSET Disturbances
      BY EcTypes DEF If, Disturbances
    <2>2. disturbed' \subseteq Disturbances
      BY <2>1, DisturbFacts DEF FetchEndpoints
    <2> QED
      BY <1>1, <1>2, <1>4, <2>1, <2>2, EcTypes, StoreStays, PcStays DEF FetchEndpoints, StoreFits
  <1>6. Events(c)[1] = EventOf(c)
    BY <1>1, EventsFacts
  <1> QED
    BY <1>1, <1>3, <1>5, <1>6 DEF Typed, FetchEndpoints, Disturb, If, Clean

LEMMA IdleWith ==
  ASSUME NEW q \in Seq(PastEvent)
  PROVE  LET r == [IdleEC EXCEPT !.queue = q]
         IN  r \in EC /\ r.at = "idle" /\ r.event = << >> /\ r.queue = q
  <1>1. IdleEC \in EC /\ IdleEC.at = "idle" /\ IdleEC.event = << >>
    BY DEF IdleEC, EC
  <1> QED
    BY <1>1 DEF EC

LEMMA LosesEvent ==
  ASSUME Typed, NEW c \in Clusters, UNCHANGED changes, endpoints # None => endpoints' # None,
         ec' = [ec EXCEPT ![c] = [IdleEC EXCEPT !.queue = ec[c].queue]]
  PROVE  EcFits'
  <1> DEFINE r == [IdleEC EXCEPT !.queue = ec[c].queue]
  <1>1. r \in EC /\ r.at = "idle" /\ r.event = << >> /\ ec' = [ec EXCEPT ![c] = r]
    BY EcTypes, IdleWith
  <1> HIDE DEF r
  <1>2. Sound(c, r)
    BY <1>1 DEF Sound
  <1> QED
    BY <1>1, <1>2, EcTypes, EcMoves

LEMMA FetchGivesUpEffect ==
  ASSUME Typed, NEW c \in Clusters, FetchGivesUp(c)
  PROVE  Typed' /\ ~Clean'
  <1>1. EcFits'
    BY LosesEvent DEF FetchGivesUp
  <1>2. {"late"} \in SUBSET Disturbances /\ Disturb({"late"}) /\ StoreFits
    BY EcTypes DEF FetchGivesUp, Disturbances
  <1>3. StoreFits' /\ PcFits'
    BY <1>2, EcTypes, StoreStays, PcStays, DisturbFacts DEF FetchGivesUp, world, StoreFits
  <1>4. ~Clean'
    BY <1>2 DEF Disturb, Clean
  <1> QED
    BY <1>1, <1>3, <1>4 DEF Typed

LEMMA KubernetesRaisesEffect ==
  ASSUME Typed, NEW c \in Clusters, KubernetesRaises(c)
  PROVE  Typed' /\ ~Clean'
  <1>1. At(c) = "fetch" /\ Fail /\ StoreFits
    BY EcTypes DEF KubernetesRaises, At
  <1>2. faults' \in 0 .. MaxFaults /\ disturbed' \subseteq Disturbances /\ ~Clean'
    BY <1>1, FailFacts
  <1>3. endpoints' \in PastEndpoints /\ k8' \subseteq Clusters /\ (endpoints # None => endpoints' # None)
    <2>1. CASE Create(c)
      BY <1>1, <2>1, NewIsPast DEF KubernetesRaises, Create, StoreFits
    <2>2. CASE ~Create(c)
      BY <1>1, <2>2 DEF KubernetesRaises, StoreFits
    <2> QED
      BY <2>1, <2>2
  <1>4. EcFits'
    BY <1>3, LosesEvent DEF KubernetesRaises
  <1>5. StoreFits' /\ PcFits'
    BY <1>1, <1>2, <1>3, EcTypes, StoreStays, PcStays DEF KubernetesRaises, StoreFits
  <1> QED
    BY <1>2, <1>4, <1>5 DEF Typed

\* An update that is refused puts the event behind all others.
LEMMA PutFetchedEffect ==
  ASSUME Typed, NEW c \in Clusters, PutFetched(c)
  PROVE  /\ Typed' /\ At(c) = "put" /\ ec[c].base \in PastEndpoints
         /\ \A d \in Clusters : d # c => ec'[d] = ec[d]
         /\ At(c)' = "idle" /\ OthersRest(c)
         /\ IF endpoints # None
            THEN /\ Finishes(c) /\ endpoints' = WithEntry(c, ec[c].base)
                 /\ Told(pc, Wanting(endpoints'), Put(endpoints'))
                 /\ Clean' => Clean /\ endpoints = ec[c].base
            ELSE Clean' => /\ Events(c)' = Append(Tail(Events(c)), Events(c)[1])
                           /\ c # Primary /\ UNCHANGED <<endpoints, disturbed>>
                           /\ pc' = pc
  <1> DEFINE q == ec[c].queue
             e == EventOf(c)
             b == ec[c].base
             copy == ec[c].copy
  <1>1. /\ ec[c].at = "put" /\ At(c) = "put" /\ UNCHANGED changes
        /\ Events(c) = << e >> \o q /\ e \in PastEvent /\ e = Events(c)[1] /\ q \in Seq(PastEvent)
    BY EventsFacts DEF PutFetched, At
  <1>2. b \in PastEndpoints /\ copy = WithEntry(c, b)
    BY <1>1, EcTypes DEF Sound
  <1>3. copy \in PastEndpoints /\ copy # None
    <2>1. b # None
      BY <1>2, EcTypes, PastIsKnown
    <2>2. b \in Endpoints
      BY <1>2, EcTypes, PastIsKnown
    <2>3. copy.gen = b.gen
      BY <1>2, <2>2, WithEntryFacts
    <2>4. b.gen \in Past /\ 0 \notin Past
      BY <1>2, EcTypes, PastIsKnown DEF PastEndpoints
    <2>5. copy # None
      BY <2>3, <2>4 DEF None
    <2> QED
      BY <2>5, EcTypes
  <1>4. Tail(Events(c)) = q
    <2> HIDE DEF q, e
    <2> QED
      BY <1>1, ConsTail
  <1>5. c = Primary => endpoints # None
    BY <1>1, EcTypes DEF EcFits
  <1> HIDE DEF q, e, b, copy
  <1>6. ASSUME NEW r, r \in EC, r.at = "idle", r.event = << >>, ec' = [ec EXCEPT ![c] = r],
               endpoints # None => endpoints' # None
        PROVE  /\ EcFits' /\ At(c)' = "idle" /\ OthersRest(c) /\ Events(c)' = r.queue
               /\ \A d \in Clusters : d # c => ec'[d] = ec[d]
    <2>1. Sound(c, r)
      BY <1>6 DEF Sound
    <2>2. IF c = Primary THEN r.at = "put" => endpoints' # None
          ELSE endpoints # None => endpoints' # None
      BY <1>6
    <2>3. EcFits' /\ ec'[c] = r /\ \A d \in Clusters : d # c => ec'[d] = ec[d]
      BY <1>1, <1>6, <2>1, <2>2, EcTypes, EcMoves
    <2>4. r.queue \in Seq(PastEvent)
      BY <1>6 DEF EC
    <2> QED
      BY <1>6, <2>3, <2>4, ConcatEmptySeq DEF At, Events, OthersRest
  <1>7. CASE endpoints # None
    <2> DEFINE r == [IdleEC EXCEPT !.queue = q]
    <2>1. PutEndpoints(copy, b, pc) /\ ec' = [ec EXCEPT ![c] = r]
      BY <1>7 DEF PutFetched, Resurrect, q, b, copy
    <2>2. AreProxies(pc)
      BY EcTypes DEF PcFits, AreProxies
    <2>3. /\ PcFits' /\ endpoints' = copy /\ Told(pc, Wanting(copy), Put(copy))
          /\ Clean' => endpoints = b
          /\ disturbed' \subseteq disturbed \cup {"overwritten"} /\ disturbed \subseteq disturbed'
      BY <1>1, <1>3, <2>1, <2>2, EcTypes, EndpointsPut
    <2>4. r \in EC /\ r.at = "idle" /\ r.event = << >> /\ r.queue = q
      BY <1>1, IdleWith
    <2> HIDE DEF r
    <2>5. /\ EcFits' /\ At(c)' = "idle" /\ OthersRest(c) /\ Events(c)' = q
          /\ \A d \in Clusters : d # c => ec'[d] = ec[d]
      BY <1>3, <1>6, <2>1, <2>3, <2>4
    <2>6. StoreFits' /\ (Clean' => Clean)
      <3>1. disturbed' \subseteq Disturbances
        BY <2>3, EcTypes DEF StoreFits, Disturbances
      <3> QED
        BY <1>3, <2>3, <3>1, EcTypes, StoreStays DEF PutFetched, world, StoreFits, Clean
    <2> QED
      BY <1>1, <1>2, <1>4, <1>7, <2>3, <2>5, <2>6 DEF Typed, Finishes, b
  <1>8. CASE endpoints = None /\ UNCHANGED endpoints
    <2> DEFINE u == Append(q, e)
               r == [IdleEC EXCEPT !.queue = u]
    <2>1. ec' = [ec EXCEPT ![c] = r] /\ UNCHANGED <<endpoints, pc, disturbed>>
      BY <1>3, <1>8 DEF PutFetched, PutEndpoints, Resurrect, copy, q, e
    <2>2. u \in Seq(PastEvent)
      BY <1>1, AppendProperties
    <2> HIDE DEF u
    <2>3. r \in EC /\ r.at = "idle" /\ r.event = << >> /\ r.queue = u
      BY <2>2, IdleWith
    <2> HIDE DEF r
    <2>4. /\ EcFits' /\ At(c)' = "idle" /\ OthersRest(c) /\ Events(c)' = u
          /\ \A d \in Clusters : d # c => ec'[d] = ec[d]
      BY <1>6, <1>8, <2>1, <2>3
    <2>5. StoreFits' /\ PcFits'
      BY <1>1, <2>1, EcTypes, StoreStays, PcStays DEF PutFetched, world, StoreFits
    <2> QED
      BY <1>1, <1>2, <1>4, <1>5, <1>8, <2>1, <2>4, <2>5 DEF Typed, b, u
  <1>9. CASE endpoints = None /\ endpoints' # endpoints
    <2> DEFINE r == [IdleEC EXCEPT !.queue = q]
    <2>1. endpoints' = copy /\ pc' = pc /\ Disturb({"resurrected"}) /\ ec' = [ec EXCEPT ![c] = r]
      BY <1>9 DEF PutFetched, PutEndpoints, Resurrect, copy, q
    <2>2. r \in EC /\ r.at = "idle" /\ r.event = << >> /\ r.queue = q
      BY <1>1, IdleWith
    <2> HIDE DEF r
    <2>3. /\ EcFits' /\ At(c)' = "idle" /\ OthersRest(c)
          /\ \A d \in Clusters : d # c => ec'[d] = ec[d]
      BY <1>6, <1>9, <2>1, <2>2
    <2>4. {"resurrected"} \in SUBSET Disturbances /\ StoreFits
      BY EcTypes DEF Disturbances
    <2>5. StoreFits' /\ PcFits'
      BY <1>1, <1>3, <2>1, <2>4, EcTypes, StoreStays, PcStays, DisturbFacts
         DEF PutFetched, world, StoreFits
    <2>6. ~Clean'
      BY <2>1 DEF Disturb, Clean
    <2> QED
      BY <1>1, <1>2, <1>9, <2>3, <2>5, <2>6 DEF Typed, b
  <1> QED
    BY <1>7, <1>8, <1>9

-----------------------------------------------------------------------------
(* The steps of a proxy controller, and of the service controller.         *)
EcStay == EventsStay /\ ec' = ec
ProxyTakes(c) == /\ pc[c].queue # << >> /\ pc'[c].queue = Tail(pc[c].queue)
                 /\ \A d \in Clusters : d # c => pc'[d] = pc[d]

LEMMA EcQuiet ==
  ASSUME Typed, UNCHANGED <<changes, ec>>, endpoints # None => endpoints' # None
  PROVE  EcFits' /\ EcStay
  BY EcTypes, EcStays DEF Typed, EcStay, EventsStay

\* The next event is taken; the primary may have peers to go through then.
LEMMA TakenEffect ==
  ASSUME Typed, NEW c \in Clusters, UNCHANGED changes, pc[c].put = << >>, pc[c].queue # << >>,
         NEW peers \in SUBSET Others, peers # {} => c = Primary,
         pc' = [pc EXCEPT ![c] = [pc[c] EXCEPT !.queue = Tail(@), !.peers = peers]]
  PROVE  PcFits' /\ ProxyTakes(c) /\ pc'[c].put = << >> /\ pc'[c].peers = peers
  <1> DEFINE u == Tail(pc[c].queue)
             r == [pc[c] EXCEPT !.queue = u, !.peers = peers]
  <1>1. u \in Seq(PastWrite)
    BY EcTypes, HeadAndTail
  <1>2. pc' = [pc EXCEPT ![c] = r]
    OBVIOUS
  <1> HIDE DEF u
  <1>3. r \in PC /\ r.queue = u /\ r.put = << >> /\ r.peers = peers
    BY <1>1, EcTypes DEF PC
  <1> HIDE DEF r
  <1>4. ProxySound(c, r)
    BY <1>3 DEF ProxySound
  <1>5. PcFits' /\ pc'[c] = r /\ \A d \in Clusters : d # c => pc'[d] = pc[d]
    BY <1>2, <1>3, <1>4, EcTypes, PcMoves
  <1> QED
    BY <1>3, <1>5 DEF ProxyTakes, u

\* Nobody else has any.
LEMMA TakenSame ==
  ASSUME Typed, NEW c \in Clusters, pc[c].peers = {}
  PROVE  Taken(c) = [pc EXCEPT ![c] = [pc[c] EXCEPT !.queue = Tail(@), !.peers = {}]]
  <1>1. pc[c] = [pc[c] EXCEPT !.peers = {}]
    BY EcTypes DEF PC
  <1> QED
    BY <1>1, EcTypes DEF Taken, PcFits, PC

LEMMA TakenPeers ==
  ASSUME Typed, NEW c \in Clusters, NEW peers
  PROVE  [Taken(c) EXCEPT ![c].peers = peers] =
         [pc EXCEPT ![c] = [pc[c] EXCEPT !.queue = Tail(@), !.peers = peers]]
  BY EcTypes DEF Taken, PcFits, PC

LEMMA HeadOfProxy ==
  ASSUME Typed, NEW c \in Clusters, pc[c].queue # << >>
  PROVE  /\ pc[c].queue[1] = Head(pc[c].queue) /\ pc[c].queue[1] \in PastWrite
         /\ NextObject(c) = pc[c].queue[1].obj
  BY EcTypes, HeadAndTail DEF NextObject

\* Whom the peers of an event are.
Peers(c) == IF Unpublish(c) /\ c = Primary THEN ExposedOthers(NextObject(c)) ELSE {}

\* What is exposed has pods.
LEMMA ExposedHasPods ==
  ASSUME StoreFits, NEW obj \in PastEndpoints, NEW c \in Others, obj.of[c].exposed
  PROVE  Pods[c] > 0
  <1>1. c \in Clusters /\ obj.of \in Counts
    BY DEF Others, PastEndpoints
  <1>2. obj.of[c] \in Entry /\ obj.of[c].num \in {0, Pods[c]}
    BY <1>1 DEF Counts
  <1>3. obj.of[c] # NoEntry
    BY DEF NoEntry
  <1>4. obj.of[c].num \in Nat \ {0}
    BY <1>2, <1>3 DEF Entry
  <1> QED
    BY <1>2, <1>4

LEMMA ProxyEffect ==
  ASSUME Typed, NEW c \in Clusters,
         Unpublish(c) \/ ServiceUnknown(c) \/ Import(c) \/ Skip(c) \/ Export(c)
  PROVE  /\ Typed' /\ EcStay /\ ProxyTakes(c) /\ pc[c].put = << >> /\ pc[c].peers = {}
         /\ pc'[c].put = IF Export(c) THEN << pc[c].queue[1] >> ELSE << >>
         /\ pc'[c].peers = Peers(c)
         /\ UNCHANGED <<changes, ec, endpoints, service, sc, k8>>
  <1>1. /\ pc[c].put = << >> /\ pc[c].queue # << >> /\ pc[c].peers = {}
        /\ UNCHANGED <<changes, ec, endpoints, service, sc, k8>>
        /\ NextObject(c) = pc[c].queue[1].obj
    BY HeadOfProxy DEF Unpublish, ServiceUnknown, Import, Skip, Export, IsNext, world
  <1>2. EcFits' /\ EcStay
    BY <1>1, EcQuiet
  <1>3. StoreFits'
    <2>1. /\ \/ UNCHANGED <<faults, disturbed>>
             \/ Fail
             \/ faults < MaxFaults /\ faults' = faults + 1 /\ Disturb({"unseen"})
             \/ UNCHANGED faults /\ (Disturb({}) \/ Disturb({"repeated"}))
          /\ exports' \subseteq exports \cup (Clusters \ {Primary})
      BY DEF Unpublish, ServiceUnknown, Import, Skip, Export, world, If
    <2>2. faults' \in 0 .. MaxFaults /\ disturbed' \subseteq Disturbances
      <3>1. StoreFits /\ MaxFaults \in Nat
        BY EcTypes, ServiceMeshAssumption
      <3>2. {} \in SUBSET Disturbances /\ {"unseen"} \in SUBSET Disturbances /\ {"repeated"} \in SUBSET Disturbances
        BY DEF Disturbances
      <3> QED
        BY <2>1, <3>1, <3>2, FailFacts, DisturbFacts DEF StoreFits
    <2>3. exports' \subseteq Others
      BY <2>1, EcTypes DEF StoreFits, Others
    <2>4. imports' \in [Others -> Nat] /\ \A d \in Others : imports'[d] > 0 => Pods[d] > 0
      <3>1. imports \in [Others -> Nat] /\ \A d \in Others : imports[d] > 0 => Pods[d] > 0
        BY EcTypes DEF StoreFits
      <3>2. CASE Import(c)
        <4>1. PICK imported \in SUBSET ExposedOthers(NextObject(c)) :
                imports' = [d \in Others |-> imports[d] + (IF d \in imported THEN 1 ELSE 0)]
          BY <3>2 DEF Import
        <4>2. StoreFits /\ NextObject(c) \in PastEndpoints
          BY <1>1, EcTypes, HeadOfProxy DEF PastWrite
        <4>3. \A d \in Others : d \in imported => Pods[d] > 0
          BY <4>2, ExposedHasPods DEF ExposedOthers
        <4> QED
          BY <3>1, <4>1, <4>3
      <3>3. CASE ~Import(c)
        <4>1. imports' = imports
          BY <3>3 DEF Unpublish, ServiceUnknown, Skip, Export, world
        <4> QED
          BY <3>1, <4>1
      <3> QED
        BY <3>2, <3>3
    <2> QED
      BY <1>1, <2>2, <2>3, <2>4, EcTypes, StoreStays DEF StoreFits
  <1>4. CASE ~Export(c)
    <2>1. Peers(c) \in SUBSET Others /\ (Peers(c) # {} => c = Primary)
      BY DEF Peers, ExposedOthers
    <2>2. pc' = [pc EXCEPT ![c] = [pc[c] EXCEPT !.queue = Tail(@), !.peers = Peers(c)]]
      <3>1. CASE Unpublish(c) /\ c = Primary
        <4>1. pc' = [Taken(c) EXCEPT ![c].peers = Peers(c)]
          BY <3>1 DEF Unpublish, Peers
        <4> QED
          BY <4>1, TakenPeers
      <3>2. CASE ~(Unpublish(c) /\ c = Primary)
        <4>1. pc' = Taken(c) /\ Peers(c) = {}
          BY <1>4, <3>2 DEF Unpublish, ServiceUnknown, Import, Skip, Peers
        <4> QED
          BY <1>1, <4>1, TakenSame
      <3> QED
        BY <3>1, <3>2
    <2> HIDE DEF Peers
    <2>3. PcFits' /\ ProxyTakes(c) /\ pc'[c].put = << >> /\ pc'[c].peers = Peers(c)
      BY <1>1, <2>1, <2>2, TakenEffect
    <2> QED
      BY <1>1, <1>2, <1>3, <1>4, <2>3 DEF Typed
  <1>5. CASE Export(c)
    <2> DEFINE e == Head(pc[c].queue)
               u == Tail(pc[c].queue)
               r == [pc[c] EXCEPT !.put = << e >>, !.queue = u]
    <2>1. e \in PastWrite /\ u \in Seq(PastWrite) /\ e = pc[c].queue[1]
      BY <1>1, EcTypes, HeadAndTail
    <2>2. pc' = [pc EXCEPT ![c] = r]
      BY <1>5 DEF Export
    <2>3. e.type = "UPDATE" /\ c # Primary /\ Listed(e.obj, c)
      BY <1>5 DEF Export, IsNext, Wanted, NextObject
    <2>4. << e >> \in Seq(PastWrite) /\ << e >>[1] = e
      BY <2>1
    <2> HIDE DEF e, u
    <2>5. r \in PC /\ r.queue = u /\ r.put = << e >> /\ r.peers = {}
      BY <1>1, <2>1, <2>4, EcTypes DEF PC
    <2> HIDE DEF r
    <2>6. ProxySound(c, r)
      BY <2>3, <2>4, <2>5 DEF ProxySound
    <2>8. Peers(c) = {}
      BY <2>3 DEF Peers
    <2>7. PcFits' /\ pc'[c] = r /\ \A d \in Clusters : d # c => pc'[d] = pc[d]
      BY <1>1, <2>2, <2>5, <2>6, EcTypes, PcMoves
    <2> QED
      BY <1>1, <1>2, <1>3, <1>5, <2>1, <2>5, <2>7, <2>8 DEF Typed, ProxyTakes, u
  <1> QED
    BY <1>4, <1>5

LEMMA DeleteImportEffect ==
  ASSUME Typed, NEW c \in Clusters, NEW peer \in Others, DeleteImport(c, peer)
  PROVE  /\ Typed' /\ EcStay /\ c = Primary /\ peer \in pc[c].peers
         /\ UNCHANGED <<changes, ec, endpoints, service, sc, k8, exports>>
         /\ \A d \in Clusters : pc'[d].queue = pc[d].queue /\ pc'[d].put = pc[d].put
         /\ IF SeveralSources /\ imports[peer] = 0
            THEN pc'[c].peers = {} ELSE pc'[c].peers = pc[c].peers \ {peer}
  <1>1. /\ peer \in pc[c].peers /\ pc[c].peers \subseteq Others /\ c = Primary /\ pc[c].put = << >>
        /\ UNCHANGED <<changes, ec, endpoints, service, sc, k8, exports>>
    BY EcTypes DEF DeleteImport, ProxySound
  <1>2. EcFits' /\ EcStay
    BY <1>1, EcQuiet
  <1> DEFINE left == IF SeveralSources /\ imports[peer] = 0 THEN {} ELSE pc[c].peers \ {peer}
             r == [pc[c] EXCEPT !.peers = left]
  <1>3. pc' = [pc EXCEPT ![c] = r]
    BY DEF DeleteImport
  <1>4. left \subseteq Others
    BY <1>1
  <1>5. r \in PC /\ r.peers = left /\ r.queue = pc[c].queue /\ r.put = pc[c].put
    <2> HIDE DEF left
    <2> QED
      BY <1>4, EcTypes DEF PC
  <1> HIDE DEF r
  <1>6. ProxySound(c, r)
    BY <1>1, <1>5 DEF ProxySound
  <1>7. PcFits' /\ pc'[c] = r /\ \A d \in Clusters : d # c => pc'[d] = pc[d]
    BY <1>1, <1>3, <1>5, <1>6, EcTypes, PcMoves
  <1>8. imports' \in [Others -> Nat] /\ \A d \in Others : imports'[d] > 0 => Pods[d] > 0
    <2>1. /\ imports \in [Others -> Nat] /\ \A d \in Others : imports[d] > 0 => Pods[d] > 0
      BY EcTypes DEF StoreFits
    <2>2. imports[peer] # 0 => imports[peer] - 1 \in Nat /\ imports[peer] > 0
      BY <2>1
    <2>3. \/ imports' = imports
          \/ imports' = [d \in Others |-> 0]
          \/ imports[peer] # 0 /\ imports' = [imports EXCEPT ![peer] = imports[peer] - 1]
      BY DEF DeleteImport
    <2>4. CASE imports[peer] # 0 /\ imports' = [imports EXCEPT ![peer] = imports[peer] - 1]
      <3>1. \A d \in Others : imports'[d] = IF d = peer THEN imports[peer] - 1 ELSE imports[d]
        BY <2>1, <2>4
      <3>2. imports' \in [Others -> Nat]
        BY <2>1, <2>2, <2>4
      <3>3. \A d \in Others : imports'[d] > 0 => imports[d] > 0
        BY <2>1, <2>2, <2>4, <3>1
      <3> QED
        BY <2>1, <3>2, <3>3
    <2> QED
      BY <2>1, <2>3, <2>4
  <1>9. StoreFits'
    <2>1. UNCHANGED <<faults, disturbed>> \/ Fail
      BY DEF DeleteImport
    <2>2. StoreFits
      BY EcTypes
    <2>3. faults' \in 0 .. MaxFaults /\ disturbed' \subseteq Disturbances
      BY <2>1, <2>2, FailFacts DEF StoreFits
    <2> QED
      BY <1>1, <1>8, <2>2, <2>3, StoreStays DEF StoreFits
  <1> QED
    BY <1>1, <1>2, <1>5, <1>7, <1>9 DEF Typed

\* What a proxy controller puts: the Endpoints of its event, exposed.
Exposing(c, obj) == [obj EXCEPT !.of[c].exposed = TRUE]

LEMMA PutExposedEffect ==
  ASSUME Typed, NEW c \in Clusters, PutExposed(c)
  PROVE  /\ Typed' /\ EcStay /\ pc[c].put # << >> /\ c # Primary
         /\ pc[c].put[1] \in PastWrite /\ Listed(pc[c].put[1].obj, c)
         /\ pc'[c].put = << >> /\ \A d \in Clusters : d # c => pc'[d].put = pc[d].put
         /\ \A d \in Clusters : pc'[d].peers = pc[d].peers
         /\ IF endpoints # None
            THEN /\ endpoints' = Exposing(c, pc[c].put[1].obj)
                 /\ \A d \in Clusters : pc'[d].queue =
                      IF d \in Wanting(endpoints') THEN Append(pc[d].queue, Put(endpoints'))
                      ELSE pc[d].queue
                 /\ Clean' => Clean /\ endpoints = pc[c].put[1].obj
            ELSE /\ \A d \in Clusters : pc'[d].queue = pc[d].queue
                 /\ Clean' => UNCHANGED <<endpoints, disturbed>>
  <1> DEFINE obj == pc[c].put[1].obj
             done == [pc EXCEPT ![c].put = << >>]
             copy == Exposing(c, obj)
             r == [pc[c] EXCEPT !.put = << >>]
  <1>1. /\ pc[c].put # << >> /\ UNCHANGED <<changes, ec, service, sc, k8, exports, imports, faults>>
        /\ c # Primary /\ pc[c].put = << pc[c].put[1] >> /\ Listed(obj, c)
    BY EcTypes DEF PutExposed, world, ProxySound
  <1>2. pc[c].put[1] \in PastWrite /\ obj \in PastEndpoints
    <2>1. Len(pc[c].put) = 1
      <3>1. \E x : pc[c].put = << x >>
        BY <1>1
      <3> QED
        BY <3>1
    <2>2. pc[c].put[1] \in PastWrite
      BY <2>1, EcTypes, ElementOfSeq
    <2> QED
      BY <2>2 DEF PastWrite
  <1> HIDE DEF obj
  <1>3. copy \in PastEndpoints /\ copy # None
    <2>1. obj \in Endpoints /\ obj.gen \in Past /\ 0 \notin Past
      BY <1>2, EcTypes, PastIsKnown DEF PastEndpoints
    <2>2. /\ copy \in Endpoints /\ copy.gen = obj.gen /\ copy.of[c].num = obj.of[c].num
          /\ \A d \in Clusters : d # c => copy.of[d] = obj.of[d]
      BY <1>1, <2>1, EntryExposed DEF Exposing
    <2> HIDE DEF copy
    <2>3. obj.of \in Counts
      BY <1>2 DEF PastEndpoints
    <2>4. \A d \in Clusters : copy.of[d].num \in {0, Pods[d]}
      BY <2>2, <2>3 DEF Counts
    <2>5. copy.of \in Counts
      BY <2>2, <2>4 DEF Endpoints, Counts
    <2> QED
      BY <2>1, <2>2, <2>5 DEF PastEndpoints, Endpoints, None
  <1>4. r \in PC /\ r.put = << >> /\ r.queue = pc[c].queue /\ r.peers = pc[c].peers
    <2>1. << >> \in Seq(PastWrite) /\ pc[c] \in PC
      BY EcTypes, EmptySeq
    <2> QED
      BY <2>1 DEF PC
  <1>5. /\ done \in [Clusters -> PC] /\ done[c] = r
        /\ \A d \in Clusters : d # c => done[d] = pc[d]
    <2>1. done = [pc EXCEPT ![c] = r]
      OBVIOUS
    <2> HIDE DEF done, r
    <2> QED
      BY <1>4, <2>1, EcTypes DEF PcFits
  <1>6. AreProxies(done)
    <2> HIDE DEF done, r
    <2> QED
      BY <1>4, <1>5, EcTypes DEF PcFits, AreProxies, ProxySound
  <1>7. /\ \A d \in Clusters : d # c => done[d].put = pc[d].put
        /\ \A d \in Clusters : done[d].queue = pc[d].queue /\ done[d].peers = pc[d].peers
        /\ done[c].put = << >>
    BY <1>4, <1>5
  <1>8. endpoints # None => PutEndpoints(copy, obj, done)
    BY DEF PutExposed, Resurrect, Exposing, obj
  <1>9. endpoints = None => /\ pc' = done
                            /\ \/ UNCHANGED <<endpoints, disturbed>>
                               \/ endpoints' = copy /\ Disturb({"resurrected"})
    BY DEF PutExposed, PutEndpoints, Resurrect, Exposing, obj
  <1> HIDE DEF done, copy, r
  <1>10. CASE endpoints # None
    <2>1. /\ PcFits' /\ endpoints' = copy /\ Told(done, Wanting(copy), Put(copy))
          /\ Clean' => endpoints = obj
          /\ disturbed' \subseteq disturbed \cup {"overwritten"} /\ disturbed \subseteq disturbed'
      BY <1>1, <1>3, <1>6, <1>8, <1>10, EcTypes, EndpointsPut
    <2>2. StoreFits' /\ (Clean' => Clean)
      <3>1. disturbed' \subseteq Disturbances
        BY <2>1, EcTypes DEF StoreFits, Disturbances
      <3> QED
        BY <1>1, <1>3, <2>1, <3>1, EcTypes, StoreStays DEF StoreFits, Clean
    <2>3. EcFits' /\ EcStay
      BY <1>1, <1>3, <2>1, EcQuiet
    <2> QED
      BY <1>1, <1>2, <1>7, <1>10, <2>1, <2>2, <2>3 DEF Typed, Told, obj, copy
  <1>11. CASE endpoints = None
    <2>1. PcFits'
      <3>1. PC' = PC
        BY <1>1 DEF PC, PastWrite, PastEndpoints, Past
      <3> QED
        BY <1>6, <1>9, <1>11, <3>1 DEF PcFits, AreProxies
    <2>2. StoreFits' /\ (Clean' => UNCHANGED <<endpoints, disturbed>>)
      <3>1. {"resurrected"} \in SUBSET Disturbances /\ StoreFits
        BY EcTypes DEF Disturbances
      <3>2. disturbed' \subseteq Disturbances /\ endpoints' \in PastEndpoints \cup {None}
        BY <1>3, <1>9, <1>11, <3>1, DisturbFacts DEF StoreFits
      <3> QED
        BY <1>1, <1>9, <1>11, <3>1, <3>2, EcTypes, StoreStays DEF StoreFits, Disturb, Clean
    <2>3. EcFits' /\ EcStay
      BY <1>1, <1>9, <1>11, EcQuiet
    <2> QED
      BY <1>1, <1>2, <1>7, <1>9, <1>11, <2>1, <2>2, <2>3 DEF Typed, obj
  <1> QED
    BY <1>10, <1>11

LEMMA ReportsEffect ==
  ASSUME Typed, ReportCopies \/ ReportPuts
  PROVE  /\ Typed' /\ EcStay /\ UNCHANGED <<endpoints, world, pc, changes>>
         /\ disturbed \subseteq disturbed'
         /\ service' # None <=> service # None
         /\ Clean' => service'.gen = service.gen
  <1>1. UNCHANGED <<changes, ec, endpoints, world, pc, faults>>
    BY DEF ReportCopies, ReportPuts
  <1>2. EcFits' /\ EcStay /\ PcFits'
    BY <1>1, EcTypes, EcQuiet, PcStays DEF Typed
  <1>3. CASE ReportCopies
    <2>1. service' = service /\ disturbed' = disturbed /\ sc' = service
      BY <1>3 DEF ReportCopies
    <2>2. StoreFits'
      BY <1>1, <2>1 DEF Typed, StoreFits, PastService, PastEndpoints, Past, world
    <2> QED
      BY <1>1, <1>2, <2>1, <2>2 DEF Typed
  <1>4. CASE ReportPuts
    <2>1. sc \in PastService /\ StoreFits /\ sc # None
      BY <1>4, PastIsKnown DEF Typed, StoreFits, ReportPuts
    <2>2. IF service # None
          THEN service' = sc /\ disturbed' = disturbed \cup (IF sc.gen # service.gen THEN {"crossed"} ELSE {})
          ELSE UNCHANGED <<service, disturbed>>
      BY <1>4 DEF ReportPuts, Disturb, If
    <2>3. sc' = None /\ disturbed' \subseteq Disturbances
      BY <1>4, <2>1, <2>2 DEF ReportPuts, StoreFits, Disturbances
    <2>4. StoreFits'
      BY <1>1, <2>1, <2>2, <2>3 DEF StoreFits, PastService, PastEndpoints, Past, world
    <2>5. Clean' => service'.gen = service.gen
      BY <2>2 DEF Clean
    <2> QED
      BY <1>1, <1>2, <2>1, <2>2, <2>4, <2>5 DEF Typed
  <1> QED
    BY <1>3, <1>4

LEMMA NextTyped ==
  Typed /\ [Next]_vars => Typed' /\ disturbed \subseteq disturbed' /\ (Clean' => Clean)
  <1> SUFFICES ASSUME Typed, [Next]_vars PROVE Typed' /\ disturbed \subseteq disturbed'
    BY DEF Clean
  <1>1. disturbed \subseteq disturbed'
    <2>1. CASE UserCreates \/ UserDeletes \/ ReportCopies \/ ReportPuts
      BY <2>1, ReportsEffect DEF UserCreates, UserDeletes
    <2>2. ASSUME NEW c \in Clusters, EndpointsController(c) \/ ProxyController(c)
          PROVE  disturbed \subseteq disturbed'
      BY <2>2 DEF EndpointsController, ProxyController, TakeServiceEvent, TakeServiceDelete,
           DeleteService, CreateEndpoints, FetchEndpoints, KubernetesRaises, FetchGivesUp, PutFetched,
           Unpublish, ServiceUnknown, Import, Skip, Export, PutExposed, DeleteImport, PutEndpoints,
           Resurrect, Fail, Disturb
    <2> QED
      BY <2>1, <2>2 DEF Next, vars
  <1>2. CASE UNCHANGED vars
    <2>1. UNCHANGED <<service, sc, faults, endpoints, k8, exports, imports, changes, ec, pc,
                      disturbed>>
      BY <1>2 DEF vars, world
    <2>2. StoreFits'
      BY <2>1 DEF Typed, StoreFits, PastService, PastEndpoints, Past, world
    <2>3. EcFits' /\ PcFits'
      BY <2>1, EcQuiet, PcStays DEF Typed
    <2> QED
      BY <1>1, <2>2, <2>3 DEF Typed
  <1>3. CASE UserCreates \/ UserDeletes \/ ReportCopies \/ ReportPuts
    BY <1>1, <1>3, UserCreatesEffect, UserDeletesEffect, ReportsEffect
  <1>4. ASSUME NEW c \in Clusters, EndpointsController(c) PROVE Typed'
    BY <1>4, TakeServiceEventEffect, TakeServiceDeleteEffect, CreateEndpointsEffect,
       FetchEndpointsEffect, KubernetesRaisesEffect, FetchGivesUpEffect, PutFetchedEffect
       DEF EndpointsController
  <1>5. ASSUME NEW c \in Clusters, ProxyController(c) PROVE Typed'
    BY <1>5, ProxyEffect, PutExposedEffect, DeleteImportEffect DEF ProxyController
  <1> QED
    BY <1>1, <1>2, <1>3, <1>4, <1>5 DEF Next

-----------------------------------------------------------------------------
(* The order of events.  Additions and deletions take turns, and each      *)
(* addition is of a later creation.                                        *)
Before(a, b) == a.gen < b.gen \/ (a.gen = b.gen /\ a.type = "ADD" /\ b.type = "DELETE")
Follows(a, b) == IF a.type = "ADD" THEN b.type = "DELETE" /\ b.gen = a.gen
                 ELSE b.type = "ADD" /\ b.gen > a.gen

Chain(q) == /\ \A i, j \in 1 .. Len(q) : i < j => Before(q[i], q[j])
            /\ \A i \in 1 .. Len(q) : i + 1 \in 1 .. Len(q) => Follows(q[i], q[i + 1])
Adds(q, g) == \E i \in 1 .. Len(q) : q[i].type = "ADD" /\ q[i].gen = g

LEMMA EventOfService ==
  ASSUME NEW e \in ServiceEvent
  PROVE  e.type \in {"ADD", "DELETE"} /\ e.gen \in Gens /\ e.gen \in Nat
  BY ServiceMeshAssumption DEF ServiceEvent, Gens

LEMMA TailFacts ==
  ASSUME NEW S, NEW q \in Seq(S), q # << >>
  PROVE  /\ Tail(q) \in Seq(S) /\ Len(Tail(q)) = Len(q) - 1 /\ Len(q) \in Nat \ {0} /\ q[1] \in S
         /\ \A i \in 1 .. Len(Tail(q)) : i + 1 \in 1 .. Len(q) /\ Tail(q)[i] = q[i + 1]
         /\ Tail(q) # << >> => Tail(q)[Len(Tail(q))] = q[Len(q)] /\ Len(Tail(q)) \in Nat \ {0}
         /\ \A j \in 1 .. Len(q) : j # 1 => j - 1 \in 1 .. Len(Tail(q)) /\ Tail(q)[j - 1] = q[j]
  <1> DEFINE u == Tail(q)
  <1>1. /\ u \in Seq(S) /\ Len(u) = Len(q) - 1 /\ \A i \in 1 .. Len(u) : u[i] = q[i + 1]
        /\ Len(q) \in Nat \ {0}
    BY HeadTailProperties, EmptySeq
  <1>2. q[1] \in S
    BY HeadTailProperties
  <1> HIDE DEF u
  <1>3. u # << >> => Len(u) \in Nat \ {0}
    BY <1>1, EmptySeq
  <1>4. \A j \in 1 .. Len(q) : j # 1 => j - 1 \in 1 .. Len(u) /\ (j - 1) + 1 = j
    BY <1>1
  <1> QED
    BY <1>1, <1>2, <1>3, <1>4 DEF u

LEMMA AppendFacts ==
  ASSUME NEW S, NEW q \in Seq(S), NEW e \in S
  PROVE  /\ Append(q, e) \in Seq(S) /\ Len(Append(q, e)) = Len(q) + 1 /\ Len(q) \in Nat
         /\ Append(q, e)[Len(q) + 1] = e
         /\ \A i \in 1 .. Len(q) : Append(q, e)[i] = q[i] /\ i \in 1 .. Len(Append(q, e)) /\ i # Len(q) + 1
         /\ Append(q, e) # << >>
         /\ Append(q, e)[1] = IF q = << >> THEN e ELSE q[1]
         /\ \A i \in 1 .. Len(Append(q, e)) : i \in 1 .. Len(q) \/ i = Len(q) + 1
  <1> DEFINE a == Append(q, e)
  <1>1. /\ a \in Seq(S) /\ Len(a) = Len(q) + 1 /\ a[Len(q) + 1] = e
        /\ \A i \in 1 .. Len(q) : a[i] = q[i]
        /\ Len(q) \in Nat
    BY AppendProperties, LenProperties
  <1> HIDE DEF a
  <1>2. a # << >>
    BY <1>1, EmptySeq
  <1>3. a[1] = IF q = << >> THEN e ELSE q[1]
    <2>1. CASE q = << >>
      BY <1>1, <2>1, EmptySeq
    <2>2. CASE q # << >>
      <3>1. Len(q) # 0
        BY <2>2, EmptySeq
      <3> QED
        BY <1>1, <2>2, <3>1
    <2> QED
      BY <2>1, <2>2
  <1> QED
    BY <1>1, <1>2, <1>3 DEF a

LEMMA AddsTail ==
  ASSUME NEW q \in Seq(ServiceEvent), q # << >>, NEW g
  PROVE  Adds(q, g) <=> Adds(Tail(q), g) \/ (q[1].type = "ADD" /\ q[1].gen = g)
  <1>1. ASSUME Adds(q, g) PROVE Adds(Tail(q), g) \/ (q[1].type = "ADD" /\ q[1].gen = g)
    BY <1>1, TailFacts DEF Adds
  <1>2. ASSUME Adds(Tail(q), g) PROVE Adds(q, g)
    BY <1>2, TailFacts DEF Adds
  <1>3. ASSUME q[1].type = "ADD", q[1].gen = g PROVE Adds(q, g)
    BY <1>3, TailFacts DEF Adds
  <1> QED
    BY <1>1, <1>2, <1>3

LEMMA AddsAppend ==
  ASSUME NEW q \in Seq(ServiceEvent), NEW e \in ServiceEvent, NEW g
  PROVE  Adds(Append(q, e), g) <=> Adds(q, g) \/ (e.type = "ADD" /\ e.gen = g)
  <1>1. ASSUME Adds(Append(q, e), g) PROVE Adds(q, g) \/ (e.type = "ADD" /\ e.gen = g)
    BY <1>1, AppendFacts DEF Adds
  <1>2. ASSUME Adds(q, g) PROVE Adds(Append(q, e), g)
    BY <1>2, AppendFacts DEF Adds
  <1>3. ASSUME e.type = "ADD", e.gen = g PROVE Adds(Append(q, e), g)
    <2>1. Len(q) + 1 \in 1 .. Len(Append(q, e))
      BY AppendFacts
    <2> QED
      BY <1>3, <2>1, AppendFacts DEF Adds
  <1> QED
    BY <1>1, <1>2, <1>3

LEMMA ChainTail ==
  ASSUME NEW q \in Seq(ServiceEvent), q # << >>, Chain(q)
  PROVE  /\ Chain(Tail(q))
         /\ q[1].type = "ADD" => ~Adds(Tail(q), q[1].gen)
         /\ Tail(q) # << >> => Follows(q[1], Tail(q)[1])
         /\ Tail(q) = << >> => q[1] = q[Len(q)]
  <1> DEFINE u == Tail(q)
  <1>1. /\ u \in Seq(ServiceEvent) /\ Len(u) = Len(q) - 1 /\ Len(q) \in Nat \ {0}
        /\ \A i \in 1 .. Len(u) : i + 1 \in 1 .. Len(q) /\ u[i] = q[i + 1]
        /\ q[1] \in ServiceEvent
    BY TailFacts
  <1> HIDE DEF u
  <1>2. Chain(u)
    <2>1. ASSUME NEW i \in 1 .. Len(u), NEW j \in 1 .. Len(u), i < j PROVE Before(u[i], u[j])
      <3>1. i + 1 \in 1 .. Len(q) /\ j + 1 \in 1 .. Len(q) /\ i + 1 < j + 1
        BY <1>1, <2>1
      <3> QED
        BY <1>1, <3>1 DEF Chain
    <2>2. ASSUME NEW i \in 1 .. Len(u), i + 1 \in 1 .. Len(u) PROVE Follows(u[i], u[i + 1])
      <3>1. i + 1 \in 1 .. Len(q) /\ (i + 1) + 1 \in 1 .. Len(q)
        BY <1>1, <2>2
      <3>2. Follows(q[i + 1], q[(i + 1) + 1])
        BY <3>1 DEF Chain
      <3> QED
        BY <1>1, <2>2, <3>2
    <2> QED
      BY <2>1, <2>2 DEF Chain
  <1>3. q[1].type = "ADD" => ~Adds(u, q[1].gen)
    <2> SUFFICES ASSUME q[1].type = "ADD", NEW i \in 1 .. Len(u), u[i].type = "ADD",
                        u[i].gen = q[1].gen
                 PROVE  FALSE
      BY DEF Adds
    <2>1. i + 1 \in 1 .. Len(q) /\ 1 \in 1 .. Len(q) /\ 1 < i + 1 /\ u[i] = q[i + 1]
      BY <1>1
    <2>2. Before(q[1], u[i])
      BY <2>1 DEF Chain
    <2>3. q[1].gen \in Nat
      BY <1>1, EventOfService
    <2> QED
      BY <2>2, <2>3 DEF Before
  <1>4. u # << >> => Follows(q[1], u[1])
    <2> SUFFICES ASSUME u # << >> PROVE Follows(q[1], u[1])
      OBVIOUS
    <2>1. Len(u) # 0
      BY <1>1, EmptySeq
    <2>2. 1 \in 1 .. Len(u) /\ 1 \in 1 .. Len(q) /\ 1 + 1 \in 1 .. Len(q) /\ u[1] = q[1 + 1]
      BY <1>1, <2>1
    <2> QED
      BY <2>2 DEF Chain
  <1>5. u = << >> => Len(q) = 1
    BY <1>1
  <1> QED
    BY <1>2, <1>3, <1>4, <1>5 DEF u

LEMMA ChainAppend ==
  ASSUME NEW q \in Seq(ServiceEvent), NEW e \in ServiceEvent, Chain(q),
         q # << >> => Follows(q[Len(q)], e)
  PROVE  Chain(Append(q, e))
  <1> DEFINE a == Append(q, e)
             n == Len(q)
  <1>1. /\ Len(a) = n + 1 /\ n \in Nat /\ a[n + 1] = e
        /\ \A i \in 1 .. n : a[i] = q[i] /\ q[i] \in ServiceEvent
    BY AppendFacts, ElementOfSeq
  <1>2. n > 0 => Follows(q[n], e) /\ q[n] \in ServiceEvent
    BY <1>1, EmptySeq
  <1> HIDE DEF a, n
  <1>3. ASSUME NEW i \in 1 .. n PROVE Before(q[i], e)
    <2>1. n > 0 /\ n \in 1 .. n /\ i <= n
      BY <1>1
    <2>2. q[i].gen \in Nat /\ q[n].gen \in Nat /\ e.gen \in Nat /\ q[n].type \in {"ADD", "DELETE"}
      BY <1>1, <2>1, EventOfService
    <2>3. i = n \/ Before(q[i], q[n])
      BY <1>1, <2>1 DEF Chain, n
    <2> QED
      BY <1>2, <2>1, <2>2, <2>3 DEF Before, Follows
  <1>4. ASSUME NEW i \in 1 .. n + 1, NEW j \in 1 .. n + 1, i < j PROVE Before(a[i], a[j])
    <2>1. i \in 1 .. n
      BY <1>1, <1>4
    <2>2. CASE j = n + 1
      BY <1>1, <1>3, <2>1, <2>2
    <2>3. CASE j # n + 1
      <3>1. j \in 1 .. n
        BY <1>1, <2>3
      <3> QED
        BY <1>1, <1>4, <2>1, <3>1 DEF Chain, n
    <2> QED
      BY <2>2, <2>3
  <1>5. ASSUME NEW i \in 1 .. n + 1, i + 1 \in 1 .. n + 1 PROVE Follows(a[i], a[i + 1])
    <2>1. i \in 1 .. n /\ n > 0
      BY <1>1, <1>5
    <2>2. CASE i = n
      BY <1>1, <1>2, <2>1, <2>2
    <2>3. CASE i # n
      <3>1. i + 1 \in 1 .. n
        BY <1>1, <2>1, <2>3
      <3> QED
        BY <1>1, <2>1, <3>1 DEF Chain, n
    <2> QED
      BY <2>2, <2>3
  <1> QED
    BY <1>1, <1>4, <1>5 DEF Chain, a

-----------------------------------------------------------------------------
(* What is before a controller.  It awaits creation g until it has fetched *)
(* the Endpoints for it, which it then has in hand.                        *)
Pending(c, g) == Adds(Events(c), g)
InHand(c, g) == At(c) = "put" /\ Events(c)[1].gen = g
Awaits(c, g) == Pending(c, g) /\ ~InHand(c, g)
Has(g) == endpoints # None /\ endpoints.gen = g

\* What a controller has in hand are the Endpoints of its event's creation.
Based == Clean => \A c \in Clusters : At(c) = "put" => ec[c].base.gen = Events(c)[1].gen

\* The primary is done with a creation that another controller has not seen,
\* and its Endpoints are gone.  The event of that controller will disturb.
Doomed == \E c \in Others, g \in Gens : Pending(c, g) /\ ~Awaits(Primary, g) /\ ~Has(g)

LEMMA EventsKnown ==
  ASSUME Typed, NEW c \in Clusters
  PROVE  /\ Events(c) \in Seq(ServiceEvent) /\ At(c) \in {"idle", "fetch", "put"}
         /\ Events(c) # << >> =>
              /\ Events(c)[1] \in ServiceEvent /\ Events(c)[1].gen \in Past
              /\ Events(c)[1].gen \in Gens
         /\ At(c) # "idle" => Events(c) # << >> /\ Events(c)[1].type = "ADD"
         /\ \A g : Pending(c, g) => g \in Past /\ g \in Gens
         /\ Primary \in Clusters /\ Others \subseteq Clusters
         /\ \A d \in Clusters : d # Primary <=> d \in Others
  <1>1. StoreFits /\ Past \subseteq Gens /\ PastEvent \subseteq ServiceEvent
    BY EcTypes, PastIsKnown
  <1>2. Events(c) \in Seq(PastEvent) /\ Seq(PastEvent) \subseteq Seq(ServiceEvent)
    BY <1>1, EventsFacts, SeqMonotonic
  <1>3. Events(c) # << >> => Events(c)[1] \in PastEvent
    BY <1>2, TailFacts
  <1>4. \A i \in 1 .. Len(Events(c)) : Events(c)[i] \in PastEvent
    BY <1>2, ElementOfSeq
  <1> QED
    BY <1>1, <1>2, <1>3, <1>4, EventsFacts, ServiceMeshAssumption DEF Pending, Adds, PastEvent, Others

\* What the steps change of it.
LEMMA AnnouncedEffect ==
  ASSUME Typed, NEW e \in ServiceEvent, Announced(e), NEW c \in Clusters
  PROVE  /\ \A g : Pending(c, g)' <=> Pending(c, g) \/ (e.type = "ADD" /\ e.gen = g)
         /\ \A g : InHand(c, g)' <=> InHand(c, g)
         /\ Events(c)' # << >>
         /\ Events(c)'[1] = IF Events(c) = << >> THEN e ELSE Events(c)[1]
         /\ At(c)' = At(c)
  <1>1. At(c) = "put" => Events(c) # << >>
    BY EventsKnown
  <1>2. Events(c)' = Append(Events(c), e) /\ At(c)' = At(c) /\ Events(c) \in Seq(ServiceEvent)
    BY EventsKnown DEF Announced
  <1>3. \A g : Pending(c, g)' <=> Adds(Append(Events(c), e), g)
    BY <1>2 DEF Pending
  <1>4. \A g : Adds(Append(Events(c), e), g) <=> Adds(Events(c), g) \/ (e.type = "ADD" /\ e.gen = g)
    BY <1>2, AddsAppend
  <1>5. /\ Events(c)' # << >>
        /\ Events(c)'[1] = IF Events(c) = << >> THEN e ELSE Events(c)[1]
    BY <1>2, AppendFacts
  <1> QED
    BY <1>1, <1>2, <1>3, <1>4, <1>5 DEF Pending, InHand

LEMMA StaysEffect ==
  ASSUME EventsStay, NEW d \in Clusters
  PROVE  \A g : (Pending(d, g)' <=> Pending(d, g)) /\ (InHand(d, g)' <=> InHand(d, g))
  BY DEF EventsStay, Pending, InHand

LEMMA GoesEffect ==
  ASSUME NEW c \in Clusters, NEW at, Goes(c, at), NEW d \in Clusters
  PROVE  /\ \A g : Pending(d, g)' <=> Pending(d, g)
         /\ \A g : InHand(d, g)' <=> IF d = c THEN at = "put" /\ Events(c)[1].gen = g ELSE InHand(d, g)
         /\ Events(d)' = Events(d)
         /\ At(d)' = IF d = c THEN at ELSE At(d)
  <1>1. Events(d)' = Events(d) /\ At(d)' = IF d = c THEN at ELSE At(d)
    BY DEF Goes, OthersRest
  <1> QED
    BY <1>1 DEF Pending, InHand

LEMMA FinishesEffect ==
  ASSUME Typed, NEW c \in Clusters, Finishes(c), Events(c) # << >>, NEW d \in Clusters
  PROVE  /\ \A g : Pending(d, g) <=> \/ Pending(d, g)'
                                     \/ d = c /\ Events(c)[1].type = "ADD" /\ Events(c)[1].gen = g
         /\ \A g : InHand(d, g)' <=> d # c /\ InHand(d, g)
         /\ Events(d)' = IF d = c THEN Tail(Events(c)) ELSE Events(d)
         /\ At(d)' = IF d = c THEN "idle" ELSE At(d)
  <1>1. /\ Events(d)' = IF d = c THEN Tail(Events(c)) ELSE Events(d)
        /\ At(d)' = IF d = c THEN "idle" ELSE At(d)
    BY DEF Finishes, OthersRest
  <1>2. Events(c) \in Seq(ServiceEvent)
    BY EventsKnown
  <1>3. \A g : Adds(Events(c), g) <=> Adds(Tail(Events(c)), g)
                                       \/ (Events(c)[1].type = "ADD" /\ Events(c)[1].gen = g)
    BY <1>2, AddsTail
  <1> QED
    BY <1>1, <1>3 DEF Pending, InHand

LEMMA BasedStep == Typed /\ Based /\ [Next]_vars => Based'
  <1> SUFFICES ASSUME Typed, Based, [Next]_vars, Clean', NEW d \in Clusters,
                      At(d)' = "put"
               PROVE  (ec[d].base.gen = Events(d)[1].gen)'
    BY DEF Based, Clean
  <1>1. Clean
    BY NextTyped
  <1>2. ASSUME ec'[d].base = ec[d].base, At(d) = "put", Events(d)' # << >>, Events(d)'[1] = Events(d)[1]
        PROVE  (ec[d].base.gen = Events(d)[1].gen)'
    <2>1. ec[d].base.gen = Events(d)[1].gen
      BY <1>1, <1>2 DEF Based, Clean
    <2> QED
      BY <1>2, <2>1
  <1>3. ASSUME EcStay PROVE (ec[d].base.gen = Events(d)[1].gen)'
    <2>1. At(d) = "put" /\ Events(d)' = Events(d) /\ ec'[d].base = ec[d].base
      BY <1>3 DEF EcStay, EventsStay
    <2>2. Events(d) # << >>
      BY <2>1, EventsKnown
    <2> QED
      BY <1>2, <2>1, <2>2
  <1>4. ASSUME NEW type \in {"ADD", "DELETE"}, NEW obj, obj.gen \in Gens, Tell(type, obj),
               Announced([type |-> type, gen |-> obj.gen])
        PROVE  (ec[d].base.gen = Events(d)[1].gen)'
    <2> DEFINE e == [type |-> type, gen |-> obj.gen]
    <2>1. e \in ServiceEvent
      BY <1>4 DEF ServiceEvent
    <2>2. ec'[d].base = ec[d].base
      <3>1. ec'[d] = [ec[d] EXCEPT !.queue = Append(@, e)]
        BY <1>4 DEF Tell
      <3> HIDE DEF e
      <3> QED
        BY <3>1, EcTypes DEF EC
    <2> HIDE DEF e
    <2>3. Announced(e)
      BY <1>4 DEF e
    <2>4. At(d) = "put"
      BY <2>3 DEF Announced
    <2>5. Events(d) # << >>
      BY <2>4, EventsKnown
    <2>6. Events(d)' # << >> /\ Events(d)'[1] = Events(d)[1]
      BY <2>1, <2>3, <2>5, AnnouncedEffect
    <2> QED
      BY <1>2, <2>2, <2>4, <2>6
  <1>5. ASSUME NEW c \in Clusters, d # c, OthersRest(c), ec'[d] = ec[d]
        PROVE  (ec[d].base.gen = Events(d)[1].gen)'
    <2>1. At(d) = "put" /\ Events(d)' = Events(d)
      BY <1>5 DEF OthersRest
    <2>2. Events(d) # << >>
      BY <2>1, EventsKnown
    <2> QED
      BY <1>2, <1>5, <2>1, <2>2
  <1>6. CASE UNCHANGED vars
    BY <1>3, <1>6, EcQuiet DEF vars
  <1>7. CASE UserCreates
    <2>1. Typed' /\ service'.gen = changes' /\ Announced([type |-> "ADD", gen |-> service'.gen])
          /\ Tell("ADD", service')
      BY <1>7, UserCreatesEffect DEF UserCreates
    <2>2. service'.gen \in Gens
      BY <1>7, <2>1, EcTypes, ServiceMeshAssumption DEF UserCreates, User, StoreFits, Gens
    <2> QED
      BY <1>4, <2>1, <2>2
  <1>8. CASE UserDeletes
    <2>1. Announced([type |-> "DELETE", gen |-> service.gen]) /\ Tell("DELETE", service)
      BY <1>8, UserDeletesEffect DEF UserDeletes
    <2>2. service.gen \in Gens
      BY <1>8, EcTypes, PastIsKnown DEF UserDeletes, StoreFits, PastService
    <2> QED
      BY <1>4, <2>1, <2>2
  <1>9. CASE ReportCopies \/ ReportPuts
    BY <1>3, <1>9, ReportsEffect
  <1>10. ASSUME NEW c \in Clusters, ProxyController(c)
         PROVE  (ec[d].base.gen = Events(d)[1].gen)'
    BY <1>3, <1>10, ProxyEffect, PutExposedEffect, DeleteImportEffect DEF ProxyController
  <1>11. ASSUME NEW c \in Clusters, EndpointsController(c)
         PROVE  (ec[d].base.gen = Events(d)[1].gen)'
    <2>1. CASE TakeServiceEvent(c)
      <3>1. Goes(c, "fetch")
        BY <2>1, TakeServiceEventEffect
      <3>2. d # c
        BY <3>1 DEF Goes
      <3>3. ec'[d] = ec[d]
        BY <2>1, <3>2, EcTypes DEF TakeServiceEvent, EcFits
      <3> QED
        BY <1>5, <3>1, <3>2, <3>3 DEF Goes
    <2>2. CASE TakeServiceDelete(c)
      <3>1. Finishes(c)
        BY <2>2, TakeServiceDeleteEffect
      <3>2. d # c
        BY <3>1 DEF Finishes
      <3>3. ec'[d] = ec[d]
        BY <2>2, <3>2, EcTypes DEF TakeServiceDelete, EcFits
      <3> QED
        BY <1>5, <3>1, <3>2, <3>3 DEF Finishes
    <2>3. CASE CreateEndpoints(c)
      <3>1. /\ Goes(c, "put") /\ endpoints'.gen = Events(c)[1].gen /\ ec'[c].base = endpoints'
            /\ d # c => ec'[d] = ec[d]
        BY <2>3, CreateEndpointsEffect
      <3>2. CASE d = c
        <4>1. Events(d)' = Events(d)
          BY <3>1, <3>2 DEF Goes
        <4> QED
          BY <3>1, <3>2, <4>1
      <3> QED
        BY <1>5, <3>1, <3>2 DEF Goes
    <2>4. CASE FetchEndpoints(c)
      <3>1. /\ Goes(c, "put") /\ endpoints.gen = Events(c)[1].gen /\ ec'[c].base = endpoints
            /\ d # c => ec'[d] = ec[d]
        BY <2>4, FetchEndpointsEffect
      <3>2. CASE d = c
        <4>1. Events(d)' = Events(d)
          BY <3>1, <3>2 DEF Goes
        <4> QED
          BY <3>1, <3>2, <4>1
      <3> QED
        BY <1>5, <3>1, <3>2 DEF Goes
    <2>5. CASE FetchGivesUp(c) \/ KubernetesRaises(c)
      BY <2>5, FetchGivesUpEffect, KubernetesRaisesEffect
    <2>6. CASE PutFetched(c)
      BY <1>5, <2>6, PutFetchedEffect
    <2> QED
      BY <1>11, <2>1, <2>2, <2>3, <2>4, <2>5, <2>6 DEF EndpointsController
  <1> QED
    BY <1>6, <1>7, <1>8, <1>9, <1>10, <1>11 DEF Next

\* A put that overwrites nothing leaves the creation that the Endpoints are of.
LEMMA PutKeepsGen ==
  ASSUME Typed, NEW c \in Clusters, PutFetched(c) \/ PutExposed(c), Clean'
  PROVE  IF endpoints = None THEN endpoints' = None
         ELSE endpoints' # None /\ endpoints'.gen = endpoints.gen
  <1> SUFFICES ASSUME endpoints # None
               PROVE  endpoints' # None /\ endpoints'.gen = endpoints.gen
    BY PutFetchedEffect, PutExposedEffect
  <1>1. endpoints \in Endpoints /\ endpoints.gen # 0
    BY EcTypes, PastIsKnown DEF StoreFits, PastEndpoints
  <1>2. endpoints'.gen = endpoints.gen
    <2>1. CASE PutFetched(c)
      BY <1>1, <2>1, PutFetchedEffect, WithEntryFacts
    <2>2. CASE PutExposed(c)
      <3>1. endpoints' = Exposing(c, endpoints) /\ Listed(endpoints, c)
        BY <2>2, PutExposedEffect
      <3> QED
        BY <1>1, <3>1, EntryExposed DEF Exposing
    <2> QED
      BY <2>1, <2>2
  <1> QED
    BY <1>1, <1>2 DEF None

(* Who is doomed stays so, until the disturbance.                          *)
LEMMA DoomedStays ==
  ASSUME Typed, Based, [Next]_vars, Doomed, Clean'
  PROVE  Doomed'
  <1>0. Clean /\ Typed'
    BY NextTyped
  <1>1. PICK c \in Others, g \in Gens : Pending(c, g) /\ ~Awaits(Primary, g) /\ ~Has(g)
    BY DEF Doomed
  <1>2. c \in Clusters /\ Primary \in Clusters /\ g \in Past /\ c # Primary
    BY <1>1, EventsKnown DEF Others
  <1> SUFFICES Pending(c, g)' /\ ~Awaits(Primary, g)' /\ ~Has(g)'
    BY <1>1 DEF Doomed
  <1>3. ASSUME EventsStay PROVE Pending(c, g)' /\ ~Awaits(Primary, g)'
    BY <1>1, <1>2, <1>3, StaysEffect DEF Awaits
  <1>4. ASSUME UNCHANGED endpoints PROVE ~Has(g)'
    BY <1>1, <1>4 DEF Has
  <1>5. CASE UNCHANGED vars
    BY <1>3, <1>4, <1>5, EcQuiet DEF vars, EcStay
  <1>6. CASE UserCreates
    <2> DEFINE e == [type |-> "ADD", gen |-> service'.gen]
    <2>1. Announced(e) /\ service'.gen = changes + 1 /\ service'.gen \in Gens
      BY <1>6, UserCreatesEffect, EcTypes, ServiceMeshAssumption
         DEF UserCreates, User, StoreFits, Gens
    <2>2. e \in ServiceEvent /\ e.gen # g
      BY <1>2, <2>1, EcTypes DEF ServiceEvent, Past, StoreFits
    <2> HIDE DEF e
    <2>3. Pending(c, g)' /\ ~Awaits(Primary, g)'
      BY <1>1, <1>2, <2>1, <2>2, AnnouncedEffect DEF Awaits
    <2> QED
      BY <1>4, <1>6, <2>3 DEF UserCreates
  <1>7. CASE UserDeletes
    <2> DEFINE e == [type |-> "DELETE", gen |-> service.gen]
    <2>0. service.gen \in Gens
      BY <1>2, <1>7, EcTypes, PastIsKnown DEF UserDeletes, StoreFits, PastService
    <2>1. Announced(e) /\ service.gen \in Gens
      BY <1>7, <2>0, UserDeletesEffect
    <2>2. e \in ServiceEvent /\ e.type # "ADD"
      BY <2>1 DEF ServiceEvent
    <2> HIDE DEF e
    <2>3. Pending(c, g)' /\ ~Awaits(Primary, g)'
      BY <1>1, <1>2, <2>1, <2>2, AnnouncedEffect DEF Awaits
    <2> QED
      BY <1>4, <1>7, <2>3 DEF UserDeletes
  <1>8. CASE ReportCopies \/ ReportPuts
    BY <1>3, <1>4, <1>8, ReportsEffect DEF EcStay
  <1>9. ASSUME NEW d \in Clusters, ProxyController(d)
        PROVE  Pending(c, g)' /\ ~Awaits(Primary, g)' /\ ~Has(g)'
    <2>1. EventsStay
      BY <1>9, ProxyEffect, PutExposedEffect, DeleteImportEffect DEF ProxyController, EcStay
    <2>2. CASE PutExposed(d)
      BY <1>1, <1>3, <2>1, <2>2, PutKeepsGen DEF Has
    <2>3. CASE ~PutExposed(d)
      <3>1. UNCHANGED endpoints
        BY <1>9, <2>3, ProxyEffect, DeleteImportEffect DEF ProxyController
      <3> QED
        BY <1>3, <1>4, <2>1, <3>1
    <2> QED
      BY <2>2, <2>3
  <1>10. ASSUME NEW d \in Clusters, EndpointsController(d)
         PROVE  Pending(c, g)' /\ ~Awaits(Primary, g)' /\ ~Has(g)'
    <2>1. CASE TakeServiceEvent(d)
      <3>1. Goes(d, "fetch") /\ At(d) = "idle" /\ UNCHANGED endpoints
        BY <2>1, TakeServiceEventEffect DEF TakeServiceEvent
      <3>2. InHand(Primary, g)' <=> InHand(Primary, g)
        BY <1>2, <3>1, GoesEffect DEF InHand
      <3> QED
        BY <1>1, <1>2, <1>4, <3>1, <3>2, GoesEffect DEF Awaits
    <2>2. CASE TakeServiceDelete(d)
      <3>1. Finishes(d) /\ At(d) = "idle" /\ Events(d) # << >> /\ Events(d)[1].type = "DELETE"
        BY <2>2, TakeServiceDeleteEffect
      <3>2. ~Has(g)'
        BY <1>1, <2>2, TakeServiceDeleteEffect DEF Has
      <3>3. Pending(c, g)' /\ (Pending(Primary, g)' <=> Pending(Primary, g))
        BY <1>1, <1>2, <3>1, FinishesEffect
      <3>4. InHand(Primary, g)' <=> InHand(Primary, g)
        BY <1>2, <3>1, FinishesEffect DEF InHand
      <3> QED
        BY <1>1, <3>2, <3>3, <3>4 DEF Awaits
    <2>3. CASE CreateEndpoints(d)
      <3>1. /\ d = Primary /\ At(d) = "fetch" /\ Goes(d, "put")
            /\ endpoints' # None /\ endpoints'.gen = Events(d)[1].gen
        BY <2>3, CreateEndpointsEffect
      <3>2. Pending(c, g)' /\ (Pending(Primary, g)' <=> Pending(Primary, g))
        BY <1>1, <1>2, <3>1, GoesEffect
      <3>3. Events(d)[1].gen # g
        <4>1. ~Pending(d, g)
          BY <1>1, <3>1 DEF Awaits, InHand
        <4>2. Events(d) # << >> /\ Events(d)[1].type = "ADD" /\ Events(d) \in Seq(ServiceEvent)
          BY <3>1, EventsKnown
        <4> QED
          BY <4>1, <4>2, AddsTail DEF Pending
      <3>4. ~Awaits(Primary, g)'
        BY <1>1, <1>2, <3>1, <3>2 DEF Awaits, InHand
      <3> QED
        BY <3>1, <3>2, <3>3, <3>4 DEF Has
    <2>4. CASE FetchEndpoints(d)
      <3>1. At(d) = "fetch" /\ Goes(d, "put") /\ UNCHANGED endpoints
        BY <2>4, FetchEndpointsEffect DEF FetchEndpoints
      <3>2. /\ Pending(c, g)' /\ (Pending(Primary, g)' <=> Pending(Primary, g))
            /\ InHand(Primary, g) => InHand(Primary, g)'
        BY <1>1, <1>2, <3>1, GoesEffect DEF InHand
      <3> QED
        BY <1>1, <1>4, <3>1, <3>2 DEF Awaits
    <2>5. CASE FetchGivesUp(d) \/ KubernetesRaises(d)
      BY <2>5, FetchGivesUpEffect, KubernetesRaisesEffect
    <2>6. CASE PutFetched(d) /\ endpoints # None
      <3>1. /\ Finishes(d) /\ At(d) = "put" /\ endpoints = ec[d].base
        BY <2>6, PutFetchedEffect
      <3>2. Events(d)[1].gen # g
        <4>1. endpoints.gen = Events(d)[1].gen
          BY <1>0, <3>1 DEF Based, Clean
        <4> QED
          BY <1>1, <2>6, <4>1 DEF Has
      <3>3. Events(d) # << >>
        BY <3>1, EventsKnown
      <3>4. Pending(c, g)' /\ (Pending(Primary, g)' <=> Pending(Primary, g))
        BY <1>1, <1>2, <3>1, <3>2, <3>3, FinishesEffect
      <3>5. InHand(Primary, g) => InHand(Primary, g)'
        BY <1>2, <3>1, <3>2, <3>3, FinishesEffect DEF InHand
      <3>6. ~Has(g)'
        BY <1>1, <2>6, PutKeepsGen DEF Has
      <3> QED
        BY <1>1, <3>4, <3>5, <3>6 DEF Awaits
    <2>7. CASE PutFetched(d) /\ endpoints = None
      <3> DEFINE e == Events(d)[1]
                 u == Tail(Events(d))
      <3>1. /\ At(d) = "put" /\ OthersRest(d) /\ Events(d)' = Append(u, e)
            /\ d # Primary /\ UNCHANGED endpoints
        BY <2>7, PutFetchedEffect
      <3>2. /\ Events(d) \in Seq(ServiceEvent) /\ Events(d) # << >> /\ e \in ServiceEvent
            /\ e.type = "ADD"
        BY <3>1, EventsKnown
      <3>3. u \in Seq(ServiceEvent)
        BY <3>2, TailFacts
      <3>4. Pending(d, g) <=> Adds(u, g) \/ (e.type = "ADD" /\ e.gen = g)
        BY <3>2, AddsTail DEF Pending
      <3> HIDE DEF e, u
      <3>5. Pending(d, g)' <=> Adds(u, g) \/ (e.type = "ADD" /\ e.gen = g)
        BY <3>1, <3>2, <3>3, AddsAppend DEF Pending
      <3>6. ~Awaits(Primary, g)' /\ (c # d => Pending(c, g)')
        BY <1>1, <1>2, <3>1 DEF OthersRest, Awaits, Pending, InHand
      <3> QED
        BY <1>1, <1>4, <3>1, <3>4, <3>5, <3>6
    <2> QED
      BY <1>10, <2>1, <2>2, <2>3, <2>4, <2>5, <2>6, <2>7 DEF EndpointsController
  <1> QED
    BY <1>5, <1>6, <1>7, <1>8, <1>9, <1>10 DEF Next

-----------------------------------------------------------------------------
(* What holds until a disturbance, or until a controller is doomed to one. *)
Good == Clean /\ ~Doomed

\* The last event before a controller tells of the service as it is.
Says(e) == IF e.type = "ADD" THEN service # None /\ service.gen = e.gen ELSE service = None
InOrder(c) == /\ Chain(Events(c))
              /\ Events(c) # << >> => Says(Events(c)[Len(Events(c))])

\* The Endpoints are what the primary has made of its events.
PrimaryLeads ==
  /\ At(Primary) = "idle" =>
       IF Events(Primary) = << >> THEN endpoints.gen = service.gen
       ELSE IF Events(Primary)[1].type = "ADD" THEN endpoints = None
       ELSE Has(Events(Primary)[1].gen)
  /\ At(Primary) = "fetch" => endpoints = None
  /\ At(Primary) = "put" => Has(Events(Primary)[1].gen)

\* What the primary awaits all others await, and nothing tells of it yet.
Together == \A c \in Others, g \in Gens : Awaits(Primary, g) => Awaits(c, g)
Mentions(c, g) == \/ \E i \in 1 .. Len(pc[c].queue) : pc[c].queue[i].obj.gen = g
                  \/ pc[c].put # << >> /\ pc[c].put[1].obj.gen = g
Fresh == \A g \in Gens : Awaits(Primary, g) =>
           ~Has(g) /\ \A c \in Clusters : ~InHand(c, g) /\ ~Mentions(c, g)

\* Who has not dealt with the creation has no entry, all others have theirs.
Counted == \A g \in Gens : Has(g) => \A c \in Clusters :
             /\ Pending(c, g) => endpoints.of[c] = NoEntry
             /\ ~Pending(c, g) => endpoints.of[c].num = Pods[c]

\* The clusters with a Kubernetes service.
Hosts(c) == c = Primary \/ (Pods[c] > 0 /\ ~NodePort)
Serving(c) == \/ At(c) = "put"
              \/ At(c) = "idle" /\ IF Events(c) = << >> THEN service # None
                                   ELSE Events(c)[1].type = "DELETE"
K8Fits == \A c \in Clusters : c \in k8 <=> Hosts(c) /\ Serving(c)

Order == /\ \A c \in Clusters : InOrder(c)
         /\ PrimaryLeads /\ Together /\ Fresh /\ Counted /\ K8Fits

LEMMA InitOrder == Init => Order
  <1> SUFFICES ASSUME Init PROVE Order
    OBVIOUS
  <1>1. \A c \in Clusters : At(c) = "idle" /\ Events(c) = << >>
    BY InitTyped
  <1>2. service = None /\ endpoints = None /\ k8 = {} /\ Primary \in Clusters
    BY ServiceMeshAssumption DEF Init
  <1>3. \A c \in Clusters : \A g : ~Pending(c, g) /\ ~InHand(c, g)
    BY <1>1 DEF Pending, Adds, InHand
  <1>4. \A c \in Clusters : InOrder(c)
    BY <1>1 DEF InOrder, Chain
  <1>5. PrimaryLeads /\ K8Fits
    BY <1>1, <1>2 DEF PrimaryLeads, K8Fits, Serving
  <1>6. Together /\ Fresh /\ Counted
    BY <1>2, <1>3 DEF Together, Fresh, Counted, Awaits, Has
  <1> QED
    BY <1>4, <1>5, <1>6 DEF Order

\* Proxy controllers are told of nothing but the Endpoints there are.
LEMMA MentionsOld ==
  ASSUME Typed, [Next]_vars, Clean', NEW c \in Clusters, NEW g, Mentions(c, g)'
  PROVE  Mentions(c, g) \/ Has(g)
  <1>1. ASSUME pc'[c] = pc[c] PROVE Mentions(c, g)
    BY <1>1 DEF Mentions
  <1>2. ASSUME NEW w \in PastWrite, pc'[c].put = pc[c].put \/ pc'[c].put = << >>,
               pc'[c].queue = Append(pc[c].queue, w) \/ pc'[c].queue = pc[c].queue,
               endpoints # None, w.obj.gen = endpoints.gen
        PROVE  Mentions(c, g) \/ Has(g)
    <2> DEFINE q == pc[c].queue
               a == Append(q, w)
    <2>1. pc[c].put = pc'[c].put \/ pc'[c].put = << >>
      BY <1>2
    <2>2. CASE pc'[c].queue = q
      BY <2>1, <2>2 DEF Mentions
    <2>3. CASE pc'[c].queue = a
      <3>1. q \in Seq(PastWrite)
        BY EcTypes
      <3>2. /\ \A i \in 1 .. Len(a) : i \in 1 .. Len(q) \/ i = Len(q) + 1
            /\ a[Len(q) + 1] = w /\ \A i \in 1 .. Len(q) : a[i] = q[i]
        BY <1>2, <3>1, AppendFacts
      <3> HIDE DEF a
      <3>3. ASSUME NEW i \in 1 .. Len(a), a[i].obj.gen = g PROVE Mentions(c, g) \/ Has(g)
        <4>1. CASE i \in 1 .. Len(q)
          BY <3>2, <3>3, <4>1 DEF Mentions
        <4>2. CASE i = Len(q) + 1
          BY <1>2, <3>2, <3>3, <4>2 DEF Has
        <4> QED
          BY <3>2, <4>1, <4>2
      <3> QED
        BY <2>1, <2>3, <3>3 DEF Mentions
    <2> QED
      BY <1>2, <2>2, <2>3
  <1>3. CASE UNCHANGED pc
    BY <1>1, <1>3
  <1>4. ASSUME NEW d \in Clusters, EndpointsController(d)
        PROVE  Mentions(c, g) \/ Has(g)
    <2>1. CASE UNCHANGED pc
      BY <1>1, <2>1
    <2>2. CASE TakeServiceDelete(d) /\ pc' # pc
      <3>1. Told(pc, Clusters, Deletion) /\ endpoints # None
        BY <2>2, TakeServiceDeleteEffect
      <3>2. Deletion \in PastWrite /\ Deletion.obj.gen = endpoints.gen
        BY <3>1, EcTypes DEF Deletion, PastWrite, StoreFits
      <3> QED
        BY <1>2, <3>1, <3>2 DEF Told
    <2>3. CASE PutFetched(d) /\ pc' # pc
      <3>1. /\ endpoints # None /\ Told(pc, Wanting(endpoints'), Put(endpoints'))
            /\ endpoints' # None /\ endpoints'.gen = endpoints.gen /\ Typed'
        BY <2>3, PutFetchedEffect, PutKeepsGen DEF PutFetched
      <3>2. Put(endpoints') \in PastWrite
        BY <2>3, <3>1 DEF Typed, StoreFits, Put, PastWrite, PutFetched, PastEndpoints, Past
      <3>3. Put(endpoints').obj.gen = endpoints.gen
        BY <3>1 DEF Put
      <3> QED
        BY <1>2, <3>1, <3>2, <3>3 DEF Told
    <2> QED
      BY <1>4, <2>1, <2>2, <2>3 DEF EndpointsController, TakeServiceEvent, CreateEndpoints,
         FetchEndpoints, KubernetesRaises, FetchGivesUp
  <1>5. ASSUME NEW d \in Clusters, ProxyController(d)
        PROVE  Mentions(c, g) \/ Has(g)
    <2>1. CASE PutExposed(d) /\ endpoints # None
      <3>1. /\ endpoints' # None /\ endpoints'.gen = endpoints.gen /\ Typed'
        BY <2>1, PutExposedEffect, PutKeepsGen
      <3>2. Put(endpoints') \in PastWrite
        BY <2>1, <3>1 DEF Typed, StoreFits, Put, PastWrite, PutExposed, PastEndpoints, Past
      <3>3. Put(endpoints').obj.gen = endpoints.gen
        BY <3>1 DEF Put
      <3> QED
        BY <1>2, <2>1, <3>2, <3>3, PutExposedEffect
    <2>2. CASE PutExposed(d) /\ endpoints = None
      BY <2>2, PutExposedEffect DEF Mentions
    <2>4. ASSUME NEW peer \in Others, DeleteImport(d, peer) PROVE Mentions(c, g) \/ Has(g)
      BY <2>4, DeleteImportEffect DEF Mentions
    <2>3. CASE ~PutExposed(d) /\ ~(\E peer \in Others : DeleteImport(d, peer))
      <3>1. ProxyTakes(d) /\ pc'[d].put = IF Export(d) THEN << pc[d].queue[1] >> ELSE << >>
        BY <1>5, <2>3, ProxyEffect DEF ProxyController
      <3>2. CASE c = d
        <4>1. /\ pc[c].queue \in Seq(PastWrite) /\ pc[c].queue # << >>
              /\ pc'[c].queue = Tail(pc[c].queue)
          BY <3>1, <3>2, EcTypes DEF ProxyTakes
        <4>2. 1 \in 1 .. Len(pc[c].queue)
          BY <4>1, TailFacts
        <4>3. \A i \in 1 .. Len(pc'[c].queue) : \E j \in 1 .. Len(pc[c].queue) :
                 pc'[c].queue[i] = pc[c].queue[j]
          BY <4>1, TailFacts
        <4>4. pc'[c].put # << >> => pc'[c].put[1] = pc[c].queue[1]
          BY <3>1, <3>2
        <4> QED
          BY <4>2, <4>3, <4>4 DEF Mentions
      <3> QED
        BY <1>1, <3>1, <3>2 DEF ProxyTakes
    <2> QED
      BY <2>1, <2>2, <2>3, <2>4
  <1> QED
    BY <1>3, <1>4, <1>5 DEF Next, vars, UserCreates, UserDeletes, ReportCopies, ReportPuts

LEMMA HeadIsPending ==
  ASSUME Typed, NEW c \in Clusters, Events(c) # << >>, Events(c)[1].type = "ADD"
  PROVE  Pending(c, Events(c)[1].gen) /\ Events(c)[1].gen \in Gens
  BY EventsKnown, AddsTail DEF Pending

LEMMA InHandIsThere ==
  ASSUME Typed, Good, Order, NEW c \in Clusters, At(c) = "put"
  PROVE  Has(Events(c)[1].gen) /\ endpoints # None
  <1> DEFINE g == Events(c)[1].gen
  <1>1. Pending(c, g) /\ g \in Gens /\ InHand(c, g)
    BY EventsKnown, HeadIsPending DEF InHand
  <1> HIDE DEF g
  <1>2. CASE c = Primary
    BY <1>2 DEF Order, PrimaryLeads, Has, g
  <1>3. CASE c # Primary /\ ~Has(g)
    <2>1. Awaits(Primary, g)
      BY <1>1, <1>3 DEF Good, Doomed, Others
    <2> QED
      BY <1>1, <2>1 DEF Order, Fresh
  <1> QED
    BY <1>2, <1>3 DEF Has, g

\* A step that touches neither events nor creations.
LEMMA QuietKeepsOrder ==
  ASSUME Typed, Order, [Next]_vars, Clean', EventsStay, UNCHANGED k8,
         service' = None <=> service = None, service'.gen = service.gen,
         endpoints' = None <=> endpoints = None, endpoints'.gen = endpoints.gen,
         endpoints # None => \A c \in Clusters :
           /\ endpoints'.of[c].num = endpoints.of[c].num
           /\ endpoints.of[c] = NoEntry => endpoints'.of[c] = NoEntry
  PROVE  Order'
  <1>1. ASSUME NEW c \in Clusters
        PROVE  /\ At(c)' = At(c) /\ Events(c)' = Events(c)
               /\ \A g : /\ Pending(c, g)' <=> Pending(c, g)
                         /\ InHand(c, g)' <=> InHand(c, g)
                         /\ Awaits(c, g)' <=> Awaits(c, g)
    BY StaysEffect DEF EventsStay, Awaits
  <1>2. Primary \in Clusters /\ Others \subseteq Clusters
    BY ServiceMeshAssumption DEF Others
  <1>3. \A g : Has(g)' <=> Has(g)
    BY DEF Has
  <1>4. (\A c \in Clusters : InOrder(c))'
    BY <1>1 DEF Order, InOrder, Says
  <1>5. PrimaryLeads'
    BY <1>1, <1>2 DEF Order, PrimaryLeads, Has
  <1>6. Together'
    BY <1>1, <1>2 DEF Order, Together
  <1>7. Fresh'
    BY <1>1, <1>2, <1>3, MentionsOld DEF Order, Fresh
  <1>8. Counted'
    BY <1>1, <1>3 DEF Order, Counted, Has
  <1>9. K8Fits'
    BY <1>1 DEF Order, K8Fits, Hosts, Serving
  <1> QED
    BY <1>4, <1>5, <1>6, <1>7, <1>8, <1>9 DEF Order

\* An event is announced, and fits the last one.
LEMMA AnnouncedKeepsOrder ==
  ASSUME Typed, NEW e \in ServiceEvent, Announced(e), NEW c \in Clusters, InOrder(c),
         Events(c) # << >> => Follows(Events(c)[Len(Events(c))], e),
         IF e.type = "ADD" THEN service' # None /\ service'.gen = e.gen ELSE service' = None
  PROVE  InOrder(c)'
  <1>1. Events(c)' = Append(Events(c), e) /\ Events(c) \in Seq(ServiceEvent)
    BY EventsKnown DEF Announced
  <1>2. Chain(Append(Events(c), e))
    BY <1>1, ChainAppend DEF InOrder
  <1>3. Append(Events(c), e)[Len(Append(Events(c), e))] = e
    BY <1>1, AppendFacts
  <1> QED
    BY <1>1, <1>2, <1>3 DEF InOrder, Says

LEMMA LastKnown ==
  ASSUME Typed, NEW c \in Clusters, Events(c) # << >>
  PROVE  /\ Events(c)[Len(Events(c))] \in ServiceEvent
         /\ Events(c)[Len(Events(c))].gen \in Past
  <1>1. Events(c) \in Seq(PastEvent) /\ PastEvent \subseteq ServiceEvent
    BY EventsFacts, EcTypes, PastIsKnown
  <1>2. Len(Events(c)) \in 1 .. Len(Events(c))
    BY <1>1, EmptySeq
  <1>3. Events(c)[Len(Events(c))] \in PastEvent
    BY <1>1, <1>2, ElementOfSeq
  <1> QED
    BY <1>1, <1>3 DEF PastEvent

LEMMA UserCreatesKeepsOrder ==
  ASSUME Typed, Order, UserCreates, [Next]_vars, Clean'
  PROVE  Order'
  <1> DEFINE n == changes + 1
             e == [type |-> "ADD", gen |-> service'.gen]
  <1>1. /\ Announced(e) /\ service' # None /\ service'.gen = n /\ service = None
        /\ UNCHANGED <<endpoints, k8, pc>>
    BY UserCreatesEffect DEF UserCreates, User, world
  <1>2. /\ e \in ServiceEvent /\ e.type = "ADD" /\ e.gen = n /\ n \in Gens /\ n \notin Past
        /\ \A g \in Past : g < n
    <2>1. changes \in Nat /\ n <= MaxChanges /\ MaxChanges \in Nat
      BY <1>1, ServiceMeshAssumption, EventsKnown DEF Typed, StoreFits, UserCreates, User
    <2> QED
      BY <1>1, <2>1 DEF ServiceEvent, Gens, Past
  <1> HIDE DEF e, n
  <1>3. ASSUME NEW c \in Clusters
        PROVE  /\ \A g : /\ Pending(c, g)' <=> Pending(c, g) \/ g = n
                         /\ InHand(c, g)' <=> InHand(c, g)
               /\ Events(c)' # << >>
               /\ Events(c)'[1] = IF Events(c) = << >> THEN e ELSE Events(c)[1]
               /\ At(c)' = At(c)
    BY <1>1, <1>2, AnnouncedEffect
  <1>4. ASSUME NEW c \in Clusters
        PROVE  /\ \A g : Pending(c, g) => g # n
               /\ ~InHand(c, n) /\ ~Mentions(c, n) /\ ~Has(n)
    <2>1. \A g : Pending(c, g) => g # n
      BY <1>2, EventsKnown
    <2>2. ~InHand(c, n)
      BY <1>2, EventsKnown DEF InHand
    <2>3. ~Has(n)
      BY <1>2 DEF Has, Typed, StoreFits, PastEndpoints
    <2>4. ~Mentions(c, n)
      <3>1. \A i \in 1 .. Len(pc[c].queue) : pc[c].queue[i] \in PastWrite
        BY EcTypes, ElementOfSeq
      <3>2. pc[c].put # << >> => pc[c].put[1] \in PastWrite
        BY EcTypes, TailFacts
      <3> QED
        BY <1>2, <3>1, <3>2 DEF Mentions, PastWrite, PastEndpoints
    <2> QED
      BY <2>1, <2>2, <2>3, <2>4
  <1>5. Primary \in Clusters /\ Others \subseteq Clusters
    BY ServiceMeshAssumption DEF Others
  <1>6. \A g : (Has(g)' <=> Has(g)) /\ \A c \in Clusters : Mentions(c, g)' <=> Mentions(c, g)
    BY <1>1 DEF Has, Mentions
  <1>7. (\A c \in Clusters : InOrder(c))'
    <2>1. ASSUME NEW c \in Clusters PROVE InOrder(c)'
      <3>1. InOrder(c)
        BY DEF Order
      <3>2. ASSUME Events(c) # << >> PROVE Follows(Events(c)[Len(Events(c))], e)
        <4>1. Events(c)[Len(Events(c))].type # "ADD" /\ Events(c)[Len(Events(c))].gen < n
          BY <1>1, <1>2, <3>1, <3>2, LastKnown DEF InOrder, Says
        <4> QED
          BY <1>2, <4>1 DEF Follows
      <3> QED
        BY <1>1, <1>2, <3>1, <3>2, AnnouncedKeepsOrder
    <2> QED
      BY <2>1
  <1>8. PrimaryLeads'
    <2>1. endpoints.gen = service.gen => endpoints = None
      <3>1. 0 \notin Past /\ endpoints \in PastEndpoints \cup {None}
        BY <1>5, EcTypes, PastIsKnown DEF StoreFits
      <3> QED
        BY <1>1, <3>1 DEF None, PastEndpoints
    <2>2. At(Primary) # "idle" => Events(Primary) # << >>
      BY <1>5, EventsKnown
    <2>3. PrimaryLeads
      BY DEF Order
    <2> QED
      BY <1>1, <1>2, <1>3, <1>5, <2>1, <2>2, <2>3 DEF PrimaryLeads, Has
  <1>9. Together'
    BY <1>3, <1>4, <1>5 DEF Order, Together, Awaits
  <1>10. Fresh'
    BY <1>3, <1>4, <1>5, <1>6 DEF Order, Fresh, Awaits
  <1>11. Counted'
    BY <1>1, <1>3, <1>4, <1>5, <1>6 DEF Order, Counted
  <1>12. K8Fits'
    <2>1. ASSUME NEW c \in Clusters PROVE Serving(c)' <=> Serving(c)
      <3>1. At(c) # "idle" => Events(c) # << >>
        BY EventsKnown
      <3> QED
        BY <1>1, <1>2, <1>3, <3>1 DEF Serving
    <2> QED
      BY <1>1, <2>1 DEF Order, K8Fits, Hosts
  <1> QED
    BY <1>7, <1>8, <1>9, <1>10, <1>11, <1>12 DEF Order

LEMMA UserDeletesKeepsOrder ==
  ASSUME Typed, Order, UserDeletes, [Next]_vars, Clean'
  PROVE  Order'
  <1> DEFINE e == [type |-> "DELETE", gen |-> service.gen]
  <1>1. /\ Announced(e) /\ service' = None /\ service # None
        /\ UNCHANGED <<endpoints, k8, pc>>
    BY UserDeletesEffect DEF UserDeletes, world
  <1>2. Primary \in Clusters /\ Others \subseteq Clusters
    BY ServiceMeshAssumption DEF Others
  <1>3. service.gen \in Gens /\ service.gen # 0 /\ StoreFits
    BY <1>1, <1>2, EcTypes, PastIsKnown DEF StoreFits, PastService
  <1>4. e \in ServiceEvent /\ e.type = "DELETE" /\ e.gen = service.gen
    BY <1>3 DEF ServiceEvent
  <1> HIDE DEF e
  <1>5. ASSUME NEW c \in Clusters
        PROVE  /\ \A g : /\ Pending(c, g)' <=> Pending(c, g)
                         /\ InHand(c, g)' <=> InHand(c, g)
                         /\ Awaits(c, g)' <=> Awaits(c, g)
               /\ Events(c)' # << >>
               /\ Events(c)'[1] = IF Events(c) = << >> THEN e ELSE Events(c)[1]
               /\ At(c)' = At(c)
    BY <1>1, <1>4, AnnouncedEffect DEF Awaits
  <1>6. \A g : (Has(g)' <=> Has(g)) /\ \A c \in Clusters : Mentions(c, g)' <=> Mentions(c, g)
    BY <1>1 DEF Has, Mentions
  <1>7. (\A c \in Clusters : InOrder(c))'
    <2>1. ASSUME NEW c \in Clusters PROVE InOrder(c)'
      <3>1. InOrder(c)
        BY DEF Order
      <3>2. Events(c) # << >> => Follows(Events(c)[Len(Events(c))], e)
        BY <1>1, <1>4, <3>1 DEF InOrder, Says, Follows
      <3> QED
        BY <1>1, <1>4, <3>1, <3>2, AnnouncedKeepsOrder
    <2> QED
      BY <2>1
  <1>8. PrimaryLeads'
    <2>1. endpoints.gen = service.gen => Has(e.gen)
      BY <1>3, <1>4 DEF None, Has
    <2>2. At(Primary) # "idle" => Events(Primary) # << >>
      BY <1>2, EventsKnown
    <2>3. PrimaryLeads
      BY DEF Order
    <2> QED
      BY <1>1, <1>2, <1>4, <1>5, <2>1, <2>2, <2>3 DEF PrimaryLeads, Has
  <1>9. Together'
    BY <1>2, <1>5 DEF Order, Together
  <1>10. Fresh'
    BY <1>2, <1>5, <1>6 DEF Order, Fresh
  <1>11. Counted'
    BY <1>1, <1>5, <1>6 DEF Order, Counted
  <1>12. K8Fits'
    <2>1. ASSUME NEW c \in Clusters PROVE Serving(c)' <=> Serving(c)
      <3>1. At(c) # "idle" => Events(c) # << >>
        BY EventsKnown
      <3> QED
        BY <1>1, <1>4, <1>5, <3>1 DEF Serving
    <2> QED
      BY <1>1, <2>1 DEF Order, K8Fits, Hosts
  <1> QED
    BY <1>7, <1>8, <1>9, <1>10, <1>11, <1>12 DEF Order

\* What is next for a controller that has finished an event.
LEMMA FinishesInOrder ==
  ASSUME Typed, Order, NEW c \in Clusters, Finishes(c), Events(c) # << >>, UNCHANGED service
  PROVE  /\ (\A d \in Clusters : InOrder(d))'
         /\ Events(c)[1].type = "ADD" =>
              /\ \A g : g = Events(c)[1].gen => ~Pending(c, g)'
              /\ Events(c)' = << >> => service # None /\ service.gen = Events(c)[1].gen
              /\ Events(c)' # << >> => /\ Events(c)'[1].type = "DELETE"
                                       /\ Events(c)'[1].gen = Events(c)[1].gen
         /\ Events(c)[1].type # "ADD" =>
              /\ Events(c)' = << >> => service = None
              /\ Events(c)' # << >> => Events(c)'[1].type = "ADD"
  <1> DEFINE q == Events(c)
             u == Tail(q)
  <1>1. /\ q \in Seq(ServiceEvent) /\ q # << >> /\ Chain(q) /\ Says(q[Len(q)])
        /\ Events(c)' = u /\ \A d \in Clusters : d # c => Events(d)' = Events(d)
        /\ \A d \in Clusters : InOrder(d)
    BY EventsKnown DEF Finishes, OthersRest, Order, InOrder
  <1>2. /\ Chain(u)
        /\ q[1].type = "ADD" => ~Adds(u, q[1].gen)
        /\ u # << >> => Follows(q[1], u[1])
        /\ u = << >> => q[1] = q[Len(q)]
    BY <1>1, ChainTail
  <1>3. u # << >> => u[Len(u)] = q[Len(q)]
    BY <1>1, TailFacts
  <1> HIDE DEF q, u
  <1>4. ASSUME NEW d \in Clusters PROVE InOrder(d)'
    <2>1. InOrder(c)'
      BY <1>1, <1>2, <1>3 DEF InOrder, Says
    <2>2. CASE d # c
      BY <1>1, <2>2 DEF InOrder, Says
    <2> QED
      BY <2>1, <2>2
  <1>5. \A g : Pending(c, g)' <=> Adds(u, g)
    BY <1>1 DEF Pending
  <1> QED
    BY <1>1, <1>2, <1>4, <1>5 DEF Says, Follows, q, u

LEMMA TakeServiceEventKeepsOrder ==
  ASSUME Typed, Order, NEW c \in Clusters, TakeServiceEvent(c), [Next]_vars, Clean'
  PROVE  Order'
  <1>1. /\ Goes(c, "fetch") /\ At(c) = "idle" /\ Events(c) # << >> /\ Events(c)[1].type = "ADD"
        /\ UNCHANGED <<service, endpoints, k8>>
    BY TakeServiceEventEffect DEF TakeServiceEvent, world
  <1>2. ASSUME NEW d \in Clusters
        PROVE  /\ \A g : /\ Pending(d, g)' <=> Pending(d, g)
                         /\ InHand(d, g)' <=> InHand(d, g)
                         /\ Awaits(d, g)' <=> Awaits(d, g)
               /\ Events(d)' = Events(d)
               /\ At(d)' = IF d = c THEN "fetch" ELSE At(d)
    BY <1>1, GoesEffect DEF Awaits, InHand
  <1>3. Primary \in Clusters /\ Others \subseteq Clusters
    BY ServiceMeshAssumption DEF Others
  <1>4. \A g : Has(g)' <=> Has(g)
    BY <1>1 DEF Has
  <1>5. (\A d \in Clusters : InOrder(d))'
    BY <1>1, <1>2 DEF Order, InOrder, Says
  <1>6. PrimaryLeads'
    BY <1>1, <1>2, <1>3 DEF Order, PrimaryLeads, Has
  <1>7. Together' /\ Fresh' /\ Counted'
    <2>1. Together'
      BY <1>2, <1>3 DEF Order, Together
    <2>2. Fresh'
      BY <1>2, <1>3, <1>4, MentionsOld DEF Order, Fresh
    <2>3. Counted'
      BY <1>1, <1>2, <1>4 DEF Order, Counted
    <2> QED
      BY <2>1, <2>2, <2>3
  <1>8. K8Fits'
    BY <1>1, <1>2 DEF Order, K8Fits, Hosts, Serving
  <1> QED
    BY <1>5, <1>6, <1>7, <1>8 DEF Order

LEMMA TakeServiceDeleteKeepsOrder ==
  ASSUME Typed, Order, NEW c \in Clusters, TakeServiceDelete(c), [Next]_vars, Clean'
  PROVE  Order'
  <1>1. /\ Finishes(c) /\ At(c) = "idle" /\ Events(c) # << >> /\ Events(c)[1].type = "DELETE"
        /\ UNCHANGED service /\ k8' = k8 \ {c}
        /\ IF c = Primary THEN endpoints' = None ELSE UNCHANGED endpoints
    <2>1. c = Primary => endpoints # None
      BY TakeServiceDeleteEffect DEF Order, PrimaryLeads, Has
    <2>2. ~Fail
      BY EcTypes, FailFacts
    <2> QED
      BY <2>1, <2>2, TakeServiceDeleteEffect DEF TakeServiceDelete, DeleteService
  <1>2. ASSUME NEW d \in Clusters
        PROVE  /\ \A g : /\ Pending(d, g)' <=> Pending(d, g)
                         /\ InHand(d, g)' <=> InHand(d, g)
                         /\ Awaits(d, g)' <=> Awaits(d, g)
               /\ d # c => Events(d)' = Events(d) /\ At(d)' = At(d)
               /\ d = c => At(d)' = "idle"
    BY <1>1, FinishesEffect DEF Awaits, InHand
  <1>3. Primary \in Clusters /\ Others \subseteq Clusters
    BY ServiceMeshAssumption DEF Others
  <1>4. \A g : Has(g)' => Has(g)
    BY <1>1 DEF Has
  <1>5. /\ (\A d \in Clusters : InOrder(d))'
        /\ Events(c)' = << >> => service = None
        /\ Events(c)' # << >> => Events(c)'[1].type = "ADD"
    BY <1>1, FinishesInOrder
  <1>6. PrimaryLeads'
    <2>1. CASE c = Primary
      BY <1>1, <1>2, <1>5, <2>1 DEF PrimaryLeads, None
    <2>2. CASE c # Primary
      BY <1>1, <1>2, <1>3, <2>2 DEF Order, PrimaryLeads, Has
    <2> QED
      BY <2>1, <2>2
  <1>7. Together' /\ Fresh' /\ Counted'
    <2>1. Together'
      BY <1>2, <1>3 DEF Order, Together
    <2>2. Fresh'
      BY <1>2, <1>3, <1>4, MentionsOld DEF Order, Fresh
    <2>3. Counted'
      BY <1>1, <1>2, <1>4 DEF Order, Counted, Has
    <2> QED
      BY <2>1, <2>2, <2>3
  <1>8. K8Fits'
    <2>1. ~Serving(c)'
      BY <1>1, <1>2, <1>5 DEF Serving
    <2>2. \A d \in Clusters : d # c => (Serving(d)' <=> Serving(d))
      BY <1>1, <1>2 DEF Serving
    <2> QED
      BY <1>1, <2>1, <2>2 DEF Order, K8Fits, Hosts
  <1> QED
    BY <1>5, <1>6, <1>7, <1>8 DEF Order

LEMMA CreateEndpointsKeepsOrder ==
  ASSUME Typed, Order, NEW c \in Clusters, CreateEndpoints(c), [Next]_vars, Clean'
  PROVE  Order'
  <1> DEFINE g0 == Events(c)[1].gen
  <1>1. /\ c = Primary /\ At(c) = "fetch" /\ Goes(c, "put")
        /\ endpoints = None /\ endpoints' # None /\ endpoints'.gen = g0
        /\ \A d \in Clusters : endpoints'.of[d] = NoEntry
        /\ UNCHANGED <<service, pc>> /\ k8' = k8 \cup {c}
    <2>1. k8' = k8 \cup {c}
      BY DEF CreateEndpoints, K8After
    <2> QED
      BY <2>1, CreateEndpointsEffect DEF CreateEndpoints
  <1>2. ASSUME NEW d \in Clusters
        PROVE  /\ \A g : /\ Pending(d, g)' <=> Pending(d, g)
                         /\ InHand(d, g)' <=> (IF d = c THEN g = g0 ELSE InHand(d, g))
               /\ Events(d)' = Events(d)
               /\ At(d)' = IF d = c THEN "put" ELSE At(d)
    BY <1>1, GoesEffect
  <1>3. Primary \in Clusters /\ Others \subseteq Clusters /\ g0 \in Gens /\ Awaits(Primary, g0)
    BY <1>1, EventsKnown, HeadIsPending DEF Others, Awaits, InHand
  <1> HIDE DEF g0
  <1>4. \A g : (Has(g)' => g = g0) /\ (Awaits(Primary, g)' <=> Awaits(Primary, g) /\ g # g0)
    BY <1>1, <1>2, <1>3 DEF Has, Awaits, InHand
  <1>5. \A d \in Others : \A g : Awaits(d, g)' <=> Awaits(d, g)
    BY <1>1, <1>2, <1>3 DEF Awaits, Others
  <1>6. (\A d \in Clusters : InOrder(d))'
    BY <1>1, <1>2 DEF Order, InOrder, Says
  <1>7. PrimaryLeads'
    BY <1>1, <1>2 DEF PrimaryLeads, Has, g0
  <1>8. Together'
    BY <1>4, <1>5 DEF Order, Together
  <1>9. Fresh'
    <2>1. \A d \in Clusters : \A g : Mentions(d, g)' => Mentions(d, g)
      BY <1>1 DEF Mentions
    <2>2. \A d \in Clusters, g \in Gens : Awaits(Primary, g)' => ~InHand(d, g)'
      BY <1>1, <1>2, <1>4 DEF Order, Fresh
    <2> QED
      BY <1>4, <2>1, <2>2 DEF Order, Fresh
  <1>10. Counted'
    <2>1. \A d \in Clusters : \A g : g = g0 => Pending(d, g)'
      BY <1>2, <1>3 DEF Order, Together, Awaits, Others
    <2> QED
      BY <1>1, <1>4, <2>1 DEF Counted
  <1>11. K8Fits'
    <2>1. Serving(c)'
      BY <1>2 DEF Serving
    <2>2. \A d \in Clusters : d # c => (Serving(d)' <=> Serving(d))
      BY <1>1, <1>2 DEF Serving
    <2> QED
      BY <1>1, <2>1, <2>2 DEF Order, K8Fits, Hosts
  <1> QED
    BY <1>6, <1>7, <1>8, <1>9, <1>10, <1>11 DEF Order

LEMMA FetchEndpointsKeepsOrder ==
  ASSUME Typed, Order, NEW c \in Clusters, FetchEndpoints(c), [Next]_vars, Clean'
  PROVE  Order'
  <1> DEFINE g0 == Events(c)[1].gen
  <1>1. /\ At(c) = "fetch" /\ Goes(c, "put") /\ endpoints # None /\ endpoints.gen = g0
        /\ UNCHANGED <<service, endpoints, pc>> /\ k8' = K8After(c, endpoints)
    BY FetchEndpointsEffect DEF FetchEndpoints
  <1>2. ASSUME NEW d \in Clusters
        PROVE  /\ \A g : /\ Pending(d, g)' <=> Pending(d, g)
                         /\ InHand(d, g)' <=> (IF d = c THEN g = g0 ELSE InHand(d, g))
               /\ Events(d)' = Events(d)
               /\ At(d)' = IF d = c THEN "put" ELSE At(d)
    BY <1>1, GoesEffect
  <1>3. /\ Primary \in Clusters /\ Others \subseteq Clusters /\ c # Primary
        /\ g0 \in Gens /\ Pending(c, g0) /\ ~InHand(c, g0) /\ Has(g0) /\ ~Awaits(Primary, g0)
    <2>1. Primary \in Clusters /\ Others \subseteq Clusters
      BY ServiceMeshAssumption DEF Others
    <2>2. c # Primary
      BY <1>1 DEF Order, PrimaryLeads
    <2>3. g0 \in Gens /\ Pending(c, g0) /\ Has(g0)
      BY <1>1, EventsKnown, HeadIsPending DEF Has
    <2>4. ~InHand(c, g0) /\ ~Awaits(Primary, g0)
      BY <1>1, <2>3 DEF InHand, Order, Fresh
    <2> QED
      BY <2>1, <2>2, <2>3, <2>4
  <1> HIDE DEF g0
  <1>4. \A g : (Has(g)' <=> Has(g)) /\ (Awaits(Primary, g)' <=> Awaits(Primary, g))
    BY <1>1, <1>2, <1>3 DEF Has, Awaits
  <1>5. (\A d \in Clusters : InOrder(d))'
    BY <1>1, <1>2 DEF Order, InOrder, Says
  <1>6. PrimaryLeads'
    BY <1>1, <1>2, <1>3 DEF Order, PrimaryLeads, Has
  <1>7. Together'
    BY <1>2, <1>3, <1>4 DEF Order, Together, Awaits
  <1>8. Fresh'
    BY <1>1, <1>2, <1>3, <1>4, MentionsOld DEF Order, Fresh
  <1>9. Counted'
    BY <1>1, <1>2, <1>4 DEF Order, Counted
  <1>10. K8Fits'
    <2>1. Serving(c)' /\ ~Serving(c)
      BY <1>1, <1>2 DEF Serving
    <2>2. \A d \in Clusters : d # c => (Serving(d)' <=> Serving(d))
      BY <1>1, <1>2 DEF Serving
    <2>3. ~Listed(endpoints, c) /\ c \notin k8
      BY <1>3, <2>1 DEF Order, Counted, K8Fits, Listed
    <2>4. Pods[c] \in Nat /\ k8' = IF Hosts(c) THEN k8 \cup {c} ELSE k8
      BY <1>1, <1>3, <2>3, ServiceMeshAssumption DEF K8After, Hosts
    <2> QED
      BY <2>1, <2>2, <2>3, <2>4 DEF Order, K8Fits, Hosts
  <1> QED
    BY <1>5, <1>6, <1>7, <1>8, <1>9, <1>10 DEF Order

\* What PutFetched does when nothing has gone wrong.
LEMMA PutFetchedIsWelcome ==
  ASSUME Typed, Based, Good, Order, NEW c \in Clusters, PutFetched(c), Clean'
  PROVE  /\ Finishes(c) /\ At(c) = "put" /\ endpoints # None
         /\ endpoints' = WithEntry(c, endpoints)
         /\ Told(pc, Wanting(endpoints'), Put(endpoints'))
         /\ Has(Events(c)[1].gen) /\ endpoints.of[c] = NoEntry
         /\ endpoints \in Endpoints
  <1>1. /\ At(c) = "put"
    BY PutFetchedEffect
  <1>2. endpoints # None /\ Has(Events(c)[1].gen)
    BY <1>1, InHandIsThere
  <1>3. Pending(c, Events(c)[1].gen) /\ Events(c)[1].gen \in Gens
    BY <1>1, EventsKnown, HeadIsPending
  <1>4. endpoints.of[c] = NoEntry
    BY <1>2, <1>3 DEF Order, Counted
  <1>5. endpoints \in Endpoints
    BY <1>2, EcTypes, PastIsKnown DEF StoreFits
  <1> QED
    BY <1>1, <1>2, <1>4, <1>5, PutFetchedEffect

LEMMA PutFetchedKeepsOrder ==
  ASSUME Typed, Based, Good, Order, NEW c \in Clusters, PutFetched(c), [Next]_vars, Clean'
  PROVE  Order'
  <1> DEFINE g0 == Events(c)[1].gen
  <1>1. /\ Finishes(c) /\ At(c) = "put" /\ endpoints # None /\ endpoints' = WithEntry(c, endpoints)
        /\ Has(g0) /\ endpoints \in Endpoints /\ UNCHANGED <<service, k8>>
    BY PutFetchedIsWelcome DEF PutFetched, world
  <1>2. /\ Events(c) # << >> /\ Events(c)[1].type = "ADD" /\ Pending(c, g0) /\ InHand(c, g0)
        /\ g0 \in Gens
    BY <1>1, EventsKnown, HeadIsPending DEF InHand
  <1>3. ASSUME NEW d \in Clusters
        PROVE  /\ \A g : /\ Pending(d, g) <=> Pending(d, g)' \/ (d = c /\ g = g0)
                         /\ InHand(d, g)' <=> d # c /\ InHand(d, g)
               /\ d # c => Events(d)' = Events(d) /\ At(d)' = At(d)
               /\ d = c => At(d)' = "idle"
    BY <1>1, <1>2, FinishesEffect
  <1>4. /\ (\A d \in Clusters : InOrder(d))'
        /\ \A g : g = g0 => ~Pending(c, g)'
        /\ Events(c)' = << >> => service # None /\ service.gen = g0
        /\ Events(c)' # << >> => /\ Events(c)'[1].type = "DELETE"
                                 /\ Events(c)'[1].gen = g0
    BY <1>1, <1>2, FinishesInOrder
  <1>5. /\ endpoints' # None /\ endpoints'.gen = endpoints.gen /\ endpoints'.of[c].num = Pods[c]
        /\ \A d \in Clusters : d # c => endpoints'.of[d] = endpoints.of[d]
    BY <1>1, PutKeepsGen, WithEntryFacts
  <1>6. Primary \in Clusters /\ Others \subseteq Clusters
    BY ServiceMeshAssumption DEF Others
  <1>7. g0 = endpoints.gen
    BY <1>1 DEF Has
  <1> HIDE DEF g0
  <1>8. \A g : Has(g)' <=> Has(g)
    BY <1>1, <1>5 DEF Has
  <1>9. ASSUME NEW d \in Clusters, NEW g PROVE Awaits(d, g)' <=> Awaits(d, g)
    BY <1>1, <1>2, <1>3, <1>4 DEF Awaits, InHand, g0
  <1>10. PrimaryLeads'
    <2>1. CASE c = Primary
      <3>1. /\ Events(Primary)' = << >> => endpoints'.gen = service'.gen
            /\ Events(Primary)' # << >> => /\ Events(Primary)'[1].type = "DELETE"
                                           /\ endpoints' # None
                                           /\ endpoints'.gen = Events(Primary)'[1].gen
        BY <1>1, <1>4, <1>5, <1>7, <2>1
      <3>2. At(Primary)' = "idle"
        BY <1>3, <2>1
      <3> QED
        BY <3>1, <3>2 DEF PrimaryLeads, Has
    <2>2. CASE c # Primary
      BY <1>1, <1>3, <1>5, <1>6, <2>2 DEF Order, PrimaryLeads, Has
    <2> QED
      BY <2>1, <2>2
  <1>11. Together'
    BY <1>6, <1>9 DEF Order, Together
  <1>12. Fresh'
    BY <1>3, <1>6, <1>8, <1>9, MentionsOld DEF Order, Fresh
  <1>13. Counted'
    <2> SUFFICES ASSUME NEW g \in Gens, Has(g)', NEW d \in Clusters
                 PROVE  /\ Pending(d, g)' => endpoints'.of[d] = NoEntry
                        /\ ~Pending(d, g)' => endpoints'.of[d].num = Pods[d]
      BY DEF Counted
    <2>1. g = g0 /\ Has(g)
      BY <1>7, <1>8 DEF Has
    <2>2. CASE d = c
      <3>1. ~Pending(c, g)'
        BY <1>4, <2>1
      <3>2. endpoints'.of[d].num = Pods[d]
        BY <1>5, <2>2
      <3>3. ~Pending(d, g)'
        BY <1>3, <2>2, <3>1
      <3> QED
        BY <3>2, <3>3
    <2>3. CASE d # c
      BY <1>3, <1>5, <2>1, <2>3 DEF Order, Counted
    <2> QED
      BY <2>2, <2>3
  <1>14. K8Fits'
    <2>1. Serving(c)
      BY <1>1 DEF Serving
    <2>2. Serving(c)'
      BY <1>1, <1>3, <1>4 DEF Serving
    <2>3. \A d \in Clusters : d # c => (Serving(d)' <=> Serving(d))
      BY <1>1, <1>3 DEF Serving
    <2> QED
      BY <1>1, <2>1, <2>2, <2>3 DEF Order, K8Fits, Hosts
  <1> QED
    BY <1>4, <1>10, <1>11, <1>12, <1>13, <1>14 DEF Order

LEMMA OrderStep ==
  ASSUME Typed, Based, Good, Order, [Next]_vars, Clean'
  PROVE  Order'
  <1>1. CASE UNCHANGED vars
    <2>1. EventsStay /\ UNCHANGED <<k8, service, endpoints>>
      BY <1>1, EcQuiet DEF vars, world, EcStay
    <2> QED
      BY <2>1, QuietKeepsOrder
  <1>2. CASE ReportCopies \/ ReportPuts
    <2>1. /\ EventsStay /\ UNCHANGED <<k8, endpoints>> /\ service'.gen = service.gen
          /\ service' = None <=> service = None
      BY <1>2, ReportsEffect DEF EcStay, world
    <2> QED
      BY <2>1, QuietKeepsOrder
  <1>3. ASSUME NEW c \in Clusters, ProxyController(c) PROVE Order'
    <2>1. EventsStay /\ UNCHANGED <<k8, service>>
      BY <1>3, ProxyEffect, PutExposedEffect, DeleteImportEffect
         DEF ProxyController, EcStay, PutExposed, world
    <2>2. CASE PutExposed(c) /\ endpoints # None
      <3>1. endpoints' = Exposing(c, endpoints) /\ Listed(endpoints, c)
        BY <2>2, PutExposedEffect
      <3>2. endpoints \in Endpoints
        BY <2>2, EcTypes, PastIsKnown DEF StoreFits
      <3>3. /\ endpoints'.of[c].num = endpoints.of[c].num
            /\ \A d \in Clusters : d # c => endpoints'.of[d] = endpoints.of[d]
        BY <3>1, <3>2, EntryExposed DEF Exposing
      <3>4. endpoints' # None /\ endpoints'.gen = endpoints.gen
        BY <2>2, PutKeepsGen
      <3>5. \A d \in Clusters : /\ endpoints'.of[d].num = endpoints.of[d].num
                                /\ endpoints.of[d] = NoEntry => endpoints'.of[d] = NoEntry
        BY <3>1, <3>3 DEF Listed
      <3> QED
        BY <2>1, <2>2, <3>4, <3>5, QuietKeepsOrder
    <2>3. CASE ~(PutExposed(c) /\ endpoints # None)
      <3>1. UNCHANGED endpoints
        BY <1>3, <2>3, PutExposedEffect, ProxyEffect, DeleteImportEffect DEF ProxyController
      <3> QED
        BY <2>1, <3>1, QuietKeepsOrder
    <2> QED
      BY <2>2, <2>3
  <1>4. ASSUME NEW c \in Clusters, EndpointsController(c) PROVE Order'
    BY <1>4, TakeServiceEventKeepsOrder, TakeServiceDeleteKeepsOrder, CreateEndpointsKeepsOrder,
       FetchEndpointsKeepsOrder, KubernetesRaisesEffect, FetchGivesUpEffect, PutFetchedKeepsOrder
       DEF EndpointsController
  <1> QED
    BY <1>1, <1>2, <1>3, <1>4, UserCreatesKeepsOrder, UserDeletesKeepsOrder DEF Next

-----------------------------------------------------------------------------
(* The proxy controllers.                                                  *)
Queue(c) == pc[c].queue
Shown == IF endpoints = None THEN {} ELSE ExposedOthers(endpoints)
Lists(c) == endpoints # None /\ Listed(endpoints, c)

\* The last event of the primary tells of the Endpoints as they are, and the
\* primary has imported what the last put showed.
Leaves(w) == IF w.type = "UPDATE" THEN endpoints = w.obj ELSE Shown = {}
ImportsFollow ==
  /\ Queue(Primary) = << >> => Shown \subseteq Imported /\ (pc[Primary].peers # {} => Shown = {})
  /\ Queue(Primary) # << >> => Leaves(Queue(Primary)[Len(Queue(Primary))])

\* As long as nothing is imported twice: the primary sees more from one put
\* to the next, a deletion shows what the put before it has shown, and what
\* is imported then is what the primary goes through.
Ex(w) == ExposedOthers(w.obj)
Precedes(v, w) ==
  /\ v.type = "UPDATE" => Ex(v) \subseteq Ex(w)
  /\ w.type = "DELETE" => Ex(w) \subseteq IF v.type = "UPDATE" THEN Ex(v) ELSE {}
Orderly(q) == \A i \in 1 .. Len(q) : i + 1 \in 1 .. Len(q) => Precedes(q[i], q[i + 1])
Matches(q, peers, imported, shown) ==
  IF peers # {} THEN imported = peers /\ (q # << >> /\ q[1].type = "DELETE" => Ex(q[1]) = {})
  ELSE IF q = << >> THEN imported = shown
  ELSE imported \subseteq Ex(q[1]) /\ (q[1].type = "DELETE" => Ex(q[1]) \subseteq imported)
ImportsExact ==
  /\ \A d \in Others : imports[d] <= 1
  /\ Orderly(Queue(Primary))
  /\ Matches(Queue(Primary), pc[Primary].peers, Imported, Shown)

ImportsFit == ImportsFollow /\ (disturbed = {} => ImportsExact)

\* Who exports, or will, is listed or will be told to stop.
Undoes(w, c) == w.type = "DELETE" /\ Listed(w.obj, c)
Undone(c) ==
  /\ c \in exports => Lists(c) \/ \E i \in 1 .. Len(Queue(c)) : Undoes(Queue(c)[i], c)
  /\ \A i \in 1 .. Len(Queue(c)) :
       Queue(c)[i].type = "UPDATE" /\ Listed(Queue(c)[i].obj, c) =>
         Lists(c) \/ \E j \in 1 .. Len(Queue(c)) : i < j /\ Undoes(Queue(c)[j], c)

\* Who is exposed exports, and no deletion comes after a put of what there is.
Remains(c) == c \in exports /\ \A j \in 1 .. Len(Queue(c)) : Queue(c)[j].type # "DELETE"
Current(c) ==
  /\ \A i \in 1 .. Len(Queue(c)) :
       Queue(c)[i].type = "UPDATE" /\ Has(Queue(c)[i].obj.gen) =>
         \A j \in 1 .. Len(Queue(c)) : i < j => Queue(c)[j].type # "DELETE"
  /\ pc[c].put # << >> /\ Has(pc[c].put[1].obj.gen) => Remains(c)
  /\ endpoints # None /\ endpoints.of[c].exposed => Remains(c)

\* Who is listed and not exposed has been told, or is about to expose.
Asks(w, c) == w.type = "UPDATE" /\ Listed(w.obj, c) /\ ~w.obj.of[c].exposed
WillExpose(c) ==
  Lists(c) /\ ~endpoints.of[c].exposed =>
    pc[c].put # << >> \/ \E i \in 1 .. Len(Queue(c)) : Asks(Queue(c)[i], c)

Follow(c) == Undone(c) /\ Current(c) /\ WillExpose(c)
Mesh == Order /\ ImportsFit /\ \A c \in Others : Follow(c)

LEMMA QueueGrows ==
  ASSUME NEW S, NEW q \in Seq(S), NEW w \in S, NEW r, r = q \/ r = Append(q, w)
  PROVE  /\ Len(q) \in Nat /\ Len(r) \in Nat
         /\ \A i \in 1 .. Len(q) : i \in 1 .. Len(r) /\ r[i] = q[i] /\ i < Len(q) + 1
         /\ \A i \in 1 .. Len(r) : i \in 1 .. Len(q) \/ (i = Len(q) + 1 /\ r[i] = w)
         /\ r = Append(q, w) => Len(q) + 1 \in 1 .. Len(r) /\ r[Len(q) + 1] = w
  BY AppendFacts

\* A put of an endpoints controller or a proxy controller, as c sees it.
Adding(c) == pc'[c].put = pc[c].put /\ endpoints.of[c] = NoEntry /\ ~endpoints'.of[c].exposed
Keeping(c) == pc'[c].put = pc[c].put /\ endpoints'.of[c] = endpoints.of[c]
Revealing(c) == /\ pc'[c].put = << >> /\ pc[c].put # << >> /\ Has(pc[c].put[1].obj.gen)
                /\ endpoints'.of[c].exposed /\ Listed(endpoints', c)

LEMMA PutKeepsFollow ==
  ASSUME Typed, NEW c \in Others, Follow(c), UNCHANGED exports,
         endpoints # None, endpoints' # None, endpoints'.gen = endpoints.gen,
         Put(endpoints') \in PastWrite,
         Queue(c)' = IF c \in Wanting(endpoints') THEN Append(Queue(c), Put(endpoints')) ELSE Queue(c),
         Adding(c) \/ Keeping(c) \/ Revealing(c)
  PROVE  Follow(c)'
  <1> DEFINE q == Queue(c)
             w == Put(endpoints')
             r == Queue(c)'
  <1>1. c \in Clusters /\ q \in Seq(PastWrite) /\ w \in PastWrite /\ (r = q \/ r = Append(q, w))
    BY EcTypes DEF Others, Queue
  <1>2. w.type = "UPDATE" /\ w.obj = endpoints'
    BY DEF Put
  <1>3. c \in Wanting(endpoints') => r = Append(q, w)
    OBVIOUS
  <1>4. Lists(c) => Lists(c)'
    BY DEF Lists, Listed, Adding, Keeping, Revealing
  <1>5. \A g : Has(g)' <=> Has(g)
    BY DEF Has
  <1> HIDE DEF q, w
  <1>6. /\ Len(q) \in Nat /\ Len(r) \in Nat
        /\ \A i \in 1 .. Len(q) : i \in 1 .. Len(r) /\ r[i] = q[i] /\ i < Len(q) + 1
        /\ \A i \in 1 .. Len(r) : i \in 1 .. Len(q) \/ (i = Len(q) + 1 /\ r[i] = w)
        /\ r = Append(q, w) => Len(q) + 1 \in 1 .. Len(r) /\ r[Len(q) + 1] = w
    BY <1>1, QueueGrows
  <1> HIDE DEF r
  <1>7. Undone(c)'
    <2>1. (c \in exports)' => Lists(c)' \/ \E i \in 1 .. Len(r) : Undoes(r[i], c)
      BY <1>4, <1>6 DEF Follow, Undone, q
    <2>2. ASSUME NEW i \in 1 .. Len(r), r[i].type = "UPDATE", Listed(r[i].obj, c)
          PROVE  Lists(c)' \/ \E j \in 1 .. Len(r) : i < j /\ Undoes(r[j], c)
      <3>1. CASE i \in 1 .. Len(q)
        BY <1>4, <1>6, <2>2, <3>1 DEF Follow, Undone, q
      <3>2. CASE r[i] = w
        BY <1>2, <2>2, <3>2 DEF Lists
      <3> QED
        BY <1>6, <3>1, <3>2
    <2> QED
      BY <2>1, <2>2 DEF Undone, Undoes, r
  <1>8. Remains(c) => Remains(c)'
    <2>1. ASSUME Remains(c), NEW j \in 1 .. Len(r) PROVE r[j].type # "DELETE"
      BY <1>2, <1>6, <2>1 DEF Remains, q
    <2> QED
      BY <2>1 DEF Remains, r
  <1>9. Current(c)'
    <2>1. ASSUME NEW i \in 1 .. Len(r), r[i].type = "UPDATE", Has(r[i].obj.gen),
                 NEW j \in 1 .. Len(r), i < j
          PROVE  r[j].type # "DELETE"
      <3>1. CASE j \in 1 .. Len(q)
        <4>1. i \in 1 .. Len(q)
          BY <1>6, <2>1, <3>1
        <4> QED
          BY <1>6, <2>1, <3>1, <4>1 DEF Follow, Current, q
      <3> QED
        BY <1>2, <1>6, <3>1
    <2>2. (pc[c].put # << >>)' /\ (Has(pc[c].put[1].obj.gen))' => Remains(c)
      BY <1>5 DEF Adding, Keeping, Revealing, Has, Follow, Current
    <2>3. (endpoints.of[c].exposed)' => Remains(c)
      BY DEF Adding, Keeping, Revealing, Follow, Current
    <2> QED
      BY <1>5, <1>8, <2>1, <2>2, <2>3 DEF Current, Has, r
  <1>10. WillExpose(c)'
    <2> SUFFICES ASSUME Listed(endpoints', c), ~endpoints'.of[c].exposed
                 PROVE  pc'[c].put # << >> \/ \E i \in 1 .. Len(r) : Asks(r[i], c)
      BY DEF WillExpose, Lists, Asks, r
    <2>1. CASE Keeping(c)
      BY <1>6, <2>1 DEF Keeping, Follow, WillExpose, Lists, Listed, q
    <2>2. CASE Adding(c)
      <3>1. c \in Wanting(endpoints')
        BY <1>1, <2>2 DEF Wanting, ProxyWants, Listed, Adding
      <3> QED
        BY <1>2, <1>3, <1>6, <3>1 DEF Asks
    <2> QED
      BY <2>1, <2>2 DEF Revealing
  <1> QED
    BY <1>7, <1>9, <1>10 DEF Follow

LEMMA OrderlyAppend ==
  ASSUME NEW q \in Seq(PastWrite), NEW w \in PastWrite, Orderly(q),
         q # << >> => Precedes(q[Len(q)], w)
  PROVE  Orderly(Append(q, w))
  <1> DEFINE r == Append(q, w)
             n == Len(q)
  <1>1. /\ Len(r) = n + 1 /\ n \in Nat /\ r[n + 1] = w
        /\ \A i \in 1 .. n : r[i] = q[i]
        /\ \A i \in 1 .. Len(r) : i \in 1 .. n \/ i = n + 1
    BY AppendFacts
  <1>2. n > 0 => Precedes(q[n], w)
    BY <1>1, EmptySeq
  <1>3. \A i \in 1 .. n : i + 1 \in 1 .. n => Precedes(q[i], q[i + 1])
    BY DEF Orderly
  <1> HIDE DEF r, n
  <1>4. ASSUME NEW i \in 1 .. Len(r), i + 1 \in 1 .. Len(r) PROVE Precedes(r[i], r[i + 1])
    <2>1. i \in 1 .. n /\ n > 0
      BY <1>1, <1>4
    <2>2. CASE i = n
      BY <1>1, <1>2, <2>1, <2>2
    <2>3. CASE i # n
      <3>1. i + 1 \in 1 .. n
        BY <1>1, <2>1, <2>3
      <3> QED
        BY <1>1, <1>3, <2>1, <3>1
    <2> QED
      BY <2>2, <2>3
  <1> QED
    BY <1>4 DEF Orderly, r

LEMMA OrderlyTail ==
  ASSUME NEW q \in Seq(PastWrite), q # << >>, Orderly(q)
  PROVE  Orderly(Tail(q)) /\ (Tail(q) # << >> => Precedes(q[1], Tail(q)[1]))
  <1> DEFINE r == Tail(q)
  <1>1. /\ Len(r) = Len(q) - 1 /\ Len(q) \in Nat \ {0}
        /\ \A i \in 1 .. Len(r) : i + 1 \in 1 .. Len(q) /\ r[i] = q[i + 1]
        /\ r # << >> => Len(r) \in Nat \ {0}
    BY TailFacts
  <1> HIDE DEF r
  <1>2. ASSUME NEW i \in 1 .. Len(r), i + 1 \in 1 .. Len(r) PROVE Precedes(r[i], r[i + 1])
    <2>1. i + 1 \in 1 .. Len(q) /\ (i + 1) + 1 \in 1 .. Len(q)
      BY <1>1, <1>2
    <2> QED
      BY <1>1, <1>2, <2>1 DEF Orderly
  <1>3. ASSUME r # << >> PROVE Precedes(q[1], r[1])
    <2>1. 1 \in 1 .. Len(r) /\ 1 \in 1 .. Len(q) /\ 1 + 1 \in 1 .. Len(q)
      BY <1>1, <1>3
    <2> QED
      BY <1>1, <2>1 DEF Orderly
  <1> QED
    BY <1>2, <1>3 DEF Orderly, r

\* What the primary's queue is like when w is appended to it.
LEMMA PrimaryQueue ==
  ASSUME Typed, NEW w \in PastWrite
  PROVE  LET q == Queue(Primary)
             r == Append(q, w)
         IN  /\ q \in Seq(PastWrite) /\ r # << >> /\ r[Len(r)] = w
             /\ r[1] = IF q = << >> THEN w ELSE q[1]
             /\ q # << >> => q[Len(q)] \in PastWrite /\ q[Len(q)].type \in {"UPDATE", "DELETE"}
             /\ w.type \in {"UPDATE", "DELETE"}
  <1> DEFINE q == Queue(Primary)
             r == Append(q, w)
  <1>1. q \in Seq(PastWrite)
    BY EcTypes, ServiceMeshAssumption DEF Queue
  <1> HIDE DEF q
  <1>2. /\ Len(r) = Len(q) + 1 /\ r[Len(q) + 1] = w /\ r # << >>
        /\ r[1] = IF q = << >> THEN w ELSE q[1]
    BY <1>1, AppendFacts
  <1>3. q # << >> => q[Len(q)] \in PastWrite
    <2>1. q # << >> => Len(q) \in 1 .. Len(q)
      BY <1>1, EmptySeq
    <2> QED
      BY <1>1, <2>1, ElementOfSeq
  <1> HIDE DEF r
  <1>4. r[Len(r)] = w
    BY <1>2
  <1> QED
    BY <1>1, <1>2, <1>3, <1>4 DEF q, r, PastWrite

\* A put of which the primary is told: what was exposed is exposed.
LEMMA PutKeepsImports ==
  ASSUME Typed, ImportsFit, UNCHANGED <<imports, pc[Primary].peers>>, disturbed \subseteq disturbed',
         endpoints # None, endpoints' # None,
         Put(endpoints') \in PastWrite, ExposedOthers(endpoints) \subseteq ExposedOthers(endpoints'),
         Queue(Primary)' = Append(Queue(Primary), Put(endpoints'))
  PROVE  ImportsFit'
  <1> DEFINE q == Queue(Primary)
             w == Put(endpoints')
             r == Append(q, w)
             peers == pc[Primary].peers
  <1>1. /\ q \in Seq(PastWrite) /\ r # << >> /\ r[Len(r)] = w
        /\ r[1] = IF q = << >> THEN w ELSE q[1]
        /\ q # << >> => q[Len(q)] \in PastWrite /\ q[Len(q)].type \in {"UPDATE", "DELETE"}
    BY PrimaryQueue
  <1>2. w \in PastWrite /\ w.type = "UPDATE" /\ w.obj = endpoints' /\ Queue(Primary)' = r
        /\ Shown' = Ex(w)
    BY DEF Put, Shown, Ex
  <1>3. Shown = ExposedOthers(endpoints) /\ Imported' = Imported /\ pc'[Primary].peers = peers
    BY DEF Shown, Imported
  <1>4. q # << >> => Leaves(q[Len(q)])
    BY DEF ImportsFit, ImportsFollow
  <1> HIDE DEF q, w, r
  <1>5. ImportsFollow'
    BY <1>1, <1>2 DEF ImportsFollow, Leaves
  <1>6. ASSUME disturbed' = {} PROVE ImportsExact'
    <2>1. ImportsExact
      BY <1>6 DEF ImportsFit
    <2>2. Orderly(q) /\ Matches(q, peers, Imported, Shown)
      BY <2>1 DEF ImportsExact, q
    <2>3. q # << >> => Precedes(q[Len(q)], w)
      BY <1>2, <1>4 DEF Leaves, Precedes, Ex
    <2>4. Orderly(r)
      BY <1>1, <1>2, <2>2, <2>3, OrderlyAppend DEF r
    <2> HIDE DEF peers
    <2>5. Matches(r, peers, Imported', Shown')
      BY <1>1, <1>2, <1>3, <2>2 DEF Matches, Ex
    <2> QED
      BY <1>2, <1>3, <2>1, <2>4, <2>5 DEF ImportsExact, peers, Orderly, Precedes, Ex
  <1> QED
    BY <1>5, <1>6 DEF ImportsFit

\* The Endpoints are deleted, and all are told.
LEMMA DeletionKeepsFollow ==
  ASSUME Typed, NEW c \in Others, Follow(c), UNCHANGED exports,
         endpoints # None, endpoints' = None, Told(pc, Clusters, Deletion)
  PROVE  Follow(c)'
  <1> DEFINE q == Queue(c)
             w == Deletion
             r == Append(q, w)
             n == Len(q)
  <1>1. /\ c \in Clusters /\ q \in Seq(PastWrite) /\ w \in PastWrite
        /\ w.type = "DELETE" /\ w.obj = endpoints /\ Queue(c)' = r
    BY EcTypes DEF Others, Queue, Told, Deletion, PastWrite, StoreFits
  <1> HIDE DEF q, w
  <1>2. /\ Len(r) = n + 1 /\ n \in Nat /\ r[n + 1] = w
        /\ \A i \in 1 .. n : r[i] = q[i] /\ i \in 1 .. Len(r)
        /\ \A i \in 1 .. Len(r) : i \in 1 .. n \/ i = n + 1
    BY <1>1, AppendFacts
  <1> HIDE DEF r, n
  <1>3. Lists(c) => Undoes(w, c)
    BY <1>1 DEF Lists, Undoes
  <1>4. Undone(c)'
    <2>1. (c \in exports)' => \E i \in 1 .. Len(r) : Undoes(r[i], c)
      <3>1. n + 1 \in 1 .. Len(r)
        BY <1>2
      <3> QED
        BY <1>2, <1>3, <3>1 DEF Follow, Undone, q, n
    <2>2. ASSUME NEW i \in 1 .. Len(r), r[i].type = "UPDATE", Listed(r[i].obj, c)
          PROVE  \E j \in 1 .. Len(r) : i < j /\ Undoes(r[j], c)
      <3>1. i \in 1 .. n /\ i < n + 1 /\ n + 1 \in 1 .. Len(r)
        BY <1>1, <1>2, <2>2
      <3> QED
        BY <1>2, <1>3, <2>2, <3>1 DEF Follow, Undone, q, n
    <2> QED
      BY <1>1, <2>1, <2>2 DEF Undone, Undoes
  <1>5. Current(c)' /\ WillExpose(c)'
    BY DEF Current, WillExpose, Has, Lists
  <1> QED
    BY <1>4, <1>5 DEF Follow

LEMMA DeletionKeepsImports ==
  ASSUME Typed, ImportsFit, UNCHANGED imports, disturbed \subseteq disturbed',
         endpoints # None, endpoints' = None, Told(pc, Clusters, Deletion)
  PROVE  ImportsFit'
  <1> DEFINE q == Queue(Primary)
             w == Deletion
             r == Append(q, w)
             peers == pc[Primary].peers
  <1>2. /\ Primary \in Clusters /\ w \in PastWrite /\ w.type = "DELETE" /\ w.obj = endpoints
        /\ Queue(Primary)' = r /\ pc'[Primary].peers = peers
    BY EcTypes, ServiceMeshAssumption DEF Queue, Told, Deletion, PastWrite, StoreFits
  <1>1. /\ q \in Seq(PastWrite) /\ r # << >> /\ r[Len(r)] = w
        /\ r[1] = IF q = << >> THEN w ELSE q[1]
        /\ q # << >> => q[Len(q)] \in PastWrite /\ q[Len(q)].type \in {"UPDATE", "DELETE"}
    BY <1>2, PrimaryQueue
  <1>3. Shown = Ex(w) /\ Imported' = Imported /\ Shown' = {}
    BY <1>2 DEF Shown, Imported, Ex
  <1>4. /\ q # << >> => Leaves(q[Len(q)])
        /\ q = << >> /\ peers # {} => Shown = {}
    BY DEF ImportsFit, ImportsFollow
  <1> HIDE DEF q, w, r
  <1>5. ImportsFollow'
    BY <1>1, <1>2, <1>3 DEF ImportsFollow, Leaves
  <1>6. ASSUME disturbed' = {} PROVE ImportsExact'
    <2>1. ImportsExact
      BY <1>6 DEF ImportsFit
    <2>2. Orderly(q) /\ Matches(q, peers, Imported, Shown)
      BY <2>1 DEF ImportsExact, q
    <2>3. q # << >> => Precedes(q[Len(q)], w)
      <3> SUFFICES ASSUME q # << >> PROVE Precedes(q[Len(q)], w)
        OBVIOUS
      <3>1. CASE q[Len(q)].type = "UPDATE"
        BY <1>2, <1>4, <3>1 DEF Leaves, Precedes, Ex
      <3>2. CASE q[Len(q)].type = "DELETE"
        BY <1>2, <1>3, <1>4, <3>2 DEF Leaves, Precedes
      <3> QED
        BY <1>1, <3>1, <3>2
    <2>4. Orderly(r)
      BY <1>1, <1>2, <2>2, <2>3, OrderlyAppend DEF r
    <2> HIDE DEF peers
    <2>5. Matches(r, peers, Imported', Shown')
      BY <1>1, <1>2, <1>3, <1>4, <2>2 DEF Matches, Ex
    <2> QED
      BY <1>2, <1>3, <2>1, <2>4, <2>5 DEF ImportsExact, peers, Orderly, Precedes, Ex
  <1> QED
    BY <1>5, <1>6 DEF ImportsFit

\* The Endpoints are created, of a creation that nothing tells of.
LEMMA CreationKeepsFollow ==
  ASSUME Typed, NEW c \in Others, Follow(c), UNCHANGED <<exports, pc>>,
         endpoints = None, endpoints'.of[c] = NoEntry, ~Mentions(c, endpoints'.gen)
  PROVE  Follow(c)'
  <1>1. Queue(c)' = Queue(c)
    BY DEF Queue
  <1>2. Undone(c)'
    BY <1>1 DEF Follow, Undone, Lists
  <1>3. Current(c)'
    BY <1>1 DEF Current, Has, Mentions, Queue, NoEntry
  <1>4. WillExpose(c)'
    BY DEF WillExpose, Lists, Listed
  <1> QED
    BY <1>2, <1>3, <1>4 DEF Follow

LEMMA CreationKeepsImports ==
  ASSUME Typed, ImportsFit, UNCHANGED <<imports, pc>>, disturbed \subseteq disturbed',
         endpoints = None, \A c \in Clusters : endpoints'.of[c] = NoEntry
  PROVE  ImportsFit'
  <1>1. Queue(Primary)' = Queue(Primary)
    BY DEF Queue
  <1>2. Shown = {} /\ Shown' = {}
    BY DEF Shown, ExposedOthers, Others, NoEntry
  <1>3. ASSUME Queue(Primary) # << >> PROVE Queue(Primary)[Len(Queue(Primary))].type # "UPDATE"
    <2>1. Queue(Primary) \in Seq(PastWrite)
      BY EcTypes, ServiceMeshAssumption DEF Queue
    <2>2. Queue(Primary)[Len(Queue(Primary))] \in PastWrite
      <3>1. Len(Queue(Primary)) \in 1 .. Len(Queue(Primary))
        BY <1>3, <2>1, EmptySeq
      <3> QED
        BY <2>1, <3>1, ElementOfSeq
    <2>3. None \notin PastEndpoints
      BY EcTypes, ServiceMeshAssumption, PastIsKnown
    <2> QED
      BY <1>3, <2>2, <2>3 DEF ImportsFit, ImportsFollow, Leaves, PastWrite
  <1>4. ImportsFollow'
    BY <1>1, <1>2, <1>3 DEF ImportsFit, ImportsFollow, Leaves, Imported
  <1>5. ASSUME disturbed' = {} PROVE ImportsExact'
    <2>1. ImportsExact
      BY <1>5 DEF ImportsFit
    <2>2. Imported' = Imported
      BY DEF Imported
    <2> QED
      BY <1>1, <1>2, <2>1, <2>2 DEF ImportsExact, Matches, Orderly, Precedes, Ex
  <1> QED
    BY <1>4, <1>5 DEF ImportsFit

\* A proxy controller takes an event, and does what it asks for.
LEMMA TakesKeepsFollow ==
  ASSUME Typed, NEW c \in Others, Follow(c), Clean',
         Unpublish(c) \/ Skip(c) \/ Export(c)
  PROVE  Follow(c)'
  <1> DEFINE q == Queue(c)
             r == Tail(q)
             h == q[1]
  <1>1. /\ c \in Clusters /\ q \in Seq(PastWrite) /\ q # << >> /\ Queue(c)' = r
        /\ UNCHANGED endpoints /\ pc[c].put = << >> /\ NextObject(c) = h.obj
        /\ Head(pc[c].queue) = h
        /\ pc'[c].put = IF Export(c) THEN << h >> ELSE << >>
    BY EcTypes, ProxyEffect, HeadOfProxy
       DEF Others, Queue, Unpublish, Skip, Export, IsNext, ProxyTakes
  <1>2. /\ Unpublish(c) => /\ h.type = "DELETE"
                           /\ exports' = IF Listed(h.obj, c) THEN exports \ {c} ELSE exports
        /\ Skip(c) => h.type = "UPDATE" /\ ~(Listed(h.obj, c) /\ ~h.obj.of[c].exposed) /\ exports' = exports
        /\ Export(c) => h.type = "UPDATE" /\ Listed(h.obj, c) /\ c \in exports'
    <2>1. c # Primary
      BY DEF Others
    <2>2. ~Fail
      BY <1>1, EcTypes, FailFacts
    <2> QED
      BY <1>1, <2>1, <2>2 DEF Unpublish, Skip, Export, IsNext, Wanted, world
  <1> HIDE DEF q
  <1>3. /\ Len(r) = Len(q) - 1 /\ Len(q) \in Nat \ {0} /\ 1 \in 1 .. Len(q)
        /\ \A i \in 1 .. Len(r) : i + 1 \in 1 .. Len(q) /\ r[i] = q[i + 1]
        /\ \A j \in 1 .. Len(q) : j # 1 => j - 1 \in 1 .. Len(r) /\ r[j - 1] = q[j]
    BY <1>1, TailFacts
  <1> HIDE DEF r
  <1>4. /\ c \in exports => Lists(c) \/ \E i \in 1 .. Len(q) : Undoes(q[i], c)
        /\ \A i \in 1 .. Len(q) : q[i].type = "UPDATE" /\ Listed(q[i].obj, c) =>
             Lists(c) \/ \E j \in 1 .. Len(q) : i < j /\ Undoes(q[j], c)
        /\ \A i \in 1 .. Len(q) : q[i].type = "UPDATE" /\ Has(q[i].obj.gen) =>
             \A j \in 1 .. Len(q) : i < j => q[j].type # "DELETE"
        /\ endpoints # None /\ endpoints.of[c].exposed =>
             c \in exports /\ \A j \in 1 .. Len(q) : q[j].type # "DELETE"
        /\ Lists(c) /\ ~endpoints.of[c].exposed => \E i \in 1 .. Len(q) : Asks(q[i], c)
    BY <1>1 DEF Follow, Undone, Current, Remains, WillExpose, q
  <1>5. Undone(c)'
    <2>1. ASSUME c \in exports', ~Lists(c) PROVE \E i \in 1 .. Len(r) : Undoes(r[i], c)
      <3>1. CASE Export(c)
        <4>1. PICK j \in 1 .. Len(q) : 1 < j /\ Undoes(q[j], c)
          BY <1>2, <1>3, <1>4, <2>1, <3>1
        <4> QED
          BY <1>3, <4>1
      <3>2. CASE ~Export(c)
        <4>1. c \in exports /\ ~Undoes(h, c)
          BY <1>2, <2>1, <3>2 DEF Undoes
        <4>2. PICK j \in 1 .. Len(q) : Undoes(q[j], c)
          BY <1>4, <2>1, <4>1
        <4> QED
          BY <1>3, <4>1, <4>2
      <3> QED
        BY <3>1, <3>2
    <2>2. ASSUME NEW i \in 1 .. Len(r), r[i].type = "UPDATE", Listed(r[i].obj, c), ~Lists(c)
          PROVE  \E j \in 1 .. Len(r) : i < j /\ Undoes(r[j], c)
      <3>1. PICK j \in 1 .. Len(q) : i + 1 < j /\ Undoes(q[j], c)
        BY <1>3, <1>4, <2>2
      <3>2. j # 1 /\ i < j - 1
        BY <1>3, <3>1
      <3> QED
        BY <1>3, <3>1, <3>2
    <2>3. Lists(c)' <=> Lists(c)
      BY <1>1 DEF Lists
    <2> QED
      BY <1>1, <2>1, <2>2, <2>3 DEF Undone, Undoes
  <1>6. ASSUME \A j \in 1 .. Len(q) : 1 < j => q[j].type # "DELETE", c \in exports'
        PROVE  Remains(c)'
    <2>1. ASSUME NEW j \in 1 .. Len(r) PROVE r[j].type # "DELETE"
      BY <1>3, <1>6
    <2> QED
      BY <1>1, <1>6, <2>1 DEF Remains
  <1>7. \A g : Has(g)' <=> Has(g)
    BY <1>1 DEF Has
  <1>8. Current(c)'
    <2>1. ASSUME NEW i \in 1 .. Len(r), r[i].type = "UPDATE", Has(r[i].obj.gen),
                 NEW j \in 1 .. Len(r), i < j
          PROVE  r[j].type # "DELETE"
      <3>1. i + 1 < j + 1
        BY <1>3, <2>1
      <3> QED
        BY <1>3, <1>4, <2>1, <3>1
    <2>2. ASSUME Export(c), Has(h.obj.gen) PROVE Remains(c)'
      BY <1>2, <1>3, <1>4, <1>6, <2>2
    <2>3. ASSUME endpoints # None, endpoints.of[c].exposed PROVE Remains(c)'
      <3>1. c \in exports /\ h.type # "DELETE"
        BY <1>3, <1>4, <2>3
      <3>2. c \in exports'
        BY <1>2, <3>1
      <3> QED
        BY <1>4, <1>6, <2>3, <3>2
    <2>4. (pc[c].put # << >>)' => Export(c) /\ (pc[c].put[1])' = h
      BY <1>1
    <2> QED
      BY <1>1, <2>1, <2>2, <2>3, <2>4 DEF Current, Has
  <1>9. WillExpose(c)'
    <2> SUFFICES ASSUME Lists(c), ~endpoints.of[c].exposed, ~Export(c)
                 PROVE  \E i \in 1 .. Len(r) : Asks(r[i], c)
      <3>1. Export(c) => pc'[c].put # << >>
        BY <1>1
      <3> QED
        BY <1>1, <3>1 DEF WillExpose, Lists, Asks
    <2>1. PICK j \in 1 .. Len(q) : Asks(q[j], c)
      BY <1>4
    <2>2. ~Asks(h, c)
      BY <1>2 DEF Asks
    <2> QED
      BY <1>3, <2>1, <2>2
  <1> QED
    BY <1>5, <1>8, <1>9 DEF Follow

LEMMA TakesKeepsImports ==
  ASSUME Typed, ImportsFit, Clean', disturbed \subseteq disturbed',
         Unpublish(Primary) \/ Import(Primary)
  PROVE  ImportsFit'
  <1> DEFINE q == Queue(Primary)
             r == Tail(q)
             h == q[1]
  <1>0. Primary \in Clusters
    BY ServiceMeshAssumption
  <1>1. /\ q \in Seq(PastWrite) /\ q # << >> /\ Queue(Primary)' = r
        /\ UNCHANGED endpoints /\ NextObject(Primary) = h.obj /\ Head(pc[Primary].queue) = h
        /\ pc[Primary].peers = {} /\ pc'[Primary].peers = Peers(Primary)
    BY <1>0, EcTypes, ProxyEffect, HeadOfProxy
       DEF Queue, Unpublish, Import, IsNext, ProxyTakes
  <1>2. \/ h.type = "DELETE" /\ imports' = imports /\ pc'[Primary].peers = Ex(h)
        \/ /\ h.type = "UPDATE" /\ pc'[Primary].peers = {}
           /\ imports' = [d \in Others |-> imports[d] + (IF d \in Ex(h) THEN 1 ELSE 0)]
           /\ disturbed' = {} => \A d \in Ex(h) : ~(imports[d] > 0)
    <2>1. CASE Unpublish(Primary)
      BY <1>1, <2>1 DEF Unpublish, IsNext, Peers, Ex
    <2>2. CASE Import(Primary)
      <3>1. ~Fail /\ h.type = "UPDATE"
        BY <1>0, <1>1, <2>2, EcTypes, FailFacts DEF Import, IsNext
      <3>2. Peers(Primary) = {}
        BY <1>1, <3>1 DEF Peers, Unpublish, IsNext
      <3>3. /\ imports' = [d \in Others |-> imports[d] + (IF d \in Ex(h) THEN 1 ELSE 0)]
            /\ Disturb(If(\E d \in Ex(h) : imports[d] > 0, "repeated"))
        BY <1>1, <2>2, <3>1 DEF Import, Ex
      <3>4. disturbed' = {} => \A d \in Ex(h) : ~(imports[d] > 0)
        BY <3>3 DEF Disturb, If
      <3> QED
        BY <1>1, <3>1, <3>2, <3>3, <3>4
    <2> QED
      BY <2>1, <2>2
  <1> HIDE DEF q
  <1>3. /\ Len(r) = Len(q) - 1 /\ Len(q) \in Nat \ {0} /\ r \in Seq(PastWrite) /\ h \in PastWrite
        /\ r # << >> => r[Len(r)] = q[Len(q)]
    BY <1>1, TailFacts
  <1>4. Leaves(q[Len(q)])
    BY <1>1 DEF ImportsFit, ImportsFollow, q
  <1>5. imports \in [Others -> Nat] /\ None \notin PastEndpoints
    BY <1>0, EcTypes, PastIsKnown DEF StoreFits
  <1>6. Shown' = Shown /\ \A w : (Leaves(w)' <=> Leaves(w))
    BY <1>1 DEF Shown, Leaves
  <1> HIDE DEF r, h
  <1>7. Ex(h) \subseteq Others
    BY DEF Ex, ExposedOthers
  <1>8. h.type = "UPDATE" => Ex(h) \subseteq Imported'
    <2> SUFFICES ASSUME h.type = "UPDATE", NEW d \in Ex(h) PROVE d \in Others /\ imports'[d] > 0
      BY DEF Imported
    <2>1. d \in Others /\ imports[d] \in Nat
      BY <1>5, <1>7
    <2> QED
      BY <1>2, <2>1
  <1>9. r = << >> => Leaves(h)
    <2> SUFFICES ASSUME r = << >> PROVE Leaves(h)
      OBVIOUS
    <2>1. Len(q) = 1
      BY <1>3
    <2> QED
      BY <1>4, <2>1 DEF h
  <1>10. r = << >> => Shown = IF h.type = "UPDATE" THEN Ex(h) ELSE {}
    BY <1>3, <1>5, <1>9 DEF Leaves, Shown, Ex, PastWrite
  <1>11. ImportsFollow'
    <2>1. r = << >> => Shown' \subseteq Imported' /\ (pc'[Primary].peers # {} => Shown' = {})
      BY <1>2, <1>6, <1>8, <1>10
    <2>2. r # << >> => Leaves(r[Len(r)])
      BY <1>3, <1>4
    <2>3. r # << >> => Leaves(Queue(Primary)[Len(Queue(Primary))])'
      BY <1>1, <1>6, <2>2 DEF Leaves
    <2> QED
      BY <1>1, <1>6, <2>1, <2>3 DEF ImportsFollow
  <1>12. ASSUME disturbed' = {} PROVE ImportsExact'
    <2>1. ImportsExact
      BY <1>12 DEF ImportsFit
    <2>2. /\ Orderly(q) /\ Imported \subseteq Ex(h) /\ (h.type = "DELETE" => Ex(h) \subseteq Imported)
          /\ \A d \in Others : imports[d] <= 1
      BY <1>1, <2>1 DEF ImportsExact, Matches, q, h
    <2>3. Orderly(r) /\ (r # << >> => Precedes(h, r[1]))
      BY <1>1, <2>2, OrderlyTail DEF r, h
    <2>4. Orderly(Queue(Primary))'
      BY <1>1, <2>3 DEF Orderly, Precedes, Ex
    <2>5. CASE h.type = "DELETE"
      <3>1. Imported = Ex(h) /\ imports' = imports /\ pc'[Primary].peers = Ex(h)
        BY <1>2, <2>2, <2>5
      <3>2. Imported' = Ex(h)
        BY <3>1 DEF Imported
      <3>3. r # << >> /\ r[1].type = "DELETE" => Ex(r[1]) = {}
        BY <2>3, <2>5 DEF Precedes
      <3>4. Matches(r, Ex(h), Imported', Shown')
        BY <1>6, <1>10, <2>5, <3>2, <3>3 DEF Matches, Ex
      <3> QED
        BY <1>1, <2>2, <2>4, <3>1, <3>4 DEF ImportsExact, Matches, Ex
    <2>6. CASE h.type = "UPDATE"
      <3>1. /\ imports' = [d \in Others |-> imports[d] + (IF d \in Ex(h) THEN 1 ELSE 0)]
            /\ \A d \in Ex(h) : ~(imports[d] > 0) /\ pc'[Primary].peers = {}
        BY <1>2, <1>12, <2>6
      <3>2. \A d \in Others : imports[d] = 0
        BY <1>5, <2>2, <3>1 DEF Imported
      <3>3. \A d \in Others : imports'[d] = IF d \in Ex(h) THEN 1 ELSE 0
        BY <3>1, <3>2
      <3>4. Imported' = Ex(h) /\ \A d \in Others : imports'[d] <= 1
        BY <1>7, <3>3 DEF Imported
      <3>5. r # << >> => /\ Ex(h) \subseteq Ex(r[1])
                         /\ r[1].type = "DELETE" => Ex(r[1]) \subseteq Ex(h)
        BY <2>3, <2>6 DEF Precedes
      <3>6. Matches(r, {}, Imported', Shown')
        BY <1>6, <1>10, <2>6, <3>4, <3>5 DEF Matches, Ex
      <3>7. /\ r = << >> => Imported' = Shown'
            /\ r # << >> => /\ Imported' \subseteq Ex(r[1])
                            /\ r[1].type = "DELETE" => Ex(r[1]) \subseteq Imported'
        BY <3>6 DEF Matches
      <3>8. Queue(Primary)' = r /\ pc'[Primary].peers = {}
        <4>1. Queue(Primary)' = r
          BY <1>1
        <4>2. pc'[Primary].peers = {}
          BY <1>2, <2>6
        <4> QED
          BY <4>1, <4>2
      <3>9. Matches(Queue(Primary), pc[Primary].peers, Imported, Shown)'
        <4>1. PICK rr, pp, ii, ss : /\ rr = Queue(Primary)' /\ pp = pc'[Primary].peers
                                    /\ ii = Imported' /\ ss = Shown'
          OBVIOUS
        <4>2. Matches(rr, pp, ii, ss)
          BY <3>7, <3>8, <4>1 DEF Matches
        <4> QED
          BY <4>1, <4>2 DEF Matches, Ex
      <3> QED
        BY <2>4, <3>4, <3>9 DEF ImportsExact
    <2> QED
      BY <1>3, <2>5, <2>6 DEF PastWrite
  <1> QED
    BY <1>11, <1>12 DEF ImportsFit

\* The primary takes a peer from its sources.
LEMMA DeleteKeepsImports ==
  ASSUME Typed, ImportsFit, Clean', disturbed \subseteq disturbed', NEW peer \in Others,
         DeleteImport(Primary, peer)
  PROVE  ImportsFit'
  <1> DEFINE q == Queue(Primary)
             peers == pc[Primary].peers
  <1>1. /\ Queue(Primary)' = q /\ UNCHANGED endpoints /\ peer \in peers /\ StoreFits
        /\ pc'[Primary].peers = IF SeveralSources /\ imports[peer] = 0 THEN {} ELSE peers \ {peer}
    BY ServiceMeshAssumption, DeleteImportEffect, EcTypes DEF Queue
  <1>2. /\ q = << >> => Shown = {}
        /\ q # << >> => Leaves(q[Len(q)])
        /\ Shown' = Shown
    BY <1>1 DEF ImportsFit, ImportsFollow, Shown
  <1>3. ImportsFollow'
    BY <1>1, <1>2 DEF ImportsFollow, Leaves
  <1>4. ASSUME disturbed' = {} PROVE ImportsExact'
    <2>1. ImportsExact
      BY <1>4 DEF ImportsFit
    <2>2. /\ Orderly(q) /\ Imported = peers /\ (q # << >> /\ q[1].type = "DELETE" => Ex(q[1]) = {})
          /\ \A d \in Others : imports[d] <= 1
      BY <1>1, <2>1 DEF ImportsExact, Matches
    <2>3. imports \in [Others -> Nat] /\ imports[peer] = 1 /\ peers \subseteq Others
      <3>1. imports[peer] > 0 /\ imports \in [Others -> Nat]
        BY <1>1, <2>2 DEF Imported, StoreFits
      <3> QED
        BY <2>2, <3>1 DEF Imported
    <2>4. imports' = IF SeveralSources THEN [imports EXCEPT ![peer] = @ - 1] ELSE [d \in Others |-> 0]
      <3>1. ~Fail
        BY <1>1, FailFacts
      <3> QED
        BY <2>3, <3>1 DEF DeleteImport
    <2>5. Imported' = peers \ {peer} /\ \A d \in Others : imports'[d] <= 1
      <3>1. CASE SeveralSources
        <4>1. \A d \in Others : imports'[d] = IF d = peer THEN 0 ELSE imports[d]
          BY <2>3, <2>4, <3>1
        <4> QED
          BY <2>2, <2>3, <4>1 DEF Imported
      <3>2. CASE ~SeveralSources
        <4>1. \A d \in Others : d # peer => ~(imports[d] > 0)
          BY <2>3, <3>2 DEF SeveralSources
        <4>2. \A d \in Others : imports'[d] = 0
          BY <2>4, <3>2
        <4> QED
          BY <2>2, <2>3, <4>1, <4>2 DEF Imported
      <3> QED
        BY <3>1, <3>2
    <2>6. pc'[Primary].peers = peers \ {peer}
      BY <1>1, <2>3
    <2> HIDE DEF peers, q
    <2>7. Matches(q, peers \ {peer}, Imported', Shown')
      BY <1>1, <1>2, <2>2, <2>5 DEF Matches, Ex
    <2>8. Matches(Queue(Primary), pc[Primary].peers, Imported, Shown)'
      BY <1>1, <2>6, <2>7 DEF Matches, Ex
    <2>9. Orderly(Queue(Primary))'
      BY <1>1, <2>2 DEF Orderly, Precedes, Ex
    <2> QED
      BY <2>5, <2>8, <2>9 DEF ImportsExact
  <1> QED
    BY <1>3, <1>4 DEF ImportsFit

\* A step that changes nothing before c, but what another may have exported.
LEMMA StillFollows ==
  ASSUME NEW c \in Others, Follow(c), UNCHANGED endpoints, Queue(c)' = Queue(c),
         pc'[c].put = pc[c].put \/ (endpoints = None /\ pc'[c].put = << >>),
         c \in exports' <=> c \in exports
  PROVE  Follow(c)'
  <1>1. Undone(c)'
    BY DEF Follow, Undone, Lists
  <1>2. Current(c)'
    BY DEF Follow, Current, Has, Remains
  <1>3. WillExpose(c)'
    BY DEF Follow, WillExpose, Lists
  <1> QED
    BY <1>1, <1>2, <1>3 DEF Follow

LEMMA ImportsStay ==
  ASSUME ImportsFit, UNCHANGED <<endpoints, imports, pc[Primary].peers>>,
         disturbed \subseteq disturbed', Queue(Primary)' = Queue(Primary)
  PROVE  ImportsFit'
  <1>1. Shown' = Shown /\ Imported' = Imported
    BY DEF Shown, Imported
  <1>2. ImportsFollow'
    BY <1>1 DEF ImportsFit, ImportsFollow, Leaves
  <1>3. disturbed' = {} => ImportsExact'
    BY <1>1 DEF ImportsFit, ImportsExact, Matches, Orderly, Precedes, Ex
  <1> QED
    BY <1>2, <1>3 DEF ImportsFit

LEMMA MeshStep ==
  ASSUME Typed, Based, Good, Mesh, [Next]_vars, Clean'
  PROVE  Mesh'
  <1>1. Order /\ ImportsFit /\ \A c \in Others : Follow(c)
    BY DEF Mesh
  <1>2. Order' /\ Typed' /\ disturbed \subseteq disturbed'
    BY <1>1, OrderStep, NextTyped
  <1>3. Primary \in Clusters /\ Primary \notin Others /\ Others \subseteq Clusters
    BY ServiceMeshAssumption DEF Others
  <1> SUFFICES ImportsFit' /\ \A c \in Others : Follow(c)'
    BY <1>2 DEF Mesh
  <1>4. CASE UNCHANGED <<endpoints, pc, exports, imports>>
    BY <1>1, <1>2, <1>4, StillFollows, ImportsStay DEF Queue
  <1>5. ASSUME NEW d \in Clusters, TakeServiceDelete(d)
        PROVE  ImportsFit' /\ \A c \in Others : Follow(c)'
    <2>1. CASE d = Primary
      <3>1. endpoints # None
        BY <1>1, <1>5, <2>1, TakeServiceDeleteEffect DEF Order, PrimaryLeads, Has
      <3>2. /\ endpoints' = None /\ Told(pc, Clusters, Deletion) /\ UNCHANGED <<exports, imports>>
        BY <1>5, <2>1, <3>1, TakeServiceDeleteEffect DEF TakeServiceDelete
      <3> QED
        BY <1>1, <1>2, <3>1, <3>2, DeletionKeepsFollow, DeletionKeepsImports
    <2>2. CASE d # Primary
      BY <1>4, <1>5, <2>2 DEF TakeServiceDelete
    <2> QED
      BY <2>1, <2>2
  <1>6. ASSUME NEW d \in Clusters, CreateEndpoints(d)
        PROVE  ImportsFit' /\ \A c \in Others : Follow(c)'
    <2>1. /\ endpoints = None /\ \A c \in Clusters : endpoints'.of[c] = NoEntry
          /\ UNCHANGED <<exports, imports, pc>> /\ endpoints'.gen = Events(d)[1].gen
      BY <1>6, CreateEndpointsEffect DEF CreateEndpoints
    <2>2. Events(d)[1].gen \in Gens /\ Awaits(Primary, Events(d)[1].gen)
      BY <1>3, <1>6, CreateEndpointsEffect, EventsKnown, HeadIsPending DEF Awaits, InHand
    <2>3. \A c \in Clusters : ~Mentions(c, endpoints'.gen)
      BY <1>1, <2>1, <2>2 DEF Order, Fresh
    <2> QED
      BY <1>1, <1>2, <1>3, <2>1, <2>3, CreationKeepsFollow, CreationKeepsImports
  <1>7. ASSUME endpoints # None, endpoints' # None, endpoints'.gen = endpoints.gen,
               UNCHANGED <<exports, imports, pc[Primary].peers>>,
               \A c \in Clusters : Queue(c)' =
                 IF c \in Wanting(endpoints') THEN Append(Queue(c), Put(endpoints')) ELSE Queue(c),
               \A c \in Others : Adding(c) \/ Keeping(c) \/ Revealing(c), Put(endpoints') \in PastWrite
        PROVE  ImportsFit' /\ \A c \in Others : Follow(c)'
    <2>1. Primary \in Wanting(endpoints')
      BY <1>3 DEF Wanting, ProxyWants
    <2>2. ExposedOthers(endpoints) \subseteq ExposedOthers(endpoints')
      BY <1>7 DEF ExposedOthers, Adding, Keeping, Revealing, NoEntry
    <2>3. ImportsFit'
      BY <1>1, <1>2, <1>3, <1>7, <2>1, <2>2, PutKeepsImports
    <2>4. \A c \in Others : Follow(c)'
      BY <1>1, <1>3, <1>7, PutKeepsFollow
    <2> QED
      BY <2>3, <2>4
  <1>8. ASSUME endpoints' # None, UNCHANGED changes PROVE Put(endpoints') \in PastWrite
    BY <1>2, <1>8 DEF Typed, StoreFits, Put, PastWrite, PastEndpoints, Past
  <1>9. ASSUME NEW d \in Clusters, PutFetched(d)
        PROVE  ImportsFit' /\ \A c \in Others : Follow(c)'
    <2>1. /\ endpoints # None /\ endpoints' = WithEntry(d, endpoints)
          /\ Told(pc, Wanting(endpoints'), Put(endpoints'))
          /\ endpoints.of[d] = NoEntry /\ endpoints \in Endpoints
      BY <1>1, <1>9, PutFetchedIsWelcome
    <2>2. endpoints' # None /\ endpoints'.gen = endpoints.gen
      BY <1>9, <2>1, PutKeepsGen
    <2>3. ~endpoints'.of[d].exposed
      <3>1. endpoints'.of[d].num = Pods[d]
        BY <2>1, WithEntryFacts
      <3>2. CASE endpoints.of[d].num = Pods[d]
        BY <2>1, <3>2 DEF WithEntry, NoEntry
      <3>3. CASE endpoints.of[d].num # Pods[d]
        BY <2>1, <3>3 DEF WithEntry, Endpoints
      <3> QED
        BY <3>2, <3>3
    <2>4. \A c \in Others : Adding(c) \/ Keeping(c)
      BY <1>3, <2>1, <2>3, WithEntryFacts DEF Adding, Keeping, Told
    <2> QED
      BY <1>3, <1>7, <1>8, <1>9, <2>1, <2>2, <2>4 DEF PutFetched, world, Told, Queue
  <1>10. ASSUME NEW d \in Clusters, PutExposed(d)
         PROVE  ImportsFit' /\ \A c \in Others : Follow(c)'
    <2>1. CASE endpoints # None
      <3> DEFINE obj == pc[d].put[1].obj
      <3>1. /\ d \in Others /\ pc[d].put # << >> /\ pc'[d].put = << >>
            /\ \A c \in Clusters : c # d => pc'[c].put = pc[c].put
            /\ endpoints = obj /\ endpoints' = Exposing(d, endpoints) /\ Listed(endpoints, d)
            /\ \A c \in Clusters : pc'[c].queue =
                 IF c \in Wanting(endpoints') THEN Append(pc[c].queue, Put(endpoints'))
                 ELSE pc[c].queue
            /\ \A c \in Clusters : pc'[c].peers = pc[c].peers
        BY <1>10, <2>1, PutExposedEffect DEF Others
      <3>2. endpoints' # None /\ endpoints'.gen = endpoints.gen
        BY <1>10, <2>1, PutKeepsGen
      <3>3. endpoints \in Endpoints
        BY <1>3, <2>1, EcTypes, PastIsKnown DEF StoreFits
      <3>4. /\ endpoints'.of[d].exposed /\ endpoints'.of[d].num = endpoints.of[d].num
            /\ \A c \in Clusters : c # d => endpoints'.of[c] = endpoints.of[c]
        BY <3>1, <3>3, EntryExposed DEF Exposing
      <3>5. Listed(endpoints', d)
        BY <3>4 DEF Listed, NoEntry
      <3>6. Has(obj.gen)
        BY <2>1, <3>1 DEF Has
      <3>7. \A c \in Others : Keeping(c) \/ Revealing(c)
        BY <1>3, <3>1, <3>4, <3>5, <3>6 DEF Keeping, Revealing
      <3> QED
        BY <1>3, <1>7, <1>8, <1>10, <2>1, <3>1, <3>2, <3>7 DEF PutExposed, world, Queue
    <2>2. CASE endpoints = None
      <3>1. /\ UNCHANGED <<endpoints, exports, imports>>
            /\ \A c \in Clusters : pc'[c].queue = pc[c].queue
            /\ \A c \in Clusters : pc'[c].put = pc[c].put \/ pc'[c].put = << >>
            /\ \A c \in Clusters : pc'[c].peers = pc[c].peers
        BY <1>10, <2>2, PutExposedEffect DEF PutExposed, world
      <3> QED
        BY <1>1, <1>2, <1>3, <2>2, <3>1, StillFollows, ImportsStay DEF Queue
    <2> QED
      BY <2>1, <2>2
  <1>11. ASSUME NEW d \in Clusters, Unpublish(d) \/ Import(d) \/ Skip(d) \/ Export(d)
         PROVE  ImportsFit' /\ \A c \in Others : Follow(c)'
    <2>1. /\ ProxyTakes(d) /\ UNCHANGED endpoints
      BY <1>11, ProxyEffect
    <2>2. ImportsFit'
      <3>1. CASE d = Primary
        BY <1>1, <1>2, <1>11, <3>1, TakesKeepsImports DEF Skip, Export
      <3>2. CASE d # Primary
        <4>1. UNCHANGED imports
          BY <1>11, <3>2 DEF Unpublish, Import, Skip, Export, world
        <4>2. Queue(Primary)' = Queue(Primary) /\ UNCHANGED pc[Primary].peers
          BY <1>3, <2>1, <3>2 DEF ProxyTakes, Queue
        <4> QED
          BY <1>1, <1>2, <2>1, <4>1, <4>2, ImportsStay
      <3> QED
        BY <3>1, <3>2
    <2>3. ASSUME NEW c \in Others PROVE Follow(c)'
      <3>1. CASE c = d
        BY <1>1, <1>3, <1>11, <3>1, TakesKeepsFollow DEF Import
      <3>2. CASE c # d
        <4>1. c \in exports' <=> c \in exports
          BY <1>11, <3>2 DEF Unpublish, Import, Skip, Export, world
        <4>2. pc'[c] = pc[c]
          BY <1>3, <2>1, <3>2 DEF ProxyTakes
        <4> QED
          BY <1>1, <2>1, <4>1, <4>2, StillFollows DEF Queue
      <3> QED
        BY <3>1, <3>2
    <2> QED
      BY <2>2, <2>3
  <1>12. ASSUME NEW d \in Clusters, EndpointsController(d)
         PROVE  ImportsFit' /\ \A c \in Others : Follow(c)'
    BY <1>4, <1>5, <1>6, <1>9, <1>12,
       FetchGivesUpEffect, KubernetesRaisesEffect
       DEF EndpointsController, TakeServiceEvent, FetchEndpoints, world
  <1>13. ASSUME NEW d \in Clusters, ProxyController(d)
         PROVE  ImportsFit' /\ \A c \in Others : Follow(c)'
    <2>1. ASSUME NEW peer \in Others, DeleteImport(d, peer)
          PROVE  ImportsFit' /\ \A c \in Others : Follow(c)'
      <3>1. /\ d = Primary /\ UNCHANGED <<endpoints, exports>>
            /\ \A c \in Clusters : pc'[c].queue = pc[c].queue /\ pc'[c].put = pc[c].put
        BY <2>1, DeleteImportEffect
      <3>2. ImportsFit'
        BY <1>1, <1>2, <2>1, <3>1, DeleteKeepsImports
      <3>3. \A c \in Others : Follow(c)'
        BY <1>1, <1>3, <3>1, StillFollows DEF Queue
      <3> QED
        BY <3>2, <3>3
    <2>2. CASE ServiceUnknown(d)
      <3>1. Disturb({"unseen"})
        BY <2>2 DEF ServiceUnknown
      <3> QED
        BY <3>1 DEF Disturb, Clean
    <2> QED
      BY <1>10, <1>11, <1>13, <2>1, <2>2 DEF ProxyController
  <1> QED
    BY <1>4, <1>12, <1>13
       DEF Next, vars, UserCreates, UserDeletes, ReportCopies, ReportPuts, world

-----------------------------------------------------------------------------
(* The invariant: until a disturbance, or until one is certain, what is    *)
(* stored, queued and in hand fits together.                               *)
Inv == Typed /\ Based /\ (Good => Mesh)

LEMMA InitInv == Init => Inv
  <1> SUFFICES ASSUME Init PROVE Inv
    OBVIOUS
  <1>1. Typed /\ Order /\ \A c \in Clusters : At(c) = "idle"
    BY InitTyped, InitOrder
  <1>2. Based
    BY <1>1 DEF Based
  <1>3. \A c \in Clusters : Queue(c) = << >> /\ pc[c].put = << >>
    BY DEF Init, IdlePC, Queue
  <1>4. /\ endpoints = None /\ exports = {} /\ Primary \in Clusters /\ Others \subseteq Clusters
        /\ Imported = {} /\ \A d \in Others : imports[d] <= 1
        /\ pc[Primary].peers = {} /\ Shown = {}
    BY ServiceMeshAssumption DEF Init, Others, Imported, IdlePC, Shown
  <1>5. ImportsFit
    <2>1. Orderly(Queue(Primary)) /\ Matches(Queue(Primary), {}, Imported, Shown)
      BY <1>3, <1>4 DEF Orderly, Matches
    <2> QED
      BY <1>3, <1>4, <2>1 DEF ImportsFit, ImportsFollow, ImportsExact
  <1>6. \A c \in Others : Follow(c)
    BY <1>3, <1>4 DEF Follow, Undone, Current, WillExpose, Lists
  <1> QED
    BY <1>1, <1>2, <1>5, <1>6 DEF Inv, Mesh

LEMMA NextInv == Inv /\ [Next]_vars => Inv'
  <1> SUFFICES ASSUME Inv, [Next]_vars PROVE Inv'
    OBVIOUS
  <1>1. Typed /\ Based /\ Typed' /\ Based' /\ disturbed \subseteq disturbed'
    BY NextTyped, BasedStep DEF Inv
  <1>2. ASSUME Good' PROVE Mesh'
    <2>1. Clean' /\ Clean
      BY <1>1, <1>2 DEF Good, Clean
    <2>2. ~Doomed
      BY <1>1, <1>2, <2>1, DoomedStays DEF Good
    <2>3. Good
      BY <2>1, <2>2 DEF Good, Clean
    <2>4. Mesh
      BY <2>3 DEF Inv
    <2> QED
      BY <1>1, <2>1, <2>3, <2>4, MeshStep
  <1> QED
    BY <1>1, <1>2 DEF Inv

\* When nothing is left to do, nobody is doomed.
LEMMA RestIsGood ==
  ASSUME Inv, AtRest, Clean
  PROVE  /\ Mesh /\ Typed
         /\ \A c \in Clusters : /\ At(c) = "idle" /\ Events(c) = << >> /\ Queue(c) = << >>
                                /\ pc[c].put = << >> /\ pc[c].peers = {} /\ \A g : ~Pending(c, g)
  <1>1. Typed
    BY DEF Inv
  <1>2. ASSUME NEW c \in Clusters
        PROVE  /\ At(c) = "idle" /\ Events(c) = << >> /\ Queue(c) = << >> /\ pc[c].put = << >>
               /\ pc[c].peers = {} /\ \A g : ~Pending(c, g)
    <2>1. /\ At(c) = "idle" /\ ec[c].queue = << >> /\ Queue(c) = << >> /\ pc[c].put = << >>
          /\ pc[c].peers = {}
      BY DEF AtRest, IdlePC, At, Queue
    <2>2. Events(c) = << >>
      BY <1>1, <2>1, EventsFacts
    <2> QED
      BY <2>1, <2>2 DEF Pending, Adds
  <1>3. Good
    BY <1>2 DEF Good, Clean, Doomed, Others
  <1> QED
    BY <1>1, <1>2, <1>3 DEF Inv

\* An entry counts pods exactly if the cluster is listed.
LEMMA EntryOfPods ==
  ASSUME NEW obj \in Endpoints, NEW c \in Clusters
  PROVE  /\ Listed(obj, c) <=> obj.of[c].num > 0
         /\ obj.of[c].exposed => Listed(obj, c)
  <1>1. obj.of[c] \in Entry
    BY DEF Endpoints
  <1>2. CASE obj.of[c] = NoEntry
    BY <1>2 DEF NoEntry, Listed
  <1>3. CASE obj.of[c] \in [num : Nat \ {0}, exposed : BOOLEAN]
    <2>1. obj.of[c].num > 0
      BY <1>3
    <2> QED
      BY <2>1 DEF NoEntry, Listed
  <1> QED
    BY <1>1, <1>2, <1>3 DEF Entry

LEMMA ServiceHasItsPods == Inv => ServiceReachesItsPods
  <1> SUFFICES ASSUME Inv, AtRest, service # None, Clean
               PROVE  LET there == {c \in Clusters : Pods[c] > 0}
                      IN  /\ endpoints # None
                          /\ \A c \in Clusters : endpoints.of[c].num = Pods[c]
                          /\ Imported = there \ {Primary}
                          /\ Imported \subseteq exports
                          /\ (IF NodePort THEN {} ELSE there) \cup {Primary} \subseteq k8
    BY DEF ServiceReachesItsPods, Clean
  <1>1. /\ Order /\ ImportsFollow /\ \A c \in Others : Follow(c)
        /\ Typed
        /\ \A c \in Clusters : /\ At(c) = "idle" /\ Events(c) = << >> /\ Queue(c) = << >>
                               /\ pc[c].put = << >> /\ \A g : ~Pending(c, g)
    BY RestIsGood DEF Mesh, ImportsFit
  <1>2. Primary \in Clusters /\ Others \subseteq Clusters /\ StoreFits /\ 0 \notin Past
        /\ PastEndpoints \subseteq Endpoints
    BY <1>1, ServiceMeshAssumption, PastIsKnown DEF Others, Typed
  <1>3. endpoints # None
    <2>1. endpoints.gen = service.gen
      BY <1>1, <1>2 DEF Order, PrimaryLeads
    <2>2. service.gen \in Past
      BY <1>2 DEF StoreFits, PastService
    <2> QED
      BY <1>2, <2>1, <2>2 DEF None
  <1>4. endpoints \in Endpoints /\ endpoints.gen \in Gens
    BY <1>2, <1>3 DEF StoreFits, Endpoints
  <1>5. \A c \in Clusters : endpoints.of[c].num = Pods[c]
    BY <1>1, <1>3, <1>4 DEF Order, Counted, Has
  <1>6. ASSUME NEW c \in Others
        PROVE  /\ endpoints.of[c].exposed <=> Pods[c] > 0
               /\ endpoints.of[c].exposed => c \in exports
    <2>1. Listed(endpoints, c) => endpoints.of[c].exposed
      BY <1>1, <1>2, <1>3 DEF Follow, WillExpose, Lists
    <2>2. endpoints.of[c].exposed => c \in exports
      BY <1>1, <1>3 DEF Follow, Current, Remains
    <2> QED
      BY <1>2, <1>4, <1>5, <2>1, <2>2, EntryOfPods
  <1>7. Imported = {c \in Others : Pods[c] > 0}
    <2>1. ExposedOthers(endpoints) \subseteq Imported
      BY <1>1, <1>2, <1>3 DEF ImportsFollow, Shown
    <2>2. Imported \subseteq {c \in Others : Pods[c] > 0}
      BY <1>2 DEF StoreFits, Imported
    <2> QED
      BY <1>6, <2>1, <2>2 DEF ExposedOthers
  <1>8. \A c \in Clusters : Hosts(c) => c \in k8
    BY <1>1 DEF Order, K8Fits, Serving
  <1>9. \A c \in Clusters : Pods[c] > 0 => NodePort \/ c \in k8
    BY <1>8 DEF Hosts
  <1>10. Primary \in k8
    BY <1>2, <1>8 DEF Hosts
  <1> QED
    BY <1>3, <1>5, <1>6, <1>7, <1>9, <1>10 DEF Others

LEMMA NothingIsLeft == Inv => DeletedServicesLeaveNothing
  <1> SUFFICES ASSUME Inv, AtRest, service = None, Clean
               PROVE  /\ endpoints = None /\ exports = {} /\ k8 = {}
                      /\ disturbed = {} => Imported = {}
    BY DEF DeletedServicesLeaveNothing, Clean
  <1>1. /\ Order /\ ImportsFollow /\ \A c \in Others : Follow(c)
        /\ Typed /\ ImportsFit
        /\ \A c \in Clusters : /\ At(c) = "idle" /\ Events(c) = << >> /\ Queue(c) = << >>
                               /\ pc[c].peers = {}
    BY RestIsGood DEF Mesh, ImportsFit
  <1>2. Primary \in Clusters /\ Others \subseteq Clusters /\ StoreFits /\ 0 \notin Past
    BY <1>1, ServiceMeshAssumption, PastIsKnown DEF Others, Typed
  <1>3. endpoints = None
    <2>1. endpoints.gen = 0
      BY <1>1, <1>2 DEF Order, PrimaryLeads, None
    <2> QED
      BY <1>2, <2>1 DEF StoreFits, PastEndpoints
  <1>4. exports = {}
    <2>1. \A c \in Others : c \notin exports
      BY <1>1, <1>2, <1>3 DEF Follow, Undone, Lists
    <2> QED
      BY <1>2, <2>1 DEF StoreFits
  <1>5. disturbed = {} => Imported = {}
    BY <1>1, <1>2, <1>3 DEF ImportsFit, ImportsExact, Matches, Shown
  <1>6. k8 = {}
    <2>1. \A c \in Clusters : c \notin k8
      BY <1>1 DEF Order, K8Fits, Serving
    <2> QED
      BY <1>2, <2>1 DEF StoreFits
  <1> QED
    BY <1>3, <1>4, <1>5, <1>6

LEMMA MeshInvariant == Spec => []Inv
  BY InitInv, NextInv, PTL DEF Spec

(* For any clusters, pods and bounds: when the controllers of a service    *)
(* have nothing left to do, its Endpoints, exports, imports and Kubernetes *)
(* services are those of its pods, whatever was created, deleted, exported *)
(* and overwritten before; unless one of the disturbances has happened     *)
(* that the property names.  All types are kept.                           *)
THEOREM ServicesReachTheirPods == Spec => []MeshIsSound
  <1>1. Inv => MeshIsSound
    BY TypedIsTypeOK, ServiceHasItsPods DEF MeshIsSound, Inv
  <1> QED
    BY <1>1, MeshInvariant, PTL

(* For any clusters, pods and bounds: a deleted service leaves no          *)
(* Endpoints and nothing on any cluster, deleted at any moment and created *)
(* again in between, with the same exceptions.                             *)
THEOREM DeletionsLeaveNothing == Spec => []DeletedServicesLeaveNothing
  BY NothingIsLeft, MeshInvariant, PTL
=============================================================================
