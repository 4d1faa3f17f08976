---------------------------- MODULE Informer_proofs ----------------------------
(***************************************************************************)
(* Informer, for any names, any number of changes and reconnects, and with *)
(* or without resyncs and failing lists:                                   *)
(*   - its types, and that neither the cache nor the queue ever holds a    *)
(*     state the object was not in, which is inductive only together with  *)
(*     the same of everything an event can be made from: the store, the    *)
(*     log and the lists on their way (IInv);                              *)
(*   - that no object goes back to an older revision before a resync: each *)
(*     list is the newest up to its place in the log, and what is cached   *)
(*     or pending was written by then (Ordered);                           *)
(*   - the promise it keeps while nothing disturbs it: what an event does  *)
(*     to what is known of a name (Known), and that cache and queue        *)
(*     together are the store at a place of the log (PInv).                *)
(***************************************************************************)
EXTENDS Informer, FiniteSetTheorems, SequenceTheorems, WellFoundedInduction, TLAPS

Threads == {"reflector", "controller"}

(* A snapshot, respectively a sequence of events, says what once was.      *)
SnapshotWas(s) == \A n \in Names : s[n] # NotThere => WasStored(n, s[n])
EventsWere(s) == \A k \in 1 .. Len(s) : WasStored(s[k].name, s[k].value)

(* What the events are made from says what once was.                       *)
SourcesAreHistorical ==
  /\ SnapshotWas(store)
  /\ EventsWere(log)
  /\ \A t \in Threads : SnapshotWas(listed[t].objects)

IInv == TypeOK /\ SourcesAreHistorical /\ CacheIsHistorical

LEMMA CacheIsHistoricalMeans ==
  CacheIsHistorical <=> SnapshotWas(cache) /\ EventsWere(queue)
  BY DEF CacheIsHistorical, SnapshotWas, EventsWere

-----------------------------------------------------------------------------
(* The log only grows, so what was stored stays so.                        *)
LEMMA WasStoredForEver ==
  ASSUME log \in Seq(Objects!Event),
         NEW e \in Objects!Event, log' = Append(log, e),
         NEW n, NEW rv, WasStored(n, rv)
  PROVE  WasStored(n, rv)'
  <1>1. /\ Len(log) \in Nat /\ Len(log') = Len(log) + 1
        /\ \A i \in 1 .. Len(log) : log'[i] = log[i]
    BY AppendProperties
  <1> QED
    BY <1>1 DEF WasStored

(* Events of a finite set can be put in order, and an order holds no other *)
(* element.                                                                *)
LEMMA OrdersType ==
  ASSUME NEW S, IsFiniteSet(S), NEW s \in Orders(S)
  PROVE  /\ s \in Seq(S)
         /\ \A i \in 1 .. Len(s) : s[i] \in S
  <1>1. Cardinality(S) \in Nat
    BY FS_CardinalityType
  <1>2. s \in [1 .. Cardinality(S) -> S]
    BY DEF Orders
  <1>3. s \in Seq(S)
    BY <1>1, <1>2
  <1> QED
    BY <1>3

LEMMA DifferencesAreFinite ==
  ASSUME NEW objects
  PROVE  IsFiniteSet(NewOrChanged(objects)) /\ IsFiniteSet(Gone(objects))
  <1>1. \A D \in SUBSET Names : IsFiniteSet(D)
    BY InformerAssumption, FS_Subset
  <1>2. IsFiniteSet(NewOrChanged(objects))
    <2> DEFINE D == {m \in Names : objects[m] # NotThere /\ objects[m] # cache[m]}
               f == [n \in D |-> [type |-> IF cache[n] = NotThere THEN "ADD" ELSE "UPDATE",
                                  name |-> n, value |-> objects[n]]]
    <2>1. IsFiniteSet(D)
      BY <1>1
    <2>2. f \in Surjection(D, NewOrChanged(objects))
      BY DEF NewOrChanged, Surjection
    <2> QED
      BY <2>1, <2>2, FS_Surjection DEF ExistsSurjection
  <1>3. IsFiniteSet(Gone(objects))
    <2> DEFINE D == {m \in Names : objects[m] = NotThere /\ cache[m] # NotThere}
               f == [n \in D |-> [type |-> "DELETE", name |-> n, value |-> cache[n]]]
    <2>1. IsFiniteSet(D)
      BY <1>1
    <2>2. f \in Surjection(D, Gone(objects))
      BY DEF Gone, Surjection
    <2> QED
      BY <2>1, <2>2, FS_Surjection DEF ExistsSurjection
  <1> QED
    BY <1>2, <1>3

(* An event for a difference is an event, and says what once was.          *)
LEMMA DifferencesWere ==
  ASSUME cache \in Snapshot, SnapshotWas(cache),
         NEW objects \in Snapshot, SnapshotWas(objects),
         NEW e \in NewOrChanged(objects) \cup Gone(objects)
  PROVE  e \in Objects!Event /\ WasStored(e.name, e.value)
  BY DEF NewOrChanged, Gone, Snapshot, SnapshotWas, Objects!Event, Revisions, NotThere

LEMMA ConcatWere ==
  ASSUME NEW s \in Seq(Objects!Event), NEW t \in Seq(Objects!Event),
         EventsWere(s), EventsWere(t)
  PROVE  s \o t \in Seq(Objects!Event) /\ EventsWere(s \o t)
  <1>1. /\ s \o t \in Seq(Objects!Event)
        /\ Len(s \o t) = Len(s) + Len(t)
        /\ Len(s) \in Nat /\ Len(t) \in Nat
        /\ \A i \in 1 .. Len(s) + Len(t) :
             (s \o t)[i] = IF i <= Len(s) THEN s[i] ELSE t[i - Len(s)]
    BY ConcatProperties
  <1>2. SUFFICES ASSUME NEW k \in 1 .. Len(s \o t)
                 PROVE  WasStored((s \o t)[k].name, (s \o t)[k].value)
    BY <1>1 DEF EventsWere
  <1>3. CASE k <= Len(s)
    BY <1>1, <1>3 DEF EventsWere
  <1>4. CASE ~(k <= Len(s))
    <2>1. k - Len(s) \in 1 .. Len(t)
      BY <1>1, <1>4
    <2> QED
      BY <1>1, <1>4, <2>1 DEF EventsWere
  <1> QED
    BY <1>3, <1>4

LEMMA OrderedDifferences ==
  ASSUME cache \in Snapshot, SnapshotWas(cache),
         NEW objects \in Snapshot, SnapshotWas(objects),
         NEW S, S \subseteq NewOrChanged(objects) \/ S \subseteq Gone(objects),
         NEW s \in Orders(S)
  PROVE  s \in Seq(Objects!Event) /\ EventsWere(s)
  <1>1. IsFiniteSet(S)
    BY DifferencesAreFinite, FS_Subset
  <1>2. s \in Seq(S) /\ \A i \in 1 .. Len(s) : s[i] \in S
    BY <1>1, OrdersType
  <1>3. \A i \in 1 .. Len(s) : s[i] \in Objects!Event /\ WasStored(s[i].name, s[i].value)
    BY <1>2, DifferencesWere
  <1> QED
    BY <1>2, <1>3 DEF EventsWere

(* Comparing a list with the cache adds such events to the queue only,     *)
(* also if it stops on the way.                                            *)
LEMMA EnqueueKeeps ==
  ASSUME IInv, NEW t \in Threads,
         NEW some \in SUBSET NewOrChanged(listed[t].objects),
         NEW gone \in SUBSET Gone(listed[t].objects), Enqueue(some, gone)
  PROVE  queue' \in Seq(Objects!Event) /\ EventsWere(queue')
  <1> DEFINE objects == listed[t].objects
  <1>1. /\ queue \in Seq(Objects!Event) /\ EventsWere(queue)
        /\ cache \in Snapshot /\ SnapshotWas(cache)
        /\ objects \in Snapshot /\ SnapshotWas(objects)
    BY CacheIsHistoricalMeans DEF IInv, TypeOK, SourcesAreHistorical, Threads
  <1>2. PICK first \in Orders(some), rest \in Orders(gone) : queue' = queue \o first \o rest
    BY DEF Enqueue
  <1>3. /\ first \in Seq(Objects!Event) /\ EventsWere(first)
        /\ rest \in Seq(Objects!Event) /\ EventsWere(rest)
    BY <1>1, <1>2, OrderedDifferences
  <1>4. queue \o first \in Seq(Objects!Event) /\ EventsWere(queue \o first)
    BY <1>1, <1>3, ConcatWere
  <1> QED
    BY <1>2, <1>3, <1>4, ConcatWere

LEMMA CompareKeeps ==
  ASSUME IInv, NEW t \in Threads, Compare(listed[t].objects) \/ CompareInPart(listed[t].objects)
  PROVE  queue' \in Seq(Objects!Event) /\ EventsWere(queue')
  BY EnqueueKeeps DEF Compare, CompareInPart

-----------------------------------------------------------------------------
(* The users of the API server: the only step that changes store and log.  *)
LEMMA ChangeAppends ==
  ASSUME TypeOK, SourcesAreHistorical, Change
  PROVE  \E e \in Objects!Event :
           /\ log' = Append(log, e)
           /\ store' = [store EXCEPT ![e.name] = IF e.type = "DELETE" THEN NotThere
                                                 ELSE e.value]
           /\ e.type = "DELETE" => WasStored(e.name, e.value)
           /\ e.type # "DELETE" => e.value = Len(log) + 1
           /\ e.type = "ADD" <=> store[e.name] = NotThere
  <1>1. Len(log) + 1 \in Revisions
    BY DEF TypeOK, Objects!TypeOK, Revisions, NotThere
  <1>2. PICK n \in Names : \/ Objects!Add(n, Len(log) + 1)
                           \/ Objects!Modify(n, Len(log) + 1)
                           \/ Objects!Remove(n)
    BY DEF Change
  <1>3. CASE Objects!Add(n, Len(log) + 1)
    <2> DEFINE e == [type |-> "ADD", name |-> n, value |-> Len(log) + 1]
    <2>1. e \in Objects!Event
      BY <1>1 DEF Objects!Event
    <2> QED
      BY <1>3, <2>1 DEF Objects!Add, Objects!Announce
  <1>4. CASE Objects!Modify(n, Len(log) + 1)
    <2> DEFINE e == [type |-> "UPDATE", name |-> n, value |-> Len(log) + 1]
    <2>1. e \in Objects!Event
      BY <1>1 DEF Objects!Event
    <2> QED
      BY <1>4, <2>1 DEF Objects!Modify, Objects!Announce
  <1>5. CASE Objects!Remove(n)
    <2> DEFINE e == [type |-> "DELETE", name |-> n, value |-> store[n]]
    <2>1. store[n] \in Revisions /\ store[n] # NotThere
      BY <1>5 DEF Objects!Remove, TypeOK, Objects!TypeOK
    <2>2. e \in Objects!Event
      BY <2>1 DEF Objects!Event
    <2>3. WasStored(n, store[n])
      BY <2>1 DEF SourcesAreHistorical, SnapshotWas
    <2> QED
      BY <1>5, <2>2, <2>3 DEF Objects!Remove, Objects!Announce
  <1> QED
    BY <1>2, <1>3, <1>4, <1>5

LEMMA ChangeKeeps ==
  ASSUME IInv, Change
  PROVE  IInv'
  <1> USE DEF IInv
  <1>1. PICK e \in Objects!Event :
           /\ log' = Append(log, e)
           /\ store' = [store EXCEPT ![e.name] = IF e.type = "DELETE" THEN NotThere
                                                 ELSE e.value]
           /\ e.type = "DELETE" => WasStored(e.name, e.value)
    BY ChangeAppends
  <1>2. /\ log \in Seq(Objects!Event)
        /\ log' \in Seq(Objects!Event)
        /\ Len(log) \in Nat /\ Len(log') = Len(log) + 1
        /\ \A i \in 1 .. Len(log) : log'[i] = log[i]
        /\ log'[Len(log) + 1] = e
    BY <1>1, AppendProperties DEF TypeOK, Objects!TypeOK
  <1>3. e.name \in Names /\ e.value \in Revisions
    BY DEF Objects!Event
  <1>4. \A n, rv : WasStored(n, rv) => WasStored(n, rv)'
    BY <1>1, <1>2, WasStoredForEver
  <1>5. WasStored(e.name, e.value)'
    <2>1. CASE e.type = "DELETE"
      BY <1>1, <1>4, <2>1
    <2>2. CASE e.type # "DELETE"
      BY <1>2, <2>2 DEF WasStored
    <2> QED
      BY <2>1, <2>2
  <1>6. UNCHANGED <<cache, queue, reflector, pos, reconnects, controller, listed, disturbed>>
    BY DEF Change
  <1>7. TypeOK'
    <2>1. Objects!TypeOK'
      BY <1>1, <1>2, <1>3 DEF TypeOK, Objects!TypeOK
    <2>2. pos' \in 0 .. Len(log')
      BY <1>2, <1>6 DEF TypeOK
    <2> QED
      BY <1>6, <2>1, <2>2 DEF TypeOK
  <1>8. SnapshotWas(store)'
    BY <1>1, <1>3, <1>4, <1>5
    DEF SourcesAreHistorical, SnapshotWas, TypeOK, Objects!TypeOK
  <1>9. EventsWere(log)'
    <2> SUFFICES ASSUME NEW k \in 1 .. Len(log')
                 PROVE  WasStored(log[k].name, log[k].value)'
      BY DEF EventsWere
    <2>1. CASE k \in 1 .. Len(log)
      BY <1>2, <1>4, <2>1 DEF SourcesAreHistorical, EventsWere
    <2>2. CASE k = Len(log) + 1
      BY <1>2, <1>5, <2>2
    <2> QED
      BY <1>2, <2>1, <2>2
  <1>10. \A t \in Threads : SnapshotWas(listed[t].objects)'
    BY <1>4, <1>6 DEF SourcesAreHistorical, SnapshotWas
  <1>11. CacheIsHistorical'
    BY <1>4, <1>6 DEF CacheIsHistorical
  <1> QED
    BY <1>7, <1>8, <1>9, <1>10, <1>11 DEF SourcesAreHistorical

(* A step of the informer leaves the store and the log alone; what is left *)
(* to show is that what it takes over was already there.                   *)
LEMMA InformerStepKeeps ==
  ASSUME IInv, TypeOK', UNCHANGED <<store, log>>,
         SnapshotWas(cache'), EventsWere(queue'),
         \A t \in Threads : SnapshotWas(listed'[t].objects)
  PROVE  IInv'
  BY DEF IInv, SourcesAreHistorical, CacheIsHistorical, SnapshotWas, EventsWere, WasStored

LEMMA TakeListKeeps ==
  ASSUME IInv, NEW t \in Threads, TakeList(t)
  PROVE  /\ listed' \in [Threads -> [at : Nat, objects : Snapshot]]
         /\ \A u \in Threads : SnapshotWas(listed'[u].objects)
  <1>1. [at |-> Len(log), objects |-> store] \in [at : Nat, objects : Snapshot]
    BY DEF IInv, TypeOK, Objects!TypeOK, Snapshot, Revisions, NotThere
  <1>2. listed \in [Threads -> [at : Nat, objects : Snapshot]]
    BY DEF IInv, TypeOK, Threads
  <1>3. \A u \in Threads : listed'[u].objects = IF u = t THEN store ELSE listed[u].objects
    BY <1>2 DEF TakeList
  <1> QED
    BY <1>1, <1>2, <1>3 DEF TakeList, IInv, SourcesAreHistorical

(* Each step keeps the strengthened invariant.                             *)
LEMMA NextKeeps ==
  ASSUME IInv, [Next]_vars
  PROVE  IInv'
  <1>1. /\ SnapshotWas(cache) /\ EventsWere(queue) /\ SnapshotWas(store) /\ EventsWere(log)
        /\ \A t \in Threads : SnapshotWas(listed[t].objects)
        /\ queue \in Seq(Objects!Event) /\ log \in Seq(Objects!Event)
        /\ store \in Snapshot /\ cache \in Snapshot
        /\ listed \in [Threads -> [at : Nat, objects : Snapshot]]
        /\ TypeOK
    BY CacheIsHistoricalMeans
    DEF IInv, SourcesAreHistorical, TypeOK, Objects!TypeOK, Snapshot, Revisions, NotThere,
        Threads
  <1>2. CASE Change
    BY <1>2, ChangeKeeps
  <1>3. CASE Start
    <2>1. TypeOK'
      BY <1>1, <1>3 DEF Start, TypeOK, Objects!TypeOK
    <2> QED
      BY <1>1, <1>3, <2>1, InformerStepKeeps DEF Start
  <1>4. CASE ReflectorList
    <2>1. /\ listed' \in [Threads -> [at : Nat, objects : Snapshot]]
          /\ \A u \in Threads : SnapshotWas(listed'[u].objects)
      BY <1>4, TakeListKeeps DEF ReflectorList, Threads
    <2>2. TypeOK'
      BY <1>1, <1>4, <2>1 DEF ReflectorList, TypeOK, Objects!TypeOK, Threads
    <2> QED
      BY <1>1, <1>4, <2>1, <2>2, InformerStepKeeps DEF ReflectorList
  <1>5. CASE ReflectorCompare
    <2>1. queue' \in Seq(Objects!Event) /\ EventsWere(queue')
      BY <1>5, CompareKeeps DEF ReflectorCompare, Threads
    <2>2. TypeOK'
      BY <1>1, <1>5, <2>1
      DEF ReflectorCompare, TypeOK, Objects!TypeOK, Disturbed, Disturbances
    <2> QED
      BY <1>1, <1>5, <2>1, <2>2, InformerStepKeeps DEF ReflectorCompare
  <1>6. CASE ReflectorCompareRaises
    <2>3. queue' \in Seq(Objects!Event) /\ EventsWere(queue')
      BY <1>6, CompareKeeps DEF ReflectorCompareRaises, Threads
    <2>4. reconnects' \in 0 .. MaxReconnects
      BY <1>1, <1>6, InformerAssumption DEF ReflectorCompareRaises, TypeOK
    <2>5. TypeOK'
      BY <1>1, <1>6, <2>3, <2>4
      DEF ReflectorCompareRaises, TypeOK, Objects!TypeOK, Disturbed, Disturbances
    <2> QED
      BY <1>1, <1>6, <2>3, <2>5, InformerStepKeeps DEF ReflectorCompareRaises
  <1>7. CASE WatchOpens
    <2>1. pos' \in 0 .. Len(log')
      BY <1>1, <1>7 DEF WatchOpens
    <2>2. TypeOK'
      BY <1>1, <1>7, <2>1
      DEF WatchOpens, TypeOK, Objects!TypeOK, Disturbed, Disturbances
    <2> QED
      BY <1>1, <1>7, <2>2, InformerStepKeeps DEF WatchOpens
  <1>8. CASE WatchDelivers
    <2>1. pos + 1 \in 1 .. Len(log) /\ pos' \in 0 .. Len(log')
      BY <1>1, <1>8 DEF WatchDelivers, TypeOK
    <2>2. log[pos + 1] \in Objects!Event /\ WasStored(log[pos + 1].name, log[pos + 1].value)
      BY <1>1, <2>1, ElementOfSeq DEF EventsWere
    <2> DEFINE one == <<log[pos + 1]>>
    <2>3. one \in Seq(Objects!Event) /\ EventsWere(one)
      BY <2>2 DEF EventsWere
    <2>4. queue' = queue \o one
      BY <1>1, <1>8, <2>2, AppendIsConcat DEF WatchDelivers
    <2>5. queue' \in Seq(Objects!Event) /\ EventsWere(queue')
      BY <1>1, <2>3, <2>4, ConcatWere
    <2>6. TypeOK'
      BY <1>1, <1>8, <2>1, <2>5 DEF WatchDelivers, TypeOK, Objects!TypeOK
    <2> QED
      BY <1>1, <1>8, <2>5, <2>6, InformerStepKeeps DEF WatchDelivers
  <1>9. CASE WatchEnds
    <2>1. reconnects' \in 0 .. MaxReconnects
      BY <1>1, <1>9, InformerAssumption DEF WatchEnds, TypeOK
    <2>2. TypeOK'
      BY <1>1, <1>9, <2>1 DEF WatchEnds, TypeOK, Objects!TypeOK
    <2> QED
      BY <1>1, <1>9, <2>2, InformerStepKeeps DEF WatchEnds
  <1>10. CASE HandleEvent
    <2> DEFINE e == Head(queue)
    <2>1. queue # << >> /\ queue' = Tail(queue)
      BY <1>10 DEF HandleEvent
    <2>2. /\ e \in Objects!Event
          /\ queue' \in Seq(Objects!Event)
          /\ \A i \in 1 .. Len(queue') : i + 1 \in 1 .. Len(queue) /\ queue'[i] = queue[i + 1]
          /\ e = queue[1] /\ 1 \in 1 .. Len(queue)
      BY <1>1, <2>1, HeadTailProperties, EmptySeq
    <2>3. WasStored(e.name, e.value) /\ EventsWere(queue')
      BY <1>1, <2>2 DEF EventsWere
    <2>4. \/ cache' = cache
          \/ cache' = [cache EXCEPT ![e.name] = NotThere]
          \/ cache' = [cache EXCEPT ![e.name] = e.value]
      BY <1>10 DEF HandleEvent
    <2>5. e.name \in Names /\ e.value \in Nat
      BY <2>2 DEF Objects!Event, Revisions
    <2>6. cache' \in Snapshot /\ SnapshotWas(cache')
      <3>1. CASE cache' = cache
        BY <1>1, <3>1
      <3>2. CASE cache' = [cache EXCEPT ![e.name] = NotThere]
        BY <1>1, <3>2 DEF Snapshot, SnapshotWas, NotThere
      <3>3. CASE cache' = [cache EXCEPT ![e.name] = e.value]
        <4>1. cache' \in Snapshot
          BY <1>1, <2>5, <3>3 DEF Snapshot
        <4>2. \A n \in Names : cache'[n] = IF n = e.name THEN e.value ELSE cache[n]
          BY <1>1, <3>3 DEF Snapshot
        <4> QED
          BY <1>1, <2>3, <4>1, <4>2 DEF SnapshotWas
      <3> QED
        BY <2>4, <3>1, <3>2, <3>3
    <2>7. controller' \in {"start", "wait", "compare", "dead"}
      BY <1>1, <1>10 DEF HandleEvent, TypeOK
    <2>8. TypeOK'
      BY <1>1, <1>10, <2>2, <2>6, <2>7 DEF HandleEvent, TypeOK, Objects!TypeOK
    <2> QED
      BY <1>1, <1>10, <2>3, <2>6, <2>8, InformerStepKeeps DEF HandleEvent
  <1>11. CASE ControllerLists
    <2>1. /\ listed' \in [Threads -> [at : Nat, objects : Snapshot]]
          /\ \A u \in Threads : SnapshotWas(listed'[u].objects)
      BY <1>11, TakeListKeeps DEF ControllerLists, Threads
    <2>2. TypeOK'
      BY <1>1, <1>11, <2>1 DEF ControllerLists, TypeOK, Objects!TypeOK, Threads
    <2> QED
      BY <1>1, <1>11, <2>1, <2>2, InformerStepKeeps DEF ControllerLists
  <1>12. CASE ControllerListRaises
    <2>1. TypeOK'
      BY <1>1, <1>12
      DEF ControllerListRaises, TypeOK, Objects!TypeOK, Disturbed, Disturbances
    <2> QED
      BY <1>1, <1>12, <2>1, InformerStepKeeps DEF ControllerListRaises
  <1>13. CASE ControllerCompares
    <2>1. queue' \in Seq(Objects!Event) /\ EventsWere(queue')
      BY <1>13, CompareKeeps DEF ControllerCompares, Threads
    <2>2. TypeOK'
      BY <1>1, <1>13, <2>1
      DEF ControllerCompares, TypeOK, Objects!TypeOK, Disturbed, Disturbances
    <2> QED
      BY <1>1, <1>13, <2>1, <2>2, InformerStepKeeps DEF ControllerCompares
  <1>14. CASE UNCHANGED vars
    <2>1. TypeOK'
      BY <1>1, <1>14 DEF vars, TypeOK, Objects!TypeOK
    <2> QED
      BY <1>1, <1>14, <2>1, InformerStepKeeps DEF vars
  <1>15. CASE ReflectorGivesUp
    <2>1. TypeOK'
      BY <1>1, <1>15 DEF ReflectorGivesUp, TypeOK, Objects!TypeOK
    <2> QED
      BY <1>1, <1>15, <2>1, InformerStepKeeps DEF ReflectorGivesUp
  <1> QED
    BY <1>2, <1>3, <1>4, <1>5, <1>6, <1>7, <1>8, <1>9, <1>10, <1>11, <1>12, <1>13, <1>14,
       <1>15
    DEF Next, Reflect, Control

LEMMA InitHolds == Init => IInv
  <1> SUFFICES ASSUME Init PROVE IInv
    OBVIOUS
  <1>1. TypeOK
    BY InformerAssumption
    DEF Init, TypeOK, Objects!Init, Objects!TypeOK, Nothing, Snapshot, NotThere
  <1>2. SourcesAreHistorical /\ CacheIsHistorical
    BY DEF Init, Objects!Init, Nothing, SourcesAreHistorical, CacheIsHistorical,
           SnapshotWas, EventsWere, Threads
  <1> QED
    BY <1>1, <1>2 DEF IInv

(* Cache, queue and both threads keep their types, and whatever is cached  *)
(* or pending was at some time the state of the object: no reconnect,      *)
(* resync, failing list or interleaving of the two threads invents one.    *)
THEOREM InformerInventsNothing == Spec => [](TypeOK /\ CacheIsHistorical)
  <1>1. Init => IInv
    BY InitHolds
  <1>2. IInv /\ [Next]_vars => IInv'
    BY NextKeeps
  <1>3. IInv => TypeOK /\ CacheIsHistorical
    BY DEF IInv
  <1> QED
    BY <1>1, <1>2, <1>3, PTL DEF Spec

(* Every step of the informer keeps its types.                             *)
THEOREM TypeCorrect == Spec => []TypeOK
  <1>1. TypeOK /\ CacheIsHistorical => TypeOK
    OBVIOUS
  <1> QED
    BY <1>1, InformerInventsNothing, PTL

-----------------------------------------------------------------------------
(* The order of revisions.  A revision is the place in the log of the      *)
(* event that wrote it.                                                    *)
Written(i, n) == i \in 1 .. Len(log) /\ log[i].name = n /\ log[i].type # "DELETE"

WrittenBy(h, n, rv) == rv = NotThere \/ (rv <= h /\ Written(rv, n))

NewestBy(h, n, rv) ==
  /\ WrittenBy(h, n, rv)
  /\ rv # NotThere => \A i \in 1 .. h : Written(i, n) => i <= rv

RevisionsAreInOrder ==
  /\ \A i \in 1 .. Len(log) : log[i].type # "DELETE" => log[i].value = i
  /\ \A n \in Names : NewestBy(Len(log), n, store[n])
  /\ listed["reflector"].at <= Len(log)
  /\ \A n \in Names : NewestBy(listed["reflector"].at, n, listed["reflector"].objects[n])

(* How far the reflector has followed the log.                             *)
Horizon == IF reflector \in {"compare", "open"} THEN listed["reflector"].at
           ELSE IF reflector = "watch" THEN pos ELSE Len(log)

KnownBy(h) ==
  /\ \A n \in Names : WrittenBy(h, n, cache[n])
  /\ \A k \in 1 .. Len(queue) :
       queue[k].type # "DELETE" => WrittenBy(h, queue[k].name, queue[k].value)

Unstarted == reflector = "start" => queue = << >> /\ controller = "start"

(* What NeverGoesBack says of the cache and the queue.                     *)
QueueOrdered ==
  \A k \in 1 .. Len(queue) : queue[k].type # "DELETE" =>
    /\ cache[queue[k].name] <= queue[k].value
    /\ \A j \in 1 .. k : queue[j].name = queue[k].name /\ queue[j].type # "DELETE"
                          => queue[j].value <= queue[k].value

Ordered == /\ RevisionsAreInOrder
           /\ Unstarted
           /\ "resync" \notin disturbed => KnownBy(Horizon) /\ QueueOrdered

LEMMA TypeFacts ==
  ASSUME TypeOK
  PROVE  /\ log \in Seq(Objects!Event) /\ Len(log) \in Nat /\ DOMAIN log = 1 .. Len(log)
         /\ \A i \in 1 .. Len(log) : log[i] \in Objects!Event
         /\ queue \in Seq(Objects!Event) /\ Len(queue) \in Nat /\ DOMAIN queue = 1 .. Len(queue)
         /\ \A k \in 1 .. Len(queue) : /\ queue[k] \in Objects!Event
                                       /\ queue[k].name \in Names /\ queue[k].value \in Nat \ {0}
         /\ store \in Snapshot /\ cache \in Snapshot /\ pos \in 0 .. Len(log)
         /\ \A n \in Names : store[n] \in Nat /\ cache[n] \in Nat
         /\ listed \in [Threads -> [at : Nat, objects : Snapshot]]
         /\ \A t \in Threads : /\ listed[t].at \in Nat /\ listed[t].objects \in Snapshot
                               /\ \A n \in Names : listed[t].objects[n] \in Nat
  <1>1. /\ log \in Seq(Objects!Event) /\ queue \in Seq(Objects!Event)
        /\ store \in Snapshot /\ cache \in Snapshot /\ pos \in 0 .. Len(log)
        /\ listed \in [Threads -> [at : Nat, objects : Snapshot]]
    BY DEF TypeOK, Objects!TypeOK, Snapshot, Revisions, NotThere, Threads
  <1>2. \A k \in 1 .. Len(queue) : queue[k] \in Objects!Event
    BY <1>1, ElementOfSeq
  <1>3. \A e \in Objects!Event : e.name \in Names /\ e.value \in Nat \ {0}
    BY DEF Objects!Event, Revisions, NotThere
  <1>4. \A t \in Threads : listed[t] \in [at : Nat, objects : Snapshot]
    BY <1>1
  <1>5. \A s \in Snapshot : \A n \in Names : s[n] \in Nat
    BY DEF Snapshot
  <1> QED
    BY <1>1, <1>2, <1>3, <1>4, <1>5, LenProperties, ElementOfSeq

LEMMA KnownLater ==
  ASSUME TypeOK, NEW g \in Int, NEW h \in Int, g <= h, KnownBy(g)
  PROVE  KnownBy(h)
  BY TypeFacts DEF KnownBy, WrittenBy, Written

LEMMA HorizonInLog ==
  ASSUME TypeOK, RevisionsAreInOrder
  PROVE  Horizon \in Nat /\ Horizon <= Len(log)
  BY TypeFacts DEF Horizon, RevisionsAreInOrder, Threads

(* A list that is compared with the cache: every event of the comparison   *)
(* is a difference, all of them are there, and each name comes once.       *)
Differences(objects) == NewOrChanged(objects) \cup Gone(objects)

IsOrderOf(s, S) ==
  /\ \A k \in 1 .. Len(s) : s[k] \in S
  /\ \A e \in S : \E k \in 1 .. Len(s) : s[k] = e
  /\ \A j, k \in 1 .. Len(s) : s[j] = s[k] => j = k

LEMMA OrdersOrder ==
  ASSUME NEW S, IsFiniteSet(S), NEW s \in Orders(S)
  PROVE  IsOrderOf(s, S)
  <1> DEFINE m == Cardinality(S)
  <1>1. m \in Nat /\ s \in [1 .. m -> S] /\ \A x \in S : \E i \in DOMAIN s : s[i] = x
    BY FS_CardinalityType DEF Orders
  <1>2. Len(s) = m /\ DOMAIN s = 1 .. m
    <2>1. s \in Seq(S)
      BY <1>1
    <2> QED
      BY <1>1, <2>1, LenProperties
  <1>3. s \in Surjection(1 .. m, S)
    BY <1>1 DEF Surjection
  <1>4. IsFiniteSet(1 .. m) /\ Cardinality(1 .. m) = m
    BY <1>1, FS_Interval
  <1>5. s \in Injection(1 .. m, S)
    BY <1>3, <1>4, FS_Surjection
  <1>6. \A i, j \in 1 .. m : s[i] = s[j] => i = j
    BY <1>5 DEF Injection, IsInjective
  <1> QED
    BY <1>1, <1>2, <1>6 DEF IsOrderOf

LEMMA OrderedEvents ==
  ASSUME cache \in Snapshot, NEW objects \in Snapshot, NEW S,
         S \subseteq NewOrChanged(objects) \/ S \subseteq Gone(objects), NEW s \in Orders(S)
  PROVE  s \in Seq(Objects!Event) /\ Len(s) \in Nat /\ IsOrderOf(s, S)
  <1>1. IsFiniteSet(S)
    BY DifferencesAreFinite, FS_Subset
  <1>2. s \in Seq(S)
    BY <1>1, OrdersType
  <1>3. S \subseteq Objects!Event
    BY DEF NewOrChanged, Gone, Snapshot, Objects!Event, Revisions, NotThere
  <1>4. s \in Seq(Objects!Event)
    BY <1>2, <1>3, LenProperties, ElementOfSeq
  <1> QED
    BY <1>1, <1>4, OrdersOrder, LenProperties

LEMMA ConcatOrders ==
  ASSUME NEW s \in Seq(Objects!Event), NEW u \in Seq(Objects!Event), NEW S, NEW U,
         IsOrderOf(s, S), IsOrderOf(u, U), S \cap U = {}
  PROVE  s \o u \in Seq(Objects!Event) /\ IsOrderOf(s \o u, S \cup U)
  <1> DEFINE w == s \o u
  <1>1. /\ w \in Seq(Objects!Event) /\ Len(w) = Len(s) + Len(u)
        /\ Len(s) \in Nat /\ Len(u) \in Nat
        /\ \A i \in 1 .. Len(s) + Len(u) : w[i] = IF i <= Len(s) THEN s[i] ELSE u[i - Len(s)]
    BY ConcatProperties
  <1> HIDE DEF w
  <1>2. \A i \in 1 .. Len(w) : \/ i \in 1 .. Len(s) /\ w[i] = s[i] /\ w[i] \in S
                               \/ /\ i - Len(s) \in 1 .. Len(u) /\ ~(i <= Len(s))
                                  /\ w[i] = u[i - Len(s)] /\ w[i] \in U
    BY <1>1 DEF IsOrderOf
  <1>3. \A e \in S \cup U : \E k \in 1 .. Len(w) : w[k] = e
    <2>1. ASSUME NEW e \in S PROVE \E k \in 1 .. Len(w) : w[k] = e
      <3>1. PICK k \in 1 .. Len(s) : s[k] = e
        BY DEF IsOrderOf
      <3>2. k \in 1 .. Len(w) /\ w[k] = e
        BY <1>1, <3>1
      <3> QED
        BY <3>2
    <2>2. ASSUME NEW e \in U PROVE \E k \in 1 .. Len(w) : w[k] = e
      <3>1. PICK k \in 1 .. Len(u) : u[k] = e
        BY DEF IsOrderOf
      <3>2. /\ k + Len(s) \in 1 .. Len(s) + Len(u) /\ ~(k + Len(s) <= Len(s))
            /\ (k + Len(s)) - Len(s) = k
        BY <1>1
      <3>3. k + Len(s) \in 1 .. Len(w) /\ w[k + Len(s)] = e
        BY <1>1, <3>1, <3>2
      <3> QED
        BY <3>3
    <2> QED
      BY <2>1, <2>2
  <1>4. \A j, k \in 1 .. Len(w) : w[j] = w[k] => j = k
    <2> SUFFICES ASSUME NEW j \in 1 .. Len(w), NEW k \in 1 .. Len(w), w[j] = w[k] PROVE j = k
      OBVIOUS
    <2>1. CASE j <= Len(s) /\ k <= Len(s)
      BY <1>2, <2>1 DEF IsOrderOf
    <2>2. CASE ~(j <= Len(s)) /\ ~(k <= Len(s))
      <3>1. j - Len(s) = k - Len(s)
        BY <1>2, <2>2 DEF IsOrderOf
      <3> QED
        BY <1>1, <3>1
    <2>3. CASE ~(j <= Len(s) <=> k <= Len(s))
      BY <1>2, <2>3
    <2> QED
      BY <2>1, <2>2, <2>3
  <1> QED
    BY <1>1, <1>2, <1>3, <1>4 DEF IsOrderOf, w

LEMMA EnqueueAppends ==
  ASSUME IInv, NEW objects \in Snapshot, NEW some \in SUBSET NewOrChanged(objects),
         NEW gone \in SUBSET Gone(objects), Enqueue(some, gone)
  PROVE  \E s \in Seq(Objects!Event) :
           queue' = queue \o s /\ Len(s) \in Nat /\ IsOrderOf(s, some \cup gone)
  <1>1. cache \in Snapshot /\ queue \in Seq(Objects!Event)
    BY DEF IInv, TypeOK
  <1>2. PICK first \in Orders(some), rest \in Orders(gone) : queue' = queue \o first \o rest
    BY DEF Enqueue
  <1>3. /\ first \in Seq(Objects!Event) /\ IsOrderOf(first, some)
        /\ rest \in Seq(Objects!Event) /\ IsOrderOf(rest, gone)
    BY <1>1, <1>2, OrderedEvents
  <1>4. some \cap gone = {}
    BY DEF NewOrChanged, Gone
  <1>5. first \o rest \in Seq(Objects!Event) /\ IsOrderOf(first \o rest, some \cup gone)
    BY <1>3, <1>4, ConcatOrders
  <1>6. queue' = queue \o (first \o rest)
    BY <1>1, <1>2, <1>3, ConcatAssociative
  <1>7. Len(first \o rest) \in Nat
    BY <1>5, LenProperties
  <1> QED
    BY <1>5, <1>6, <1>7

LEMMA CompareAppends ==
  ASSUME IInv, NEW objects \in Snapshot, Compare(objects)
  PROVE  \E s \in Seq(Objects!Event) :
           queue' = queue \o s /\ Len(s) \in Nat /\ IsOrderOf(s, Differences(objects))
  BY EnqueueAppends DEF Compare, Differences

LEMMA CompareInPartAppends ==
  ASSUME IInv, NEW objects \in Snapshot, CompareInPart(objects)
  PROVE  \E S \in SUBSET Differences(objects), s \in Seq(Objects!Event) :
           queue' = queue \o s /\ IsOrderOf(s, S)
  <1>1. PICK some \in SUBSET NewOrChanged(objects), gone \in SUBSET Gone(objects) :
          Enqueue(some, gone)
    BY DEF CompareInPart
  <1>2. some \cup gone \in SUBSET Differences(objects)
    BY DEF Differences
  <1> QED
    BY <1>1, <1>2, EnqueueAppends

LEMMA NothingToCompare ==
  ASSUME IInv, NEW objects, objects = cache, Compare(objects)
  PROVE  queue' = queue
  <1>1. cache \in Snapshot /\ queue \in Seq(Objects!Event)
    BY DEF IInv, TypeOK
  <1>2. PICK s \in Seq(Objects!Event) :
          queue' = queue \o s /\ Len(s) \in Nat /\ IsOrderOf(s, Differences(cache))
    BY <1>1, CompareAppends
  <1>3. Differences(cache) = {}
    BY DEF Differences, NewOrChanged, Gone
  <1>4. 1 .. Len(s) = {}
    BY <1>2, <1>3 DEF IsOrderOf
  <1>5. s = << >>
    BY <1>2, <1>4, EmptySeq
  <1> QED
    BY <1>1, <1>2, <1>5, ConcatEmptySeq

(* Events are appended: the new ones are known by then, and none is older  *)
(* than what is cached or pending of its name.                             *)
Supersedes(n, rv) ==
  /\ cache[n] <= rv
  /\ \A k \in 1 .. Len(queue) : queue[k].name = n /\ queue[k].type # "DELETE"
                                => queue[k].value <= rv

AreNew(s, h) ==
  \A k \in 1 .. Len(s) : s[k].type # "DELETE" =>
    /\ WrittenBy(h, s[k].name, s[k].value) /\ Supersedes(s[k].name, s[k].value)
    /\ \A j \in 1 .. Len(s) : s[j].name = s[k].name /\ s[j].type # "DELETE"
                               => s[j].value = s[k].value

LEMMA AppendOrdered ==
  ASSUME TypeOK, UNCHANGED <<log, cache>>, NEW s \in Seq(Objects!Event), queue' = queue \o s,
         NEW h \in Int, KnownBy(h), AreNew(s, h), QueueOrdered
  PROVE  KnownBy(h)' /\ QueueOrdered'
  <1>1. /\ Len(queue') = Len(queue) + Len(s) /\ Len(queue) \in Nat /\ Len(s) \in Nat
        /\ \A i \in 1 .. Len(queue) + Len(s) :
             queue'[i] = IF i <= Len(queue) THEN queue[i] ELSE s[i - Len(queue)]
    BY TypeFacts, ConcatProperties
  <1>2. \A i \in 1 .. Len(queue') :
          \/ i \in 1 .. Len(queue) /\ queue'[i] = queue[i]
          \/ /\ ~(i <= Len(queue)) /\ i - Len(queue) \in 1 .. Len(s)
             /\ queue'[i] = s[i - Len(queue)]
    BY <1>1
  <1>3. \A k \in 1 .. Len(queue') :
          queue'[k].type # "DELETE" => WrittenBy(h, queue'[k].name, queue'[k].value)
    BY <1>2 DEF KnownBy, AreNew
  <1>4. ASSUME NEW k \in 1 .. Len(queue'), queue'[k].type # "DELETE"
        PROVE  /\ cache[queue'[k].name] <= queue'[k].value
               /\ \A j \in 1 .. k : queue'[j].name = queue'[k].name /\ queue'[j].type # "DELETE"
                                     => queue'[j].value <= queue'[k].value
    <2>0. \A i \in 1 .. Len(s) : s[i].value \in Nat
      <3>1. \A i \in 1 .. Len(s) : s[i] \in Objects!Event
        BY ElementOfSeq
      <3> QED
        BY <3>1 DEF Objects!Event, Revisions
    <2>1. CASE k \in 1 .. Len(queue) /\ queue'[k] = queue[k]
      <3>1. \A j \in 1 .. k : j \in 1 .. Len(queue) /\ queue'[j] = queue[j]
        BY <1>1, <2>1
      <3> QED
        BY <1>4, <2>1, <3>1 DEF QueueOrdered
    <2>2. CASE /\ ~(k <= Len(queue)) /\ k - Len(queue) \in 1 .. Len(s)
               /\ queue'[k] = s[k - Len(queue)]
      <3>1. Supersedes(queue'[k].name, queue'[k].value) /\ queue'[k].value \in Nat
        BY <1>4, <2>0, <2>2 DEF AreNew
      <3>2. ASSUME NEW j \in 1 .. k, queue'[j].name = queue'[k].name, queue'[j].type # "DELETE"
            PROVE  queue'[j].value <= queue'[k].value
        <4>1. j \in 1 .. Len(queue')
          BY <1>1
        <4>2. CASE j \in 1 .. Len(queue) /\ queue'[j] = queue[j]
          BY <3>1, <3>2, <4>2 DEF Supersedes
        <4>3. CASE j - Len(queue) \in 1 .. Len(s) /\ queue'[j] = s[j - Len(queue)]
          <5>1. queue'[j].value = queue'[k].value
            BY <1>4, <2>2, <3>2, <4>3 DEF AreNew
          <5> QED
            BY <3>1, <5>1
        <4> QED
          BY <1>2, <4>1, <4>2, <4>3
      <3> QED
        BY <3>1, <3>2 DEF Supersedes
    <2> QED
      BY <1>2, <2>1, <2>2
  <1>5. KnownBy(h)'
    <2>1. \A n, rv : WrittenBy(h, n, rv)' <=> WrittenBy(h, n, rv)
      BY DEF WrittenBy, Written
    <2> QED
      BY <1>3, <2>1 DEF KnownBy
  <1> QED
    BY <1>4, <1>5 DEF QueueOrdered

(* What a list shows of a name supersedes what was known by then.          *)
LEMMA ListSupersedes ==
  ASSUME TypeOK, NEW h \in Nat, KnownBy(h), NEW n \in Names, NEW rv \in Nat, rv # NotThere,
         NewestBy(h, n, rv)
  PROVE  Supersedes(n, rv)
  <1>1. \A v \in Nat : WrittenBy(h, n, v) => v <= rv
    BY TypeFacts DEF NewestBy, WrittenBy, Written, NotThere
  <1> QED
    BY <1>1, TypeFacts DEF KnownBy, Supersedes

LEMMA ListedAreNew ==
  ASSUME TypeOK, NEW h \in Nat, KnownBy(h), NEW objects \in Snapshot,
         \A n \in Names : NewestBy(h, n, objects[n]),
         NEW s, \A k \in 1 .. Len(s) : s[k] \in Differences(objects)
  PROVE  AreNew(s, h)
  <1>1. \A k \in 1 .. Len(s) : s[k].type # "DELETE" =>
          /\ s[k].name \in Names /\ s[k].value = objects[s[k].name]
          /\ objects[s[k].name] # NotThere
    BY DEF Differences, NewOrChanged, Gone
  <1>2. \A n \in Names : objects[n] \in Nat
    BY DEF Snapshot
  <1>3. \A n \in Names : objects[n] # NotThere => WrittenBy(h, n, objects[n]) /\ Supersedes(n, objects[n])
    BY <1>2, ListSupersedes DEF NewestBy
  <1> QED
    BY <1>1, <1>3 DEF AreNew

-----------------------------------------------------------------------------
(* Each step keeps the order.                                              *)
LEMMA LogGrows ==
  ASSUME TypeOK, NEW e \in Objects!Event, log' = Append(log, e)
  PROVE  /\ Len(log') = Len(log) + 1 /\ log'[Len(log) + 1] = e
         /\ \A i \in 1 .. Len(log) : log'[i] = log[i]
         /\ \A i \in 1 .. Len(log) : \A n : Written(i, n)' <=> Written(i, n)
         /\ \A i, n : Written(i, n) => Written(i, n)'
         /\ \A i, n : i = Len(log) + 1 => (Written(i, n)' <=> e.name = n /\ e.type # "DELETE")
  <1>1. /\ Len(log) \in Nat /\ Len(log') = Len(log) + 1 /\ log'[Len(log) + 1] = e
        /\ \A i \in 1 .. Len(log) : log'[i] = log[i]
    BY TypeFacts, AppendProperties
  <1>2. \A i : i \in 1 .. Len(log) => i \in 1 .. Len(log')
    BY <1>1
  <1>3. Len(log) + 1 \in 1 .. Len(log')
    BY <1>1
  <1>4. \A i, n : i = Len(log) + 1 => (Written(i, n)' <=> e.name = n /\ e.type # "DELETE")
    BY <1>1, <1>3 DEF Written
  <1>5. \A i \in 1 .. Len(log) : \A n : Written(i, n)' <=> Written(i, n)
    BY <1>1, <1>2 DEF Written
  <1>6. \A i, n : Written(i, n) => Written(i, n)'
    BY <1>1, <1>2 DEF Written
  <1> QED
    BY <1>1, <1>4, <1>5, <1>6

LEMMA ChangeOrdered ==
  ASSUME IInv, Ordered, Change
  PROVE  Ordered'
  <1>1. TypeOK
    BY DEF IInv
  <1>2. PICK e \in Objects!Event :
           /\ log' = Append(log, e)
           /\ store' = [store EXCEPT ![e.name] = IF e.type = "DELETE" THEN NotThere
                                                 ELSE e.value]
           /\ e.type = "DELETE" => WasStored(e.name, e.value)
           /\ e.type # "DELETE" => e.value = Len(log) + 1
           /\ e.type = "ADD" <=> store[e.name] = NotThere
    BY ChangeAppends DEF IInv
  <1>3. UNCHANGED <<cache, queue, reflector, pos, controller, listed, disturbed>>
    BY DEF Change
  <1>4. /\ Len(log') = Len(log) + 1 /\ log'[Len(log) + 1] = e /\ Len(log) \in Nat
        /\ \A i \in 1 .. Len(log) : log'[i] = log[i]
        /\ \A i \in 1 .. Len(log) : \A n : Written(i, n)' <=> Written(i, n)
        /\ \A i, n : Written(i, n) => Written(i, n)'
        /\ \A i, n : i = Len(log) + 1 => (Written(i, n)' <=> e.name = n /\ e.type # "DELETE")
    BY <1>1, <1>2, LogGrows, TypeFacts
  <1>5. RevisionsAreInOrder'
    <2>1. \A i \in 1 .. Len(log') : log'[i].type # "DELETE" => log'[i].value = i
      BY <1>2, <1>4 DEF Ordered, RevisionsAreInOrder
    <2>2. ASSUME NEW n \in Names
          PROVE  NewestBy(Len(log), n, store[n])'
      <3>0. NewestBy(Len(log), n, store[n]) /\ store[n] \in Nat
        BY <1>1, TypeFacts DEF Ordered, RevisionsAreInOrder
      <3>1. CASE n # e.name
        <4>1. store'[n] = store[n]
          BY <1>1, <1>2, <3>1, TypeFacts DEF Snapshot
        <4>2. \A i \in 1 .. Len(log') : Written(i, n)' => i \in 1 .. Len(log) /\ Written(i, n)
          <5>1. \A i \in 1 .. Len(log') : i \in 1 .. Len(log) \/ i = Len(log) + 1
            BY <1>4
          <5> QED
            BY <1>4, <3>1, <5>1
        <4>3. store[n] <= Len(log) => store[n] <= Len(log')
          BY <1>4, <3>0
        <4> QED
          BY <1>4, <3>0, <4>1, <4>2, <4>3 DEF NewestBy, WrittenBy
      <3>2. CASE n = e.name
        <4>1. store'[n] = IF e.type = "DELETE" THEN NotThere ELSE Len(log) + 1
          BY <1>1, <1>2, <3>2, TypeFacts DEF Snapshot
        <4>2. \A i \in 1 .. Len(log') : i <= Len(log) + 1
          BY <1>4
        <4>3. \A i : e.type # "DELETE" /\ i = Len(log) + 1 => Written(i, n)'
          BY <1>4, <3>2
        <4>4. Len(log) + 1 <= Len(log')
          BY <1>4
        <4> QED
          BY <1>4, <4>1, <4>2, <4>3, <4>4 DEF NewestBy, WrittenBy
      <3> QED
        BY <3>1, <3>2
    <2>3. ASSUME NEW n \in Names
          PROVE  NewestBy(listed["reflector"].at, n, listed["reflector"].objects[n])'
      <3>1. /\ NewestBy(listed["reflector"].at, n, listed["reflector"].objects[n])
            /\ listed["reflector"].at <= Len(log) /\ listed["reflector"].at \in Nat
        BY <1>1, TypeFacts DEF Ordered, RevisionsAreInOrder, Threads
      <3>2. \A i \in 1 .. listed["reflector"].at : Written(i, n)' <=> Written(i, n)
        BY <1>4, <3>1
      <3> QED
        BY <1>3, <1>4, <3>1, <3>2 DEF NewestBy, WrittenBy
    <2>4. listed'["reflector"].at <= Len(log')
      BY <1>1, <1>3, <1>4, TypeFacts DEF Ordered, RevisionsAreInOrder, Threads
    <2> QED
      BY <2>1, <2>2, <2>3, <2>4 DEF RevisionsAreInOrder
  <1>6. ASSUME "resync" \notin disturbed'
        PROVE  KnownBy(Horizon)' /\ QueueOrdered'
    <2>1. KnownBy(Horizon) /\ QueueOrdered /\ Horizon \in Nat
      BY <1>1, <1>3, <1>6, HorizonInLog DEF Ordered
    <2>2. Horizon <= Horizon' /\ Horizon' \in Int
      BY <1>1, <1>3, <1>4, TypeFacts DEF Horizon, Threads
    <2>3. \A n, rv : WrittenBy(Horizon, n, rv) => WrittenBy(Horizon, n, rv)'
      BY <1>1, <1>4, <2>1, <2>2, TypeFacts DEF WrittenBy, Written
    <2> QED
      BY <1>3, <2>1, <2>3 DEF KnownBy, QueueOrdered
  <1> QED
    BY <1>3, <1>5, <1>6 DEF Ordered, Unstarted

LEMMA QuietRevisions ==
  ASSUME RevisionsAreInOrder, UNCHANGED <<store, log>>,
         listed'["reflector"] = listed["reflector"]
  PROVE  RevisionsAreInOrder'
  BY DEF RevisionsAreInOrder, NewestBy, WrittenBy, Written

LEMMA ReflectorOrdered ==
  ASSUME IInv, Ordered, ReflectorCompare \/ ReflectorCompareRaises
  PROVE  Ordered'
  <1> DEFINE at == listed["reflector"].at
             objects == listed["reflector"].objects
  <1>1. /\ TypeOK /\ at \in Nat /\ at <= Len(log) /\ Len(log) \in Nat /\ objects \in Snapshot
        /\ \A n \in Names : NewestBy(at, n, objects[n])
    BY TypeFacts DEF IInv, Ordered, RevisionsAreInOrder, Threads
  <1>2. /\ UNCHANGED <<store, log, cache, listed, controller>> /\ reflector = "compare"
        /\ disturbed \subseteq disturbed' /\ reflector' \in {"open", "list"}
    BY DEF ReflectorCompare, ReflectorCompareRaises, Disturbed
  <1>3. RevisionsAreInOrder'
    BY <1>2, QuietRevisions DEF Ordered
  <1>4. PICK s \in Seq(Objects!Event) :
          queue' = queue \o s /\ \A k \in 1 .. Len(s) : s[k] \in Differences(objects)
    <2>1. CASE ReflectorCompare
      BY <1>1, <2>1, CompareAppends DEF ReflectorCompare, IsOrderOf
    <2>2. CASE ReflectorCompareRaises
      <3>1. CompareInPart(objects)
        BY <2>2 DEF ReflectorCompareRaises
      <3>2. PICK S \in SUBSET Differences(objects), s \in Seq(Objects!Event) :
              queue' = queue \o s /\ IsOrderOf(s, S)
        BY <1>1, <3>1, CompareInPartAppends
      <3> QED
        BY <3>2 DEF IsOrderOf
    <2> QED
      BY <2>1, <2>2
  <1> HIDE DEF at, objects
  <1>5. ASSUME "resync" \notin disturbed'
        PROVE  KnownBy(Horizon)' /\ QueueOrdered'
    <2>1. KnownBy(at) /\ QueueOrdered
      BY <1>2, <1>5 DEF Ordered, Horizon, at
    <2>2. AreNew(s, at)
      BY <1>1, <1>4, <2>1, ListedAreNew
    <2>3. KnownBy(at)' /\ QueueOrdered'
      <3>1. \A h \in Nat : h = at => KnownBy(h)' /\ QueueOrdered'
        BY <1>1, <1>2, <1>4, <2>1, <2>2, AppendOrdered
      <3>2. at' = at
        BY <1>2 DEF at
      <3> QED
        BY <1>1, <3>1, <3>2
    <2>4. at <= Horizon' /\ Horizon' \in Nat /\ TypeOK'
      <3>1. IInv'
        BY NextKeeps DEF Next, Reflect
      <3>2. Horizon' = at \/ Horizon' = Len(log)
        BY <1>2 DEF Horizon, at
      <3> QED
        BY <1>1, <3>1, <3>2 DEF IInv
    <2>5. KnownBy(Horizon)'
      <3>1. \A g, h \in Int : g <= h /\ KnownBy(g)' => KnownBy(h)'
        BY <1>2, <2>4, TypeFacts DEF KnownBy, WrittenBy, Written
      <3>2. at' = at
        BY <1>2 DEF at
      <3> QED
        BY <1>1, <2>3, <2>4, <3>1, <3>2
    <2> QED
      BY <2>3, <2>5
  <1> QED
    BY <1>2, <1>3, <1>5 DEF Ordered, Unstarted

(* Nothing is appended: what is known and pending stays, and the reflector *)
(* has not gone back.                                                      *)
LEMMA QuietOrdered ==
  ASSUME TypeOK, Ordered, UNCHANGED <<store, log, cache, queue>>,
         listed'["reflector"] = listed["reflector"], disturbed \subseteq disturbed',
         Horizon' \in Int, Horizon <= Horizon',
         reflector' # "start" \/ UNCHANGED <<reflector, controller>>
  PROVE  Ordered'
  <1>1. RevisionsAreInOrder'
    BY QuietRevisions DEF Ordered
  <1>2. ASSUME "resync" \notin disturbed'
        PROVE  KnownBy(Horizon)' /\ QueueOrdered'
    <2>1. KnownBy(Horizon) /\ QueueOrdered /\ Horizon \in Int
      BY <1>2, HorizonInLog DEF Ordered
    <2>2. \A h \in Int : Horizon <= h => KnownBy(h)
      BY <2>1, KnownLater
    <2>3. \A h \in Int : Horizon <= h => KnownBy(h)'
      BY <2>2 DEF KnownBy, WrittenBy, Written
    <2> QED
      BY <2>1, <2>3 DEF QueueOrdered, KnownBy, WrittenBy, Written
  <1> QED
    BY <1>1, <1>2 DEF Ordered, Unstarted

LEMMA DeliveryOrdered ==
  ASSUME IInv, Ordered, WatchDelivers
  PROVE  Ordered'
  <1> DEFINE e == log[pos + 1]
             s == << e >>
  <1>1. /\ TypeOK /\ pos \in Nat /\ pos + 1 \in 1 .. Len(log) /\ Len(log) \in Nat
        /\ e \in Objects!Event /\ queue \in Seq(Objects!Event)
    <2>1. TypeOK
      BY DEF IInv
    <2>2. pos \in Nat /\ pos + 1 \in 1 .. Len(log)
      BY <2>1, TypeFacts DEF WatchDelivers
    <2> QED
      BY <2>1, <2>2, TypeFacts
  <1>2. /\ UNCHANGED <<store, log, cache, listed, controller, reflector, disturbed>>
        /\ reflector = "watch" /\ pos' = pos + 1 /\ queue' = Append(queue, e)
    BY DEF WatchDelivers
  <1>3. /\ s \in Seq(Objects!Event) /\ Len(s) = 1 /\ queue' = queue \o s
        /\ \A k \in 1 .. Len(s) : s[k] = e
    BY <1>1, <1>2, AppendIsConcat
  <1> HIDE DEF s
  <1>4. ASSUME "resync" \notin disturbed'
        PROVE  KnownBy(Horizon)' /\ QueueOrdered'
    <2>1. KnownBy(pos) /\ QueueOrdered
      BY <1>2, <1>4 DEF Ordered, Horizon
    <2>2. KnownBy(pos + 1)
      BY <1>1, <2>1, KnownLater
    <2>3. e.type # "DELETE" =>
            WrittenBy(pos + 1, e.name, e.value) /\ Supersedes(e.name, e.value)
      <3> SUFFICES ASSUME e.type # "DELETE"
                   PROVE  WrittenBy(pos + 1, e.name, e.value) /\ Supersedes(e.name, e.value)
        OBVIOUS
      <3>1. e.value = pos + 1 /\ e.name \in Names
        BY <1>1 DEF Ordered, RevisionsAreInOrder, Objects!Event
      <3>2. WrittenBy(pos + 1, e.name, e.value)
        BY <1>1, <3>1 DEF WrittenBy, Written
      <3>3. \A n, rv : WrittenBy(pos, n, rv) => rv <= pos + 1
        BY <1>1 DEF WrittenBy, Written, NotThere
      <3>4. Supersedes(e.name, e.value)
        BY <2>1, <3>1, <3>3 DEF KnownBy, Supersedes
      <3> QED
        BY <3>2, <3>4
    <2>4. AreNew(s, pos + 1)
      BY <1>3, <2>3 DEF AreNew
    <2>5. \A h \in Int : h = pos + 1 => KnownBy(h)' /\ QueueOrdered'
      BY <1>1, <1>2, <1>3, <2>1, <2>2, <2>4, AppendOrdered
    <2>6. Horizon' = pos + 1
      BY <1>2 DEF Horizon
    <2> QED
      BY <1>1, <2>5, <2>6
  <1> QED
    BY <1>2, <1>4, QuietRevisions DEF Ordered, Unstarted

LEMMA HandlingOrdered ==
  ASSUME IInv, Ordered, HandleEvent
  PROVE  Ordered'
  <1> DEFINE e == Head(queue)
  <1>1. TypeOK /\ queue # << >> /\ queue' = Tail(queue)
        /\ UNCHANGED <<store, log, reflector, pos, listed, disturbed>>
    BY DEF HandleEvent, IInv
  <1>2. /\ e = queue[1] /\ 1 \in 1 .. Len(queue) /\ e.name \in Names
        /\ \A i \in 1 .. Len(queue') : i + 1 \in 1 .. Len(queue) /\ queue'[i] = queue[i + 1]
    <2>1. /\ e = queue[1] /\ 1 \in 1 .. Len(queue)
          /\ \A i \in 1 .. Len(queue') : i + 1 \in 1 .. Len(queue) /\ queue'[i] = queue[i + 1]
      BY <1>1, TypeFacts, HeadTailProperties, EmptySeq
    <2> QED
      BY <1>1, <2>1, TypeFacts
  <1>3. \A n \in Names : \/ cache'[n] = cache[n]
                         \/ n = e.name /\ cache'[n] = NotThere
                         \/ n = e.name /\ e.type # "DELETE" /\ cache'[n] = e.value
    BY <1>1, TypeFacts DEF HandleEvent, Snapshot
  <1> HIDE DEF e
  <1>4. ASSUME "resync" \notin disturbed'
        PROVE  KnownBy(Horizon)' /\ QueueOrdered'
    <2>1. KnownBy(Horizon) /\ QueueOrdered /\ Horizon' = Horizon
      BY <1>1, <1>4 DEF Ordered, Horizon
    <2>2. \A n \in Names : WrittenBy(Horizon, n, cache'[n])
      BY <1>2, <1>3, <2>1 DEF KnownBy, WrittenBy
    <2>3. \A k \in 1 .. Len(queue') :
            queue'[k].type # "DELETE" => WrittenBy(Horizon, queue'[k].name, queue'[k].value)
      BY <1>2, <2>1 DEF KnownBy
    <2>4. \A n, rv : WrittenBy(Horizon, n, rv)' <=> WrittenBy(Horizon, n, rv)
      BY <1>1, <2>1 DEF WrittenBy, Written
    <2>5. ASSUME NEW k \in 1 .. Len(queue'), queue'[k].type # "DELETE"
          PROVE  /\ cache'[queue'[k].name] <= queue'[k].value
                 /\ \A j \in 1 .. k : queue'[j].name = queue'[k].name /\ queue'[j].type # "DELETE"
                                       => queue'[j].value <= queue'[k].value
      <3>1. /\ k + 1 \in 1 .. Len(queue) /\ queue'[k] = queue[k + 1] /\ k \in Nat
            /\ queue[k + 1].name \in Names /\ queue[k + 1].value \in Nat
        BY <1>1, <1>2, TypeFacts
      <3>2. /\ cache[queue[k + 1].name] <= queue[k + 1].value
            /\ \A j \in 1 .. k + 1 : queue[j].name = queue[k + 1].name /\ queue[j].type # "DELETE"
                                      => queue[j].value <= queue[k + 1].value
        BY <2>1, <2>5, <3>1 DEF QueueOrdered
      <3>3. cache'[queue[k + 1].name] <= queue[k + 1].value
        <4>1. 1 \in 1 .. k + 1
          BY <3>1
        <4> QED
          BY <1>2, <1>3, <3>1, <3>2, <4>1 DEF NotThere
      <3>4. \A j \in 1 .. k : j \in 1 .. Len(queue') /\ j + 1 \in 1 .. k + 1
        <4>1. \A j \in 1 .. k : j + 1 \in 1 .. k + 1
          BY <3>1
        <4>2. Len(queue') \in Nat
          BY <1>1, TypeFacts, HeadTailProperties
        <4> QED
          BY <4>1, <4>2
      <3> QED
        BY <1>2, <3>1, <3>2, <3>3, <3>4
    <2> QED
      BY <2>2, <2>3, <2>4, <2>5 DEF KnownBy, QueueOrdered
  <1>5. Unstarted'
    BY <1>1 DEF HandleEvent, Ordered, Unstarted
  <1> QED
    BY <1>1, <1>4, <1>5, QuietRevisions DEF Ordered

LEMMA NextOrdered ==
  ASSUME IInv, Ordered, [Next]_vars
  PROVE  Ordered'
  <1>1. /\ TypeOK /\ Len(log) \in Nat /\ pos \in Nat /\ pos <= Len(log)
        /\ listed["reflector"].at \in Nat /\ listed["reflector"].at <= Len(log)
        /\ Horizon \in Nat /\ Horizon <= Len(log)
    BY TypeFacts, HorizonInLog DEF IInv, Ordered, RevisionsAreInOrder, Threads
  <1>2. CASE Change
    BY <1>2, ChangeOrdered
  <1>3. CASE Start
    <2>1. queue = << >> /\ UNCHANGED <<store, log, queue, listed>> /\ cache' = store
          /\ reflector' = "list"
      BY <1>3 DEF Start, Ordered, Unstarted
    <2>2. Len(queue) = 0 /\ 1 .. Len(queue) = {}
      BY <2>1
    <2>3. \A n \in Names : WrittenBy(Len(log), n, store[n])
      BY DEF Ordered, RevisionsAreInOrder, NewestBy
    <2>4. Horizon' = Len(log)
      BY <2>1 DEF Horizon
    <2>5. KnownBy(Horizon)'
      BY <2>1, <2>2, <2>3, <2>4 DEF KnownBy, WrittenBy, Written
    <2>6. RevisionsAreInOrder'
      BY <2>1, QuietRevisions DEF Ordered
    <2> QED
      BY <2>1, <2>2, <2>5, <2>6 DEF Ordered, QueueOrdered, Unstarted
  <1>4. CASE ReflectorList
    <2>1. /\ UNCHANGED <<store, log, cache, queue, disturbed>> /\ reflector = "list"
          /\ reflector' = "compare"
          /\ listed'["reflector"].at = Len(log) /\ listed'["reflector"].objects = store
      BY <1>1, <1>4, TypeFacts DEF ReflectorList, TakeList, Threads
    <2>2. RevisionsAreInOrder'
      BY <1>1, <2>1 DEF Ordered, RevisionsAreInOrder, NewestBy, WrittenBy, Written
    <2>3. Horizon' = Len(log) /\ Horizon = Len(log)
      BY <2>1 DEF Horizon
    <2> QED
      BY <2>1, <2>2, <2>3 DEF Ordered, Unstarted, QueueOrdered, KnownBy, WrittenBy, Written
  <1>5. CASE ReflectorCompare \/ ReflectorCompareRaises
    BY <1>5, ReflectorOrdered
  <1>6. CASE WatchOpens
    <2>1. /\ UNCHANGED <<store, log, cache, queue, listed>> /\ reflector = "open" /\ pos' = Len(log)
          /\ reflector' = "watch" /\ disturbed \subseteq disturbed'
      BY <1>6 DEF WatchOpens, Disturbed
    <2>2. Horizon' = Len(log)
      BY <2>1 DEF Horizon
    <2> QED
      BY <1>1, <2>1, <2>2, QuietOrdered
  <1>7. CASE WatchDelivers
    BY <1>7, DeliveryOrdered
  <1>8. CASE WatchEnds \/ ReflectorGivesUp
    <2>1. /\ UNCHANGED <<store, log, cache, queue, listed, disturbed>>
          /\ reflector' \in {"list", "dead"}
      BY <1>8 DEF WatchEnds, ReflectorGivesUp
    <2>2. Horizon' = Len(log)
      BY <2>1 DEF Horizon
    <2> QED
      BY <1>1, <2>1, <2>2, QuietOrdered
  <1>9. CASE HandleEvent
    BY <1>9, HandlingOrdered
  <1>10. CASE ControllerLists
    <2>1. /\ UNCHANGED <<store, log, cache, queue, disturbed, reflector, pos>>
          /\ listed'["reflector"] = listed["reflector"] /\ controller = "wait"
      BY <1>1, <1>10, TypeFacts DEF ControllerLists, TakeList, Threads
    <2>2. Horizon' = Horizon /\ reflector # "start"
      BY <2>1 DEF Horizon, Ordered, Unstarted
    <2> QED
      BY <1>1, <2>1, <2>2, QuietOrdered
  <1>11. CASE ControllerListRaises
    <2>1. /\ UNCHANGED <<store, log, cache, queue, reflector, pos, listed>>
          /\ disturbed \subseteq disturbed' /\ controller = "wait"
      BY <1>11 DEF ControllerListRaises, Disturbed
    <2>2. Horizon' = Horizon /\ reflector # "start"
      BY <2>1 DEF Horizon, Ordered, Unstarted
    <2> QED
      BY <1>1, <2>1, <2>2, QuietOrdered
  <1>12. CASE ControllerCompares
    <2>1. /\ UNCHANGED <<store, log, cache, reflector, pos, listed>>
          /\ disturbed \subseteq disturbed' /\ controller = "compare"
      BY <1>12 DEF ControllerCompares, Disturbed
    <2>2. Horizon' = Horizon /\ reflector # "start"
      BY <2>1 DEF Horizon, Ordered, Unstarted
    <2>3. CASE listed["controller"].objects = cache
      <3>1. queue' = queue
        BY <1>12, <2>3, NothingToCompare DEF ControllerCompares
      <3> QED
        BY <1>1, <2>1, <2>2, <3>1, QuietOrdered
    <2>4. CASE listed["controller"].objects # cache
      <3>1. "resync" \in disturbed'
        BY <1>12, <2>4 DEF ControllerCompares, Disturbed
      <3>2. RevisionsAreInOrder'
        BY <2>1, QuietRevisions DEF Ordered
      <3> QED
        BY <2>1, <2>2, <3>1, <3>2 DEF Ordered, Unstarted
    <2> QED
      BY <2>3, <2>4
  <1>13. CASE UNCHANGED vars
    <2>1. Horizon' = Horizon
      BY <1>13 DEF vars, Horizon
    <2> QED
      BY <1>1, <1>13, <2>1, QuietOrdered DEF vars
  <1> QED
    BY <1>2, <1>3, <1>4, <1>5, <1>6, <1>7, <1>8, <1>9, <1>10, <1>11, <1>12, <1>13
    DEF Next, Reflect, Control

(* Whatever the reflector lists again and however often it starts over, in *)
(* the middle of a comparison too: as long as no resync of the other       *)
(* thread has put events in the queue, no cached object goes back to an    *)
(* older revision, and none will by the events that are pending.           *)
THEOREM RevisionsNeverGoBack == Spec => []NeverGoesBack
  <1>1. Init => IInv /\ Ordered
    <2> SUFFICES ASSUME Init PROVE IInv /\ Ordered
      OBVIOUS
    <2>1. IInv
      BY InitHolds
    <2>2. /\ queue = << >> /\ log = << >> /\ Len(queue) = 0 /\ Len(log) = 0 /\ controller = "start"
          /\ \A n \in Names : cache[n] = NotThere /\ store[n] = NotThere
          /\ listed["reflector"].at = 0
          /\ \A n \in Names : listed["reflector"].objects[n] = NotThere
      BY DEF Init, Objects!Init, Nothing
    <2>3. RevisionsAreInOrder
      BY <2>2 DEF RevisionsAreInOrder, NewestBy, WrittenBy
    <2>4. KnownBy(Horizon) /\ QueueOrdered
      BY <2>2 DEF KnownBy, WrittenBy, QueueOrdered
    <2> QED
      BY <2>1, <2>2, <2>3, <2>4 DEF Ordered, Unstarted
  <1>2. IInv /\ Ordered /\ [Next]_vars => (IInv /\ Ordered)'
    BY NextKeeps, NextOrdered
  <1>3. IInv /\ Ordered => NeverGoesBack
    BY DEF Ordered, QueueOrdered, NeverGoesBack
  <1> QED
    BY <1>1, <1>2, <1>3, PTL DEF Spec

-----------------------------------------------------------------------------
(* What is known of a name after the first m events of a sequence.         *)
Known(base, s, m, n) == After(base, SubSeq(s, 1, m), n)

Result(e) == IF e.type = "DELETE" THEN NotThere ELSE e.value

\* The same, by the latest of the events about n.
IsKnown(base, s, m, n, v) ==
  \/ (\A j \in 1 .. m : s[j].name # n) /\ v = base[n]
  \/ \E i \in 1 .. m : /\ s[i].name = n /\ v = Result(s[i])
                       /\ \A j \in 1 .. m : j > i => s[j].name # n

LEMMA GreatestExists ==
  ASSUME NEW m \in Nat, NEW S \in SUBSET (0 .. m), S # {}
  PROVE  \E i \in S : \A h \in S : h <= i
  <1> DEFINE T == {m - i : i \in S}
  <1>1. T \in SUBSET Nat /\ T # {}
    <2>1. \A i \in S : i \in Nat /\ m - i \in Nat
      OBVIOUS
    <2> QED
      BY <2>1
  <1>2. PICK t \in T : \A u \in T : ~(u < t)
    <2>1. \E t \in T : \A u \in T : <<u, t>> \notin OpToRel(<, Nat)
      BY <1>1, NatLessThanWellFounded, WFMin
    <2> QED
      BY <1>1, <2>1 DEF OpToRel
  <1>3. PICK i \in S : t = m - i
    BY <1>2
  <1>4. \A h \in S : ~(m - h < m - i)
    BY <1>2, <1>3
  <1> QED
    BY <1>4

LEMMA PrefixFacts ==
  ASSUME NEW s \in Seq(Objects!Event), NEW m \in 0 .. Len(s)
  PROVE  /\ Len(SubSeq(s, 1, m)) = m /\ m \in Nat
         /\ \A i \in 1 .. m : SubSeq(s, 1, m)[i] = s[i]
         /\ \A n : About(SubSeq(s, 1, m), n) = {i \in 1 .. m : s[i].name = n}
  <1>1. Len(s) \in Nat /\ m \in Nat /\ \A i \in 1 .. m : s[i] \in Objects!Event
    BY LenProperties, ElementOfSeq
  <1>2. /\ Len(SubSeq(s, 1, m)) = IF 1 <= m THEN m - 1 + 1 ELSE 0
        /\ \A i \in 1 .. m - 1 + 1 : SubSeq(s, 1, m)[i] = s[1 + i - 1]
    BY <1>1, SubSeqProperties
  <1>3. Len(SubSeq(s, 1, m)) = m /\ \A i \in 1 .. m : SubSeq(s, 1, m)[i] = s[i]
    BY <1>1, <1>2
  <1> QED
    BY <1>1, <1>3 DEF About

LEMMA KnownMeans ==
  ASSUME NEW s \in Seq(Objects!Event), NEW m \in 0 .. Len(s), NEW base, NEW n
  PROVE  \A v : IsKnown(base, s, m, n, v) <=> v = Known(base, s, m, n)
  <1> DEFINE p == SubSeq(s, 1, m)
             S == {i \in 1 .. m : s[i].name = n}
  <1>1. /\ m \in Nat /\ About(p, n) = S /\ \A i \in 1 .. m : p[i] = s[i]
    BY PrefixFacts
  <1>2. CASE S = {}
    <2>1. Known(base, s, m, n) = base[n]
      BY <1>1, <1>2 DEF Known, After
    <2>2. \A j \in 1 .. m : s[j].name # n
      BY <1>2
    <2> QED
      BY <2>1, <2>2 DEF IsKnown
  <1>3. CASE S # {}
    <2>1. PICK i \in S : \A j \in S : j <= i
      <3>1. S \in SUBSET (0 .. m)
        BY <1>1
      <3> HIDE DEF S
      <3> QED
        BY <1>1, <1>3, <3>1, GreatestExists
    <2>2. \A k \in S : (\A j \in S : j <= k) => k = i
      BY <2>1
    <2>3. LatestAbout(p, n) = i
      <3> HIDE DEF S, p
      <3> QED
        BY <1>1, <2>1, <2>2 DEF LatestAbout
    <2>4. Known(base, s, m, n) = Result(s[i])
      <3>1. Known(base, s, m, n) = IF p[i].type = "DELETE" THEN NotThere ELSE p[i].value
        <4> HIDE DEF S
        <4> QED
          BY <1>1, <1>3, <2>3 DEF Known, After
      <3> QED
        BY <1>1, <2>1, <3>1 DEF Result
    <2>5. ASSUME NEW v, IsKnown(base, s, m, n, v) PROVE v = Result(s[i])
      <3>1. PICK k \in 1 .. m : /\ s[k].name = n /\ v = Result(s[k])
                               /\ \A j \in 1 .. m : j > k => s[j].name # n
        BY <2>1, <2>5 DEF IsKnown
      <3>2. k = i
        BY <2>1, <3>1
      <3> QED
        BY <3>1, <3>2
    <2>6. IsKnown(base, s, m, n, Result(s[i]))
      <3>1. \A j \in 1 .. m : j > i => s[j].name # n
        BY <2>1
      <3> QED
        BY <2>1, <3>1 DEF IsKnown
    <2> QED
      BY <2>4, <2>5, <2>6
  <1> QED
    BY <1>2, <1>3

LEMMA KnownFirst ==
  ASSUME NEW s \in Seq(Objects!Event), NEW base, NEW n
  PROVE  Known(base, s, 0, n) = base[n]
  <1>1. 0 \in 0 .. Len(s)
    BY LenProperties
  <1>2. IsKnown(base, s, 0, n, base[n])
    BY DEF IsKnown
  <1> QED
    BY <1>1, <1>2, KnownMeans

LEMMA KnownNext ==
  ASSUME NEW s \in Seq(Objects!Event), NEW m \in 0 .. Len(s), m + 1 <= Len(s), NEW base, NEW n
  PROVE  Known(base, s, m + 1, n) = IF s[m + 1].name = n THEN Result(s[m + 1])
                                    ELSE Known(base, s, m, n)
  <1> DEFINE v == Known(base, s, m, n)
  <1>1. Len(s) \in Nat /\ m \in Nat /\ m + 1 \in 0 .. Len(s) /\ IsKnown(base, s, m, n, v)
    BY LenProperties, KnownMeans
  <1>2. \A j \in 1 .. m + 1 : j \in 1 .. m \/ j = m + 1
    BY <1>1
  <1>3. \A j \in 1 .. m : j \in 1 .. m + 1 /\ ~(j > m + 1)
    BY <1>1
  <1> HIDE DEF v
  <1>4. CASE s[m + 1].name = n
    <2>1. m + 1 \in 1 .. m + 1 /\ \A j \in 1 .. m + 1 : ~(j > m + 1)
      BY <1>1
    <2>2. IsKnown(base, s, m + 1, n, Result(s[m + 1]))
      BY <1>4, <2>1 DEF IsKnown
    <2> QED
      BY <1>1, <1>4, <2>2, KnownMeans
  <1>5. CASE s[m + 1].name # n
    <2>1. IsKnown(base, s, m + 1, n, v)
      BY <1>1, <1>2, <1>3, <1>5 DEF IsKnown
    <2> QED
      BY <1>1, <1>5, <2>1, KnownMeans DEF v
  <1> QED
    BY <1>4, <1>5

(* Only the first m events matter.                                         *)
LEMMA KnownAlike ==
  ASSUME NEW s \in Seq(Objects!Event), NEW u \in Seq(Objects!Event),
         NEW m \in 0 .. Len(s), m \in 0 .. Len(u), \A i \in 1 .. m : s[i] = u[i],
         NEW base, NEW n
  PROVE  Known(base, s, m, n) = Known(base, u, m, n)
  <1>1. IsKnown(base, s, m, n, Known(base, s, m, n))
    BY KnownMeans
  <1>2. IsKnown(base, u, m, n, Known(base, s, m, n))
    BY <1>1 DEF IsKnown
  <1> QED
    BY <1>2, KnownMeans

(* The first event is applied to what was known before.                    *)
Applies(e, base, next, n) == next[n] = IF e.name = n THEN Result(e) ELSE base[n]

LEMMA KnownOfTail ==
  ASSUME NEW s \in Seq(Objects!Event), s # << >>, NEW m \in 0 .. Len(Tail(s)),
         NEW base, NEW next, NEW n,
         Applies(s[1], base, next, n)
  PROVE  Known(next, Tail(s), m, n) = Known(base, s, m + 1, n)
  <1> USE DEF Applies
  <1> DEFINE u == Tail(s)
             v == Known(base, s, m + 1, n)
  <1>1. /\ u \in Seq(Objects!Event) /\ Len(u) = Len(s) - 1 /\ Len(s) \in Nat /\ m \in Nat
        /\ \A i \in 1 .. Len(u) : u[i] = s[i + 1]
    BY HeadTailProperties, LenProperties
  <1>2. \A i \in 1 .. m : u[i] = s[i + 1] /\ i + 1 \in 1 .. m + 1
    BY <1>1
  <1>3. m + 1 \in 0 .. Len(s)
    BY <1>1
  <1>4. IsKnown(base, s, m + 1, n, v)
    BY <1>3, KnownMeans
  <1> HIDE DEF u, v
  <1>5. IsKnown(next, u, m, n, v)
    <2>1. CASE (\A j \in 1 .. m + 1 : s[j].name # n) /\ v = base[n]
      <3>1. 1 \in 1 .. m + 1
        BY <1>1
      <3> QED
        BY <1>2, <2>1, <3>1 DEF IsKnown
    <2>2. ASSUME NEW i \in 1 .. m + 1, s[i].name = n, v = Result(s[i]),
                 \A j \in 1 .. m + 1 : j > i => s[j].name # n
          PROVE  IsKnown(next, u, m, n, v)
      <3>1. CASE i = 1
        <4>1. \A j \in 1 .. m : u[j].name # n
          <5>1. \A j \in 1 .. m : j + 1 > 1
            BY <1>1
          <5> QED
            BY <1>2, <2>2, <3>1, <5>1
        <4> QED
          BY <2>2, <3>1, <4>1 DEF IsKnown
      <3>2. CASE i # 1
        <4>1. i - 1 \in 1 .. m /\ (i - 1) + 1 = i
          BY <1>1, <3>2
        <4>2. u[i - 1] = s[i]
          BY <1>2, <4>1
        <4>3. \A j \in 1 .. m : j > i - 1 => j + 1 > i
          BY <1>1
        <4>4. \A j \in 1 .. m : j > i - 1 => u[j].name # n
          BY <1>2, <2>2, <4>3
        <4> QED
          BY <2>2, <4>1, <4>2, <4>4 DEF IsKnown
      <3> QED
        BY <3>1, <3>2
    <2> QED
      BY <1>4, <2>1, <2>2 DEF IsKnown
  <1> QED
    BY <1>1, <1>5, KnownMeans DEF u, v

LEMMA KnownInAll ==
  ASSUME NEW s \in Seq(Objects!Event), NEW base, NEW n
  PROVE  Known(base, s, Len(s), n) = After(base, s, n)
  BY SubSeqFull DEF Known

-----------------------------------------------------------------------------
(* The store, and every list, is what the log says up to some event; and   *)
(* every event of the log fits what it says before.                        *)
State(i, n) == Known(Nothing, log, i, n)

LogAccounts ==
  /\ \A n \in Names : store[n] = State(Len(log), n)
  /\ \A t \in Threads : /\ listed[t].at <= Len(log)
                        /\ \A n \in Names : listed[t].objects[n] = State(listed[t].at, n)
  /\ \A i \in 0 .. Len(log) - 1 :
       log[i + 1].type = "ADD" <=> State(i, log[i + 1].name) = NotThere

View(n) == Known(cache, queue, Len(queue), n)

Fits == \A k \in 0 .. Len(queue) - 1 :
          queue[k + 1].type = "ADD" <=> Known(cache, queue, k, queue[k + 1].name) = NotThere

(* While nothing disturbs the informer: its threads live, the queue fits,  *)
(* and once the list is compared, cache and queue are the store of the     *)
(* list, respectively of the watch's position.                             *)
Promised ==
  /\ controller # "dead"
  /\ Fits
  /\ reflector = "watch" => \A n \in Names : View(n) = State(pos, n)
  /\ reflector = "open" =>
       /\ Len(log) = listed["reflector"].at => \A n \in Names : View(n) = State(Len(log), n)
       /\ controller = "compare" => listed["reflector"].at <= listed["controller"].at

Undisturbed == disturbed \subseteq {"resync"}

PInv == LogAccounts /\ Unstarted /\ (Undisturbed => Promised)

LEMMA FitsMeans ==
  ASSUME TypeOK
  PROVE  Fits => QueueFits
  <1> SUFFICES ASSUME Fits, NEW k \in 1 .. Len(queue)
               PROVE  queue[k].type = "ADD" <=>
                        After(cache, SubSeq(queue, 1, k - 1), queue[k].name) = NotThere
    BY DEF QueueFits
  <1>1. k - 1 \in 0 .. Len(queue) - 1 /\ (k - 1) + 1 = k
    BY TypeFacts
  <1>2. queue[(k - 1) + 1].type = "ADD"
          <=> Known(cache, queue, k - 1, queue[(k - 1) + 1].name) = NotThere
    BY <1>1 DEF Fits
  <1> QED
    BY <1>1, <1>2 DEF Known

LEMMA PromiseKept ==
  ASSUME TypeOK, PInv
  PROVE  PromiseWhileUndisturbed
  <1> SUFFICES ASSUME Undisturbed
               PROVE  /\ controller # "dead" /\ QueueFits
                      /\ reflector = "watch" =>
                           \A n \in Names :
                             After(cache, queue, n) = After(Nothing, SubSeq(log, 1, pos), n)
    BY DEF PromiseWhileUndisturbed, Undisturbed
  <1>1. Promised
    BY DEF PInv
  <1>2. \A n : View(n) = After(cache, queue, n)
    BY TypeFacts, KnownInAll DEF View
  <1> QED
    BY <1>1, <1>2, FitsMeans DEF Promised, State, Known

(* The differences of a list, put in a queue that was empty: they fit, and *)
(* all of them together make the cache what was listed.                    *)
LEMMA DifferencesFit ==
  ASSUME cache \in Snapshot, NEW objects \in Snapshot, NEW s \in Seq(Objects!Event), NEW S,
         S \subseteq Differences(objects), IsOrderOf(s, S)
  PROVE  /\ \A k \in 0 .. Len(s) - 1 :
              s[k + 1].type = "ADD" <=> Known(cache, s, k, s[k + 1].name) = NotThere
         /\ S = Differences(objects) =>
              \A n \in Names : Known(cache, s, Len(s), n) = objects[n]
  <1>1. Len(s) \in Nat /\ \A i \in 1 .. Len(s) : s[i] \in Differences(objects)
    BY LenProperties DEF IsOrderOf
  <1>2. \A d \in Differences(objects) :
          /\ d.name \in Names
          /\ d.type = "ADD" <=> cache[d.name] = NotThere
          /\ Result(d) = objects[d.name] /\ objects[d.name] # cache[d.name]
    BY DEF Differences, NewOrChanged, Gone, Result
  <1>3. \A d, g \in Differences(objects) : d.name = g.name => d = g
    BY DEF Differences, NewOrChanged, Gone
  <1>4. \A i, j \in 1 .. Len(s) : s[i].name = s[j].name => i = j
    BY <1>1, <1>3 DEF IsOrderOf
  <1>5. ASSUME NEW k \in 0 .. Len(s) - 1
        PROVE  s[k + 1].type = "ADD" <=> Known(cache, s, k, s[k + 1].name) = NotThere
    <2>1. k + 1 \in 1 .. Len(s) /\ k \in 0 .. Len(s) /\ \A j \in 1 .. k : j \in 1 .. Len(s) /\ j # k + 1
      BY <1>1
    <2>2. \A j \in 1 .. k : s[j].name # s[k + 1].name
      BY <1>4, <2>1
    <2>3. IsKnown(cache, s, k, s[k + 1].name, cache[s[k + 1].name])
      BY <2>2 DEF IsKnown
    <2>4. Known(cache, s, k, s[k + 1].name) = cache[s[k + 1].name]
      BY <2>1, <2>3, KnownMeans
    <2> QED
      BY <1>1, <1>2, <2>1, <2>4
  <1>6. ASSUME S = Differences(objects), NEW n \in Names
        PROVE  Known(cache, s, Len(s), n) = objects[n]
    <2>0. Len(s) \in 0 .. Len(s)
      BY <1>1
    <2>1. CASE objects[n] = cache[n]
      <3>1. \A j \in 1 .. Len(s) : s[j].name # n
        BY <1>1, <1>2, <2>1
      <3>2. IsKnown(cache, s, Len(s), n, objects[n])
        BY <2>1, <3>1 DEF IsKnown
      <3> QED
        BY <2>0, <3>2, KnownMeans
    <2>2. CASE objects[n] # cache[n]
      <3>1. \E d \in Differences(objects) : d.name = n
        <4>1. CASE objects[n] = NotThere
          <5>1. [type |-> "DELETE", name |-> n, value |-> cache[n]] \in Gone(objects)
            BY <2>2, <4>1 DEF Gone
          <5> QED
            BY <5>1 DEF Differences
        <4>2. CASE objects[n] # NotThere
          <5>1. [type |-> IF cache[n] = NotThere THEN "ADD" ELSE "UPDATE",
                 name |-> n, value |-> objects[n]] \in NewOrChanged(objects)
            BY <2>2, <4>2 DEF NewOrChanged
          <5> QED
            BY <5>1 DEF Differences
        <4> QED
          BY <4>1, <4>2
      <3>2. PICK i \in 1 .. Len(s) : s[i].name = n
        BY <1>6, <3>1 DEF IsOrderOf
      <3>3. Result(s[i]) = objects[n]
        BY <1>1, <1>2, <3>2
      <3>4. \A j \in 1 .. Len(s) : j > i => s[j].name # n
        BY <1>4, <3>2
      <3>5. IsKnown(cache, s, Len(s), n, objects[n])
        BY <3>2, <3>3, <3>4 DEF IsKnown
      <3> QED
        BY <2>0, <3>5, KnownMeans
    <2> QED
      BY <2>1, <2>2
  <1> QED
    BY <1>5, <1>6

(* The store changes: the log accounts for it.                             *)
LEMMA ChangeAccounts ==
  ASSUME TypeOK, SourcesAreHistorical, LogAccounts, Change
  PROVE  /\ LogAccounts'
         /\ \A n : \A i \in 0 .. Len(log) : State(i, n)' = State(i, n)
         /\ Len(log') = Len(log) + 1
  <1>1. PICK e \in Objects!Event :
           /\ log' = Append(log, e)
           /\ store' = [store EXCEPT ![e.name] = IF e.type = "DELETE" THEN NotThere
                                                 ELSE e.value]
           /\ e.type = "DELETE" => WasStored(e.name, e.value)
           /\ e.type # "DELETE" => e.value = Len(log) + 1
           /\ e.type = "ADD" <=> store[e.name] = NotThere
    BY ChangeAppends
  <1>2. /\ log \in Seq(Objects!Event) /\ Len(log) \in Nat
        /\ log' \in Seq(Objects!Event) /\ Len(log') = Len(log) + 1 /\ log'[Len(log) + 1] = e
        /\ \A i \in 1 .. Len(log) : log'[i] = log[i]
        /\ e.name \in Names
    BY <1>1, TypeFacts, AppendProperties DEF Objects!Event
  <1>3. ASSUME NEW n, NEW i \in 0 .. Len(log)
        PROVE  Known(Nothing, log', i, n) = Known(Nothing, log, i, n)
    <2>1. i \in 0 .. Len(log') /\ \A j \in 1 .. i : log'[j] = log[j]
      BY <1>2
    <2> QED
      BY <1>2, <2>1, KnownAlike
  <1>4. \A n : \A i \in 0 .. Len(log) : State(i, n)' = State(i, n)
    BY <1>3 DEF State, Nothing
  <1>5. \A n \in Names : store'[n] = Known(Nothing, log', Len(log'), n)
    <2> SUFFICES ASSUME NEW n \in Names
                 PROVE  store'[n] = Known(Nothing, log', Len(log) + 1, n)
      BY <1>2
    <2>1. Len(log) \in 0 .. Len(log') /\ Len(log) + 1 <= Len(log')
      BY <1>2
    <2>2. Known(Nothing, log', Len(log) + 1, n)
            = IF e.name = n THEN Result(e) ELSE Known(Nothing, log', Len(log), n)
      <3>1. \A s \in Seq(Objects!Event) : \A m \in 0 .. Len(s) : m + 1 <= Len(s) =>
              Known(Nothing, s, m + 1, n) = IF s[m + 1].name = n THEN Result(s[m + 1])
                                            ELSE Known(Nothing, s, m, n)
        BY KnownNext
      <3> QED
        BY <1>2, <2>1, <3>1
    <2>3. Len(log) \in 0 .. Len(log)
      BY <1>2
    <2>4. Known(Nothing, log', Len(log), n) = store[n]
      BY <1>3, <2>3 DEF LogAccounts, State
    <2>5. store'[n] = IF e.name = n THEN Result(e) ELSE store[n]
      BY <1>1, TypeFacts DEF Snapshot, Result
    <2> QED
      BY <2>2, <2>4, <2>5
  <1>6. ASSUME NEW i \in 0 .. Len(log') - 1
        PROVE  log'[i + 1].type = "ADD" <=> Known(Nothing, log', i, log'[i + 1].name) = NotThere
    <2>0. i \in 0 .. Len(log)
      BY <1>2
    <2>1. CASE i < Len(log)
      <3>1. i \in 0 .. Len(log) - 1 /\ log'[i + 1] = log[i + 1]
        BY <1>2, <2>0, <2>1
      <3> QED
        BY <1>3, <2>0, <3>1 DEF LogAccounts, State
    <2>2. CASE i = Len(log)
      <3>1. Known(Nothing, log', i, e.name) = store[e.name]
        BY <1>2, <1>3, <2>0, <2>2 DEF LogAccounts, State
      <3> QED
        BY <1>1, <1>2, <2>2, <3>1
    <2> QED
      BY <1>2, <2>0, <2>1, <2>2
  <1>7. ASSUME NEW t \in Threads
        PROVE  /\ listed'[t].at <= Len(log')
               /\ \A n \in Names : listed'[t].objects[n] = Known(Nothing, log', listed'[t].at, n)
    <2>1. listed' = listed /\ listed[t].at \in 0 .. Len(log)
      BY <1>2, TypeFacts DEF Change, LogAccounts
    <2> QED
      BY <1>2, <1>3, <2>1 DEF LogAccounts, State
  <1>8. LogAccounts'
    BY <1>5, <1>6, <1>7 DEF LogAccounts, State, Nothing
  <1> QED
    BY <1>2, <1>4, <1>8

LEMMA QuietAccounts ==
  ASSUME TypeOK, LogAccounts, UNCHANGED <<store, log>>,
         UNCHANGED listed \/ \E t \in Threads : TakeList(t)
  PROVE  LogAccounts'
  <1>1. \A i, n : State(i, n)' = State(i, n)
    BY DEF State, Nothing
  <1>2. ASSUME NEW t \in Threads
        PROVE  /\ listed'[t].at <= Len(log')
               /\ \A n \in Names : listed'[t].objects[n] = State(listed'[t].at, n)
    <2>1. CASE listed'[t] = listed[t]
      BY <2>1 DEF LogAccounts
    <2>2. CASE listed'[t].at = Len(log) /\ listed'[t].objects = store
      BY <2>2, TypeFacts DEF LogAccounts
    <2> QED
      BY <2>1, <2>2, TypeFacts DEF TakeList
  <1>3. \A n \in Names : store'[n] = State(Len(log'), n)
    BY DEF LogAccounts
  <1>4. \A i \in 0 .. Len(log') - 1 :
          log'[i + 1].type = "ADD" <=> State(i, log'[i + 1].name) = NotThere
    BY DEF LogAccounts
  <1> QED
    BY <1>1, <1>2, <1>3, <1>4 DEF LogAccounts

(* A list is compared with the cache while nothing is pending.             *)
LEMMA ComparedOnEmpty ==
  ASSUME IInv, IInv', queue = << >>, UNCHANGED cache, NEW objects \in Snapshot,
         NEW s \in Seq(Objects!Event), NEW S, S \subseteq Differences(objects), IsOrderOf(s, S),
         queue' = queue \o s
  PROVE  /\ Fits'
         /\ S = Differences(objects) => \A n \in Names : View(n)' = objects[n]
  <1>1. cache \in Snapshot /\ queue' = s
    BY ConcatEmptySeq DEF IInv, TypeOK
  <1> QED
    BY <1>1, DifferencesFit DEF Fits, View

LEMMA DeliveryPromised ==
  ASSUME IInv, LogAccounts, Promised, WatchDelivers
  PROVE  Promised'
  <1> DEFINE e == log[pos + 1]
             m == Len(queue)
  <1>1. /\ reflector = "watch" /\ pos' = pos + 1 /\ queue' = Append(queue, e)
        /\ UNCHANGED <<store, log, cache, reflector, controller, listed, disturbed>>
        /\ pos < Len(log)
    BY DEF WatchDelivers
  <1>2. /\ log \in Seq(Objects!Event) /\ Len(log) \in Nat /\ pos \in 0 .. Len(log) - 1
        /\ pos \in 0 .. Len(log) /\ pos + 1 <= Len(log) /\ e \in Objects!Event
        /\ queue \in Seq(Objects!Event) /\ m \in Nat
    <2>1. TypeOK
      BY DEF IInv
    <2>2. pos + 1 \in 1 .. Len(log)
      BY <1>1, <2>1, TypeFacts
    <2> QED
      BY <1>1, <2>1, <2>2, TypeFacts
  <1>3. /\ queue' \in Seq(Objects!Event) /\ Len(queue') = m + 1 /\ queue'[m + 1] = e
        /\ \A i \in 1 .. m : queue'[i] = queue[i]
        /\ e.name \in Names
    BY <1>1, <1>2, AppendProperties DEF Objects!Event
  <1>4. ASSUME NEW n, NEW k \in 0 .. m
        PROVE  Known(cache, queue', k, n) = Known(cache, queue, k, n)
    <2>1. k \in 0 .. Len(queue') /\ \A j \in 1 .. k : queue'[j] = queue[j]
      BY <1>2, <1>3
    <2> QED
      BY <1>2, <1>3, <2>1, KnownAlike
  <1>5. m \in 0 .. m /\ m \in 0 .. Len(queue') /\ m + 1 <= Len(queue')
    BY <1>2, <1>3
  <1>6. \A n \in Names : Known(cache, queue', m, n) = State(pos, n)
    BY <1>1, <1>4, <1>5 DEF Promised, View
  <1>7. ASSUME NEW k \in 0 .. Len(queue') - 1
        PROVE  queue'[k + 1].type = "ADD"
                 <=> Known(cache, queue', k, queue'[k + 1].name) = NotThere
    <2>1. CASE k < m
      <3>1. k \in 0 .. m /\ k \in 0 .. m - 1 /\ queue'[k + 1] = queue[k + 1]
        BY <1>2, <1>3, <2>1
      <3> QED
        BY <1>4, <3>1 DEF Promised, Fits
    <2>2. CASE k = m
      <3>1. e.type = "ADD" <=> State(pos, e.name) = NotThere
        BY <1>2 DEF LogAccounts
      <3> QED
        BY <1>3, <1>6, <2>2, <3>1
    <2>3. k < m \/ k = m
      BY <1>2, <1>3
    <2> QED
      BY <2>1, <2>2, <2>3
  <1>8. ASSUME NEW n \in Names
        PROVE  Known(cache, queue', m + 1, n) = State(pos + 1, n)
    <2>1. Known(cache, queue', m + 1, n) = IF queue'[m + 1].name = n THEN Result(queue'[m + 1])
                                           ELSE Known(cache, queue', m, n)
      <3>1. \A s \in Seq(Objects!Event) : \A k \in 0 .. Len(s) : k + 1 <= Len(s) =>
              Known(cache, s, k + 1, n) = IF s[k + 1].name = n THEN Result(s[k + 1])
                                          ELSE Known(cache, s, k, n)
        BY KnownNext
      <3> QED
        BY <1>3, <1>5, <3>1
    <2>2. State(pos + 1, n) = IF e.name = n THEN Result(e) ELSE State(pos, n)
      BY <1>2, KnownNext DEF State
    <2> QED
      BY <1>3, <1>6, <2>1, <2>2
  <1>9. Fits'
    BY <1>1, <1>7 DEF Fits
  <1>10. \A n \in Names : View(n)' = State(pos, n)'
    BY <1>1, <1>3, <1>8 DEF View, State, Nothing
  <1> QED
    BY <1>1, <1>9, <1>10 DEF Promised

LEMMA HandlingPromised ==
  ASSUME IInv, Promised, HandleEvent
  PROVE  Promised'
  <1> DEFINE e == queue[1]
             u == Tail(queue)
  <1>1. TypeOK /\ queue \in Seq(Objects!Event) /\ Len(queue) \in Nat /\ queue # << >>
        /\ queue' = u /\ controller = "wait"
        /\ UNCHANGED <<store, log, reflector, pos, listed, disturbed>>
    BY TypeFacts DEF HandleEvent, IInv
  <1>2. /\ e = Head(queue) /\ 1 \in 1 .. Len(queue) /\ 0 \in 0 .. Len(queue) - 1
        /\ Len(u) = Len(queue) - 1 /\ \A i \in 1 .. Len(u) : u[i] = queue[i + 1]
        /\ e.name \in Names
    <2>1. Len(queue) # 0
      BY <1>1, EmptySeq
    <2>2. 1 \in 1 .. Len(queue) /\ 0 \in 0 .. Len(queue) - 1
      BY <1>1, <2>1
    <2> QED
      BY <1>1, <2>2, HeadTailProperties, TypeFacts
  <1>3. e.type = "ADD" <=> cache[e.name] = NotThere
    <2>1. queue[0 + 1].type = "ADD" <=> Known(cache, queue, 0, queue[0 + 1].name) = NotThere
      BY <1>2 DEF Promised, Fits
    <2> QED
      BY <1>1, <2>1, KnownFirst
  <1>4. controller' = "wait" /\ cache' = [cache EXCEPT ![e.name] = Result(e)]
    BY <1>1, <1>2, <1>3 DEF HandleEvent, Result
  <1>5. \A n \in Names : cache'[n] = IF e.name = n THEN Result(e) ELSE cache[n]
    BY <1>1, <1>4, TypeFacts DEF Snapshot
  <1>6. ASSUME NEW n \in Names, NEW k \in 0 .. Len(u)
        PROVE  Known(cache', u, k, n) = Known(cache, queue, k + 1, n)
    <2>1. Applies(queue[1], cache, cache', n)
      BY <1>5 DEF Applies
    <2> QED
      BY <1>1, <2>1, KnownOfTail
  <1>7. ASSUME NEW k \in 0 .. Len(u) - 1
        PROVE  u[k + 1].type = "ADD" <=> Known(cache', u, k, u[k + 1].name) = NotThere
    <2>1. /\ k + 1 \in 0 .. Len(queue) - 1 /\ k \in 0 .. Len(u) /\ k + 1 \in 1 .. Len(u)
          /\ (k + 1) + 1 \in 1 .. Len(queue)
      BY <1>1, <1>2
    <2>2. u[k + 1] = queue[(k + 1) + 1] /\ queue[(k + 1) + 1].name \in Names
      BY <1>1, <1>2, <2>1, TypeFacts
    <2>3. queue[(k + 1) + 1].type = "ADD"
            <=> Known(cache, queue, k + 1, queue[(k + 1) + 1].name) = NotThere
      BY <2>1 DEF Promised, Fits
    <2> HIDE DEF u
    <2> QED
      BY <1>6, <2>1, <2>2, <2>3
  <1>8. \A n \in Names : Known(cache', u, Len(u), n) = View(n)
    <2>1. Len(u) \in 0 .. Len(u) /\ Len(u) + 1 = Len(queue)
      BY <1>1, <1>2
    <2> HIDE DEF u
    <2> QED
      BY <1>6, <2>1 DEF View
  <1>9. Fits' /\ \A n \in Names : View(n)' = View(n)
    <2> HIDE DEF u
    <2> QED
      BY <1>1, <1>7, <1>8 DEF Fits, View
  <1>10. \A i, n : State(i, n)' = State(i, n)
    BY <1>1 DEF State, Nothing
  <1> QED
    BY <1>1, <1>4, <1>9, <1>10 DEF Promised

(* Nothing is put in the queue or taken out, and the reflector is not just *)
(* opening its watch.                                                      *)
LEMMA QuietPromised ==
  ASSUME Promised, UNCHANGED <<cache, queue, log>>, controller' # "dead",
         reflector' \in {"open", "watch"} => UNCHANGED <<reflector, pos>>,
         reflector' = "open" => listed'["reflector"] = listed["reflector"]
                                /\ (controller' = "compare" =>
                                       listed'["reflector"].at <= listed'["controller"].at)
  PROVE  Promised'
  <1>1. Fits' /\ \A n : View(n)' = View(n)
    BY DEF Promised, Fits, View
  <1>2. \A i, n : State(i, n)' = State(i, n)
    BY DEF State, Nothing
  <1> QED
    BY <1>1, <1>2 DEF Promised

LEMMA ReflectorPromised ==
  ASSUME IInv, IInv', PInv, ReflectorCompare \/ ReflectorCompareRaises, Undisturbed'
  PROVE  Promised'
  <1> DEFINE objects == listed["reflector"].objects
  <1>1. /\ UNCHANGED <<store, log, cache, listed, controller>> /\ objects \in Snapshot
        /\ disturbed \subseteq disturbed' /\ "overlap" \notin disturbed'
        /\ \A n \in Names : objects[n] = State(listed["reflector"].at, n)
    BY TypeFacts
    DEF ReflectorCompare, ReflectorCompareRaises, Disturbed, Undisturbed, IInv, PInv, LogAccounts,
        Threads
  <1>2. queue = << >> /\ controller # "dead"
    BY <1>1 DEF ReflectorCompare, ReflectorCompareRaises, Disturbed, PInv, Undisturbed, Promised
  <1>3. CASE ReflectorCompare
    <2>1. reflector' = "open" /\ controller # "compare"
      BY <1>1, <1>3 DEF ReflectorCompare, Disturbed
    <2>2. PICK s \in Seq(Objects!Event) :
            queue' = queue \o s /\ IsOrderOf(s, Differences(objects))
      BY <1>1, <1>3, CompareAppends DEF ReflectorCompare
    <2>3. Fits' /\ \A n \in Names : View(n)' = objects[n]
      BY <1>1, <1>2, <2>2, ComparedOnEmpty
    <2>4. \A i, n : State(i, n)' = State(i, n)
      BY <1>1 DEF State, Nothing
    <2> QED
      BY <1>1, <1>2, <2>1, <2>3, <2>4 DEF Promised
  <1>4. CASE ReflectorCompareRaises
    <2>1. CompareInPart(objects)
      BY <1>4 DEF ReflectorCompareRaises
    <2>2. PICK S \in SUBSET Differences(objects), s \in Seq(Objects!Event) :
            queue' = queue \o s /\ IsOrderOf(s, S)
      BY <1>1, <2>1, CompareInPartAppends
    <2>4. Fits'
      BY <1>1, <1>2, <2>2, ComparedOnEmpty
    <2> QED
      BY <1>1, <1>2, <1>4, <2>4 DEF Promised, ReflectorCompareRaises
  <1> QED
    BY <1>3, <1>4

LEMMA ResyncPromised ==
  ASSUME IInv, IInv', PInv, ControllerCompares, Undisturbed'
  PROVE  Promised'
  <1> DEFINE objects == listed["controller"].objects
  <1>1. /\ UNCHANGED <<store, log, cache, reflector, pos, listed>> /\ objects \in Snapshot
        /\ cache \in Snapshot /\ Len(log) \in Nat /\ controller = "compare" /\ controller' = "wait"
        /\ \A t \in Threads : listed[t].at \in Nat /\ listed[t].at <= Len(log)
        /\ \A n \in Names : objects[n] = State(listed["controller"].at, n)
        /\ Compare(objects) /\ reflector # "start"
    BY TypeFacts DEF ControllerCompares, IInv, PInv, LogAccounts, Threads, Unstarted
  <1>2. disturbed \subseteq disturbed' /\ Promised
    BY DEF ControllerCompares, Disturbed, PInv, Undisturbed
  <1>3. CASE objects = cache
    <2>1. queue' = queue
      BY <1>1, <1>3, NothingToCompare
    <2> QED
      BY <1>1, <1>2, <2>1, QuietPromised
  <1>4. CASE objects # cache
    <2>1. queue = << >> /\ reflector # "watch"
      BY <1>4 DEF ControllerCompares, Disturbed, Undisturbed
    <2>2. PICK s \in Seq(Objects!Event) :
            queue' = queue \o s /\ IsOrderOf(s, Differences(objects))
      BY <1>1, CompareAppends
    <2>3. Fits'
      BY <1>1, <2>1, <2>2, ComparedOnEmpty
    <2>4. ~(reflector = "open" /\ Len(log) = listed["reflector"].at)
      <3> SUFFICES ASSUME reflector = "open", Len(log) = listed["reflector"].at PROVE FALSE
        OBVIOUS
      <3>1. listed["controller"].at = Len(log)
        BY <1>1, <1>2 DEF Promised, Threads
      <3>2. \A n \in Names : View(n) = objects[n]
        BY <1>1, <1>2, <3>1 DEF Promised
      <3>3. \A n \in Names : View(n) = cache[n]
        <4>1. queue \in Seq(Objects!Event) /\ Len(queue) = 0
          BY <2>1
        <4> QED
          BY <4>1, KnownFirst DEF View
      <3>4. \A n \in Names : objects[n] = cache[n]
        BY <3>2, <3>3
      <3> QED
        BY <1>1, <1>4, <3>4 DEF Snapshot
    <2> QED
      BY <1>1, <2>1, <2>3, <2>4 DEF Promised
  <1> QED
    BY <1>3, <1>4

LEMMA NextPromised ==
  ASSUME IInv, IInv', PInv, [Next]_vars
  PROVE  PInv'
  <1>1. TypeOK /\ Len(log) \in Nat /\ queue \in Seq(Objects!Event) /\ LogAccounts /\ Unstarted
    BY TypeFacts DEF IInv, PInv
  <1>2. LogAccounts'
    <2>1. CASE Change
      BY <1>1, <2>1, ChangeAccounts DEF IInv
    <2>2. CASE ~Change
      <3>1. UNCHANGED <<store, log>> /\ (UNCHANGED listed \/ \E t \in Threads : TakeList(t))
        BY <2>2
        DEF Next, Reflect, Control, Start, ReflectorList, ReflectorCompare, ReflectorCompareRaises,
            WatchOpens, WatchDelivers, WatchEnds, ReflectorGivesUp, HandleEvent, ControllerLists,
            ControllerListRaises, ControllerCompares, vars, Threads
      <3> QED
        BY <1>1, <3>1, QuietAccounts
    <2> QED
      BY <2>1, <2>2
  <1>3. Unstarted'
    BY <1>1
    DEF Next, Reflect, Control, Change, Start, ReflectorList, ReflectorCompare,
        ReflectorCompareRaises, WatchOpens, WatchDelivers, WatchEnds, ReflectorGivesUp,
        HandleEvent, ControllerLists, ControllerListRaises, ControllerCompares, vars, Unstarted
  <1>4. disturbed \subseteq disturbed'
    BY DEF Next, Reflect, Control, Change, Start, ReflectorList, ReflectorCompare,
           ReflectorCompareRaises, WatchOpens, WatchDelivers, WatchEnds, ReflectorGivesUp, HandleEvent,
           ControllerLists, ControllerListRaises, ControllerCompares, vars, Disturbed
  <1>5. ASSUME Undisturbed' PROVE Promised'
    <2>1. Promised
      BY <1>4, <1>5 DEF PInv, Undisturbed
    <2>2. CASE Change
      <3>1. UNCHANGED <<cache, queue, reflector, pos, controller, listed>>
        BY <2>2 DEF Change
      <3>2. /\ \A n : \A i \in 0 .. Len(log) : State(i, n)' = State(i, n)
            /\ Len(log') = Len(log) + 1
        BY <1>1, <2>2, ChangeAccounts DEF IInv
      <3>3. pos \in 0 .. Len(log) /\ listed["reflector"].at <= Len(log)
            /\ listed["reflector"].at \in Nat
        BY <1>1, TypeFacts DEF LogAccounts, Threads
      <3>4. Fits' /\ \A n : View(n)' = View(n)
        BY <2>1, <3>1 DEF Promised, Fits, View
      <3>5. \A n : State(pos, n)' = State(pos, n)
        BY <3>1, <3>2, <3>3
      <3>6. Len(log') # listed'["reflector"].at
        BY <1>1, <3>1, <3>2, <3>3
      <3> QED
        BY <2>1, <3>1, <3>4, <3>5, <3>6 DEF Promised
    <2>3. CASE Start
      <3>1. queue' = << >> /\ controller' = "wait" /\ reflector' = "list"
        BY <1>1, <2>3 DEF Start, Unstarted
      <3> QED
        BY <3>1 DEF Promised, Fits
    <2>4. CASE ReflectorList
      BY <2>1, <2>4, QuietPromised DEF ReflectorList, Promised
    <2>5. CASE ReflectorCompare \/ ReflectorCompareRaises
      BY <1>5, <2>5, ReflectorPromised
    <2>6. CASE WatchOpens
      <3>1. /\ UNCHANGED <<store, log, cache, queue, controller>> /\ pos' = Len(log)
            /\ reflector = "open" /\ reflector' = "watch" /\ Len(log) = listed["reflector"].at
        <4>1. "gap" \notin disturbed'
          BY <1>5 DEF Undisturbed
        <4>2. disturbed' = disturbed \cup {d \in {"gap"} : Len(log) # listed["reflector"].at}
          BY <2>6 DEF WatchOpens, Disturbed
        <4> QED
          BY <2>6, <4>1, <4>2 DEF WatchOpens
      <3>2. \A n : View(n)' = View(n) /\ State(pos, n)' = State(Len(log), n)
        BY <3>1 DEF View, State, Nothing
      <3> QED
        BY <2>1, <3>1, <3>2 DEF Promised, Fits
    <2>7. CASE WatchDelivers
      BY <1>1, <2>1, <2>7, DeliveryPromised
    <2>8. CASE WatchEnds \/ ReflectorGivesUp
      BY <2>1, <2>8, QuietPromised DEF WatchEnds, ReflectorGivesUp, Promised
    <2>9. CASE HandleEvent
      BY <2>1, <2>9, HandlingPromised
    <2>10. CASE ControllerLists
      <3>1. /\ UNCHANGED <<cache, queue, log, reflector, pos>> /\ controller' = "compare"
            /\ listed'["reflector"] = listed["reflector"]
            /\ listed'["controller"].at = Len(log)
        BY <1>1, <2>10, TypeFacts DEF ControllerLists, TakeList, Threads
      <3>2. listed["reflector"].at <= Len(log)
        BY <1>1 DEF LogAccounts, Threads
      <3> QED
        BY <2>1, <3>1, <3>2, QuietPromised
    <2>11. CASE ControllerListRaises
      BY <1>5, <2>11 DEF ControllerListRaises, Disturbed, Undisturbed
    <2>12. CASE ControllerCompares
      BY <1>5, <2>12, ResyncPromised
    <2>13. CASE UNCHANGED vars
      <3>1. UNCHANGED <<cache, queue, log, reflector, pos, controller, listed>>
        BY <2>13 DEF vars
      <3> QED
        BY <2>1, <3>1, QuietPromised DEF Promised
    <2> QED
      BY <2>2, <2>3, <2>4, <2>5, <2>6, <2>7, <2>8, <2>9, <2>10, <2>11, <2>12, <2>13
      DEF Next, Reflect, Control
  <1> QED
    BY <1>2, <1>3, <1>5 DEF PInv

(* As long as no object changes between a list and the opening of the      *)
(* watch, no list is compared while events are pending, no resync runs     *)
(* ahead of an open watch, and no resync fails: the informer's threads     *)
(* live, every pending event finds its name as it expects it, and cache    *)
(* and queue together are the store at the watch's position, however the   *)
(* writers, the two threads, the resyncs and the reconnects are            *)
(* interleaved.                                                            *)
THEOREM PromiseIsKept == Spec => []PromiseWhileUndisturbed
  <1>1. Init => IInv /\ PInv
    <2> SUFFICES ASSUME Init PROVE IInv /\ PInv
      OBVIOUS
    <2>1. IInv
      BY InitHolds
    <2>2. /\ queue = << >> /\ log = << >> /\ Len(queue) = 0 /\ Len(log) = 0 /\ controller = "start"
          /\ reflector = "start" /\ \A n \in Names : store[n] = NotThere
          /\ log \in Seq(Objects!Event)
          /\ \A t \in Threads : listed[t].at = 0 /\ \A n \in Names : listed[t].objects[n] = NotThere
      BY DEF Init, Objects!Init, Nothing, Threads
    <2>3. \A n \in Names : State(0, n) = NotThere
      <3>1. \A n \in Names : Known(Nothing, log, 0, n) = Nothing[n]
        BY <2>2, KnownFirst
      <3> QED
        BY <3>1 DEF State, Nothing
    <2>4. LogAccounts
      BY <2>2, <2>3 DEF LogAccounts
    <2>5. Promised
      BY <2>2 DEF Promised, Fits
    <2> QED
      BY <2>1, <2>2, <2>4, <2>5 DEF PInv, Unstarted
  <1>2. IInv /\ PInv /\ [Next]_vars => (IInv /\ PInv)'
    BY NextKeeps, NextPromised
  <1>3. IInv /\ PInv => PromiseWhileUndisturbed
    BY PromiseKept DEF IInv
  <1> QED
    BY <1>1, <1>2, <1>3, PTL DEF Spec
=============================================================================
