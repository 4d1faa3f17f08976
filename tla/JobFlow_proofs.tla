--------------------------- MODULE JobFlow_proofs ---------------------------
(***************************************************************************)
(* JobFlow, for any jobs, clusters, replicas and bounds, and whichever     *)
(* cluster manager: the controllers keep their types, and, while names are *)
(* not used again and no job controller gives its cluster up, a placement  *)
(* is final and the clusters hold no more tasks than it gives them.  While *)
(* none refuses or gives up, their writes come to an end, too; and the     *)
(* last part says what a controller that comes to rest has seen to.        *)
(***************************************************************************)
EXTENDS JobFlow, SequenceTheorems, FiniteSetTheorems, WellFoundedInduction, TLAPS

LEMMA LatestExists ==
  ASSUME NEW k \in Nat, NEW S \in SUBSET (1 .. k), S # {}
  PROVE  \E i \in S : \A h \in S : h <= i
  <1> DEFINE T == {k - i : i \in S}
  <1>0. \A h \in S : h \in Nat /\ h <= k /\ k - h \in Nat
    OBVIOUS
  <1>1. T \subseteq Nat /\ T # {}
    BY <1>0
  <1>2. \E x \in T : \A y \in T : ~(<<y, x>> \in OpToRel(<, Nat))
    <2> HIDE DEF T
    <2> QED
      BY <1>1, NatLessThanWellFounded, WFMin
  <1>3. PICK x \in T : \A y \in T : ~(y < x)
    BY <1>1, <1>2 DEF OpToRel
  <1>4. PICK i \in S : x = k - i
    BY <1>3
  <1>5. \A h \in S : ~(k - h < k - i)
    BY <1>3, <1>4
  <1>6. \A h \in S : h <= i
    BY <1>0, <1>5
  <1> QED
    BY <1>6

-----------------------------------------------------------------------------
(* The types, by the part of the system that keeps them.                   *)
Entry == [name : Jobs, job : JobValue]

StoreFits == jobs \in [Jobs -> JobValue \cup {NoJob}] /\ log \in Seq(Store!Event)

Known == {c \in Clusters : clusters[c] # "unknown"}

\* Every cluster is added once.
SchedulerFits == /\ clusters \in [Clusters -> {"unknown", "added", "ready"}]
                 /\ clusterEvents \in Nat /\ clusterEvents <= Cardinality(Known)
                 /\ schedulerAt \in 0 .. Len(log)
                 /\ workload \in Seq(Entry)

FlowFits == /\ flowAt \in [Clusters -> 0 .. Len(log)]
            /\ submitted \in [Clusters -> {Idle} \cup Entry]
            /\ tasks \in [Clusters -> TaskCounts]

\* A heartbeat writes only jobs that its view has, placed on the cluster.
TodoFits(c, b) == b.stage \in {"updating", "cleanup"} => b.todo \subseteq PlacedHere(c, b.view)

BeatFits == /\ beat \in [Clusters -> Beat]
            /\ \A c \in Clusters : TodoFits(c, beat[c])
            /\ cacheAt \in [Clusters -> 0 .. Len(log)]
            /\ retries \in [Clusters -> Nat]

BoundsFit == /\ created \in [Jobs -> 0 .. MaxCreates]
             /\ beats \in 0 .. MaxBeats /\ failures \in 0 .. MaxFailures
             /\ restarts \in 0 .. MaxRestarts /\ losses \in 0 .. MaxLosses

Typed == StoreFits /\ SchedulerFits /\ FlowFits /\ BeatFits /\ BoundsFit

LEMMA TypedIsTypeOK == Typed => TypeOK
  <1> SUFFICES ASSUME Typed PROVE TypeOK
    OBVIOUS
  <1>1. clusterEvents \in 0 .. Cardinality(Clusters)
    <2>1. IsFiniteSet(Clusters) /\ Known \in SUBSET Clusters
      BY JobFlowAssumption DEF Known
    <2>2. /\ Cardinality(Known) <= Cardinality(Clusters)
          /\ Cardinality(Known) \in Nat /\ Cardinality(Clusters) \in Nat
      BY <2>1, FS_Subset, FS_CardinalityType
    <2> QED
      BY <2>2 DEF Typed, SchedulerFits
  <1>2. Store!TypeOK
    BY DEF Typed, StoreFits, Store!TypeOK
  <1> QED
    BY <1>1, <1>2 DEF Typed, SchedulerFits, FlowFits, BeatFits, BoundsFit, TypeOK, Entry

(* The log of a step: it is kept, and may have grown.                      *)
Grown == /\ StoreFits'
         /\ Len(log') \in Nat /\ Len(log) \in Nat /\ Len(log) <= Len(log')
         /\ \A i \in 1 .. Len(log) : log'[i] = log[i]

LEMMA LogFacts ==
  ASSUME StoreFits
  PROVE  /\ Len(log) \in Nat /\ DOMAIN log = 1 .. Len(log)
         /\ \A i \in 1 .. Len(log) : /\ log[i] \in Store!Event
                                     /\ log[i].type \in {"ADD", "UPDATE", "DELETE"}
                                     /\ log[i].name \in Jobs /\ log[i].value \in JobValue
  <1>1. Len(log) \in Nat /\ DOMAIN log = 1 .. Len(log)
    BY LenProperties DEF StoreFits
  <1>2. \A i \in 1 .. Len(log) : log[i] \in Store!Event
    BY <1>1, ElementOfSeq DEF StoreFits
  <1> QED
    BY <1>1, <1>2 DEF Store!Event

LEMMA NotWritten ==
  ASSUME StoreFits, UNCHANGED apiVars
  PROVE  Grown
  BY LogFacts DEF StoreFits, Grown, apiVars

LEMMA Announced ==
  ASSUME StoreFits, NEW e \in Store!Event, log' = Append(log, e),
         NEW j \in Jobs, NEW v \in JobValue \cup {NoJob}, jobs' = [jobs EXCEPT ![j] = v]
  PROVE  /\ Grown
         /\ Len(log') = Len(log) + 1 /\ log'[Len(log) + 1] = e
  <1>1. /\ log' \in Seq(Store!Event)
        /\ Len(log') = Len(log) + 1
        /\ \A i \in 1 .. Len(log) : log'[i] = log[i]
        /\ log'[Len(log) + 1] = e
    BY AppendProperties, LogFacts DEF StoreFits
  <1>2. jobs' \in [Jobs -> JobValue \cup {NoJob}]
    BY DEF StoreFits
  <1> QED
    BY <1>1, <1>2, LogFacts DEF StoreFits, Grown

LEMMA PutGrows ==
  ASSUME StoreFits, NEW j \in Jobs, NEW v \in JobValue, PutJob(j, v)
  PROVE  /\ Grown
         /\ jobs[j] # NoJob /\ jobs' = [jobs EXCEPT ![j] = v]
         /\ Len(log') = Len(log) + 1
         /\ log'[Len(log) + 1] = [type |-> "UPDATE", name |-> j, value |-> v]
  <1> DEFINE e == [type |-> "UPDATE", name |-> j, value |-> v]
  <1>1. e \in Store!Event
    BY DEF Store!Event
  <1>2. log' = Append(log, e) /\ jobs' = [jobs EXCEPT ![j] = v] /\ jobs[j] # NoJob
    BY DEF PutJob, Store!Modify, Store!Announce
  <1> HIDE DEF e
  <1>3. Grown /\ Len(log') = Len(log) + 1 /\ log'[Len(log) + 1] = e
    BY <1>1, <1>2, Announced
  <1> QED
    BY <1>2, <1>3 DEF e

-----------------------------------------------------------------------------
(* What is written are jobs.                                               *)
LEMMA ReplicasWritten ==
  ASSUME NEW job \in JobValue, NEW c \in Clusters, NEW state \in TaskStates, NEW count \in Nat
  PROVE  /\ WithReplicas(job, c, state, count) \in JobValue
         /\ WithReplicas(job, c, state, count).phase = job.phase
         /\ WithReplicas(job, c, state, count).ids = job.ids
         /\ PlacedOn(WithReplicas(job, c, state, count)) \subseteq PlacedOn(job) \cup {c}
         /\ state # "NONE" =>
              PlacedOn(WithReplicas(job, c, state, count)) = PlacedOn(job) \cup {c}
         /\ state # "EVICTED" /\ ~IsEvicted(job) =>
              ~IsEvicted(WithReplicas(job, c, state, count))
  <1> DEFINE r == [state |-> state, count |-> count]
             replicas == [job.replicas EXCEPT ![c] = r]
             written == [job EXCEPT !.replicas = replicas]
  <1>1. r \in ReplicaStatus /\ r.state = state
    BY DEF ReplicaStatus
  <1>2. job.replicas \in [Clusters -> ReplicaStatus]
    BY DEF JobValue
  <1>3. WithReplicas(job, c, state, count) = written
    BY DEF WithReplicas, JobValue
  <1> HIDE DEF r
  <1>4. /\ replicas \in [Clusters -> ReplicaStatus]
        /\ replicas[c] = r /\ \A d \in Clusters : d # c => replicas[d] = job.replicas[d]
    BY <1>1, <1>2
  <1> HIDE DEF replicas
  <1>5. /\ written \in JobValue /\ written.phase = job.phase /\ written.ids = job.ids
        /\ written.replicas = replicas
    BY <1>4 DEF JobValue
  <1> HIDE DEF written
  <1>6. /\ PlacedOn(written) \subseteq PlacedOn(job) \cup {c}
        /\ state # "NONE" => PlacedOn(written) = PlacedOn(job) \cup {c}
        /\ state # "EVICTED" /\ ~IsEvicted(job) => ~IsEvicted(written)
    BY <1>1, <1>4, <1>5 DEF PlacedOn, IsEvicted
  <1> QED
    BY <1>3, <1>5, <1>6

LEMMA WithReplicasTyped ==
  ASSUME NEW job \in JobValue, NEW c \in Clusters, NEW state \in TaskStates, NEW count \in Nat
  PROVE  /\ WithReplicas(job, c, state, count) \in JobValue
         /\ WithReplicas(job, c, state, count).phase = job.phase
  BY ReplicasWritten

LEMMA NewJobTyped ==
  NewJob \in JobValue /\ NewJob # NoJob /\ PlacedOn(NewJob) = {} /\ ~IsEvicted(NewJob)
  <1>1. NoReplicas \in ReplicaStatus
    BY DEF NoReplicas, ReplicaStatus, TaskStates
  <1>2. [c \in Clusters |-> NoReplicas] \in [Clusters -> ReplicaStatus]
    BY <1>1
  <1> QED
    BY <1>2 DEF NewJob, JobValue, NoJob, PlacedOn, IsEvicted, NoReplicas

LEMMA DecisionsTyped ==
  ASSUME NEW job \in JobValue, NEW decided \in Decisions(job)
  PROVE  /\ decided \in JobValue /\ decided.phase # "INIT" /\ decided.ids = job.ids
         /\ ~IsEvicted(job) => ~IsEvicted(decided)
  <1>1. ASSUME NEW s \in Spreads, decided = Placed(job, s)
        PROVE  /\ decided \in JobValue /\ decided.phase # "INIT" /\ decided.ids = job.ids
               /\ ~IsEvicted(decided)
    <2> DEFINE replicas == [c \in Clusters |->
                 IF s[c] = 0 THEN NoReplicas ELSE [state |-> "INIT", count |-> s[c]]]
               active == [job EXCEPT !.phase = "ACTIVE"]
    <2>1. \A c \in Clusters : s[c] \in Nat
      BY JobFlowAssumption DEF Spreads
    <2>2. \A c \in Clusters : replicas[c] \in ReplicaStatus /\ replicas[c].state # "EVICTED"
      BY <2>1 DEF ReplicaStatus, NoReplicas, TaskStates
    <2>3. replicas \in [Clusters -> ReplicaStatus]
      BY <2>2
    <2>4. decided = [active EXCEPT !.replicas = replicas]
      BY <1>1 DEF Placed, JobValue
    <2>5. active \in JobValue /\ active.phase = "ACTIVE" /\ active.ids = job.ids
      BY DEF JobValue
    <2> HIDE DEF replicas, active
    <2>6. /\ decided \in JobValue /\ decided.phase = "ACTIVE" /\ decided.ids = job.ids
          /\ decided.replicas = replicas
      BY <2>3, <2>4, <2>5 DEF JobValue
    <2> QED
      BY <2>2, <2>6 DEF IsEvicted
  <1>2. ASSUME decided = [job EXCEPT !.phase = "FAILED"]
        PROVE  /\ decided \in JobValue /\ decided.phase # "INIT" /\ decided.ids = job.ids
               /\ decided.replicas = job.replicas
    BY <1>2 DEF JobValue
  <1>3. \/ \E s \in Spreads : decided = Placed(job, s)
        \/ decided = [job EXCEPT !.phase = "FAILED"]
    BY DEF Decisions
  <1> QED
    BY <1>1, <1>2, <1>3 DEF IsEvicted

(* Each job in a copy of the cache is one that was announced, and not as   *)
(* deleted.                                                                *)
LEMMA StoreAtAnnounced ==
  ASSUME StoreFits, NEW k \in 0 .. Len(log)
  PROVE  /\ StoreAt(k) \in Views
         /\ \A j \in Jobs : StoreAt(k)[j] # NoJob =>
              \E i \in 1 .. Len(log) : /\ log[i].name = j /\ log[i].type # "DELETE"
                                       /\ log[i].value = StoreAt(k)[j]
  <1>1. ASSUME NEW j \in Jobs
        PROVE  \/ StoreAt(k)[j] = NoJob
               \/ \E i \in 1 .. Len(log) : /\ log[i].name = j /\ log[i].type # "DELETE"
                                           /\ log[i].value = StoreAt(k)[j]
    <2> DEFINE about == {i \in 1 .. k : log[i].name = j}
               latest == CHOOSE i \in about : \A h \in about : h <= i
    <2>1. StoreAt(k)[j] = IF about = {} THEN NoJob
                          ELSE IF log[latest].type = "DELETE" THEN NoJob ELSE log[latest].value
      BY DEF StoreAt
    <2>2. k \in Nat /\ \A i \in 1 .. k : i \in 1 .. Len(log)
      BY LogFacts
    <2>3. about # {} => latest \in about
      <3>1. about # {} => \E i \in about : \A h \in about : h <= i
        <4>1. about \in SUBSET (1 .. k)
          OBVIOUS
        <4> HIDE DEF about
        <4> QED
          BY <2>2, <4>1, LatestExists
      <3> HIDE DEF about
      <3> QED
        BY <3>1
    <2> HIDE DEF latest
    <2> QED
      BY <2>1, <2>2, <2>3
  <1>2. \A j \in Jobs : StoreAt(k)[j] \in JobValue \cup {NoJob}
    BY <1>1, LogFacts
  <1>3. StoreAt(k) \in Views
    BY <1>2 DEF StoreAt, Views
  <1> QED
    BY <1>1, <1>3

-----------------------------------------------------------------------------
(* What a step leaves alone keeps its types while the log grows.           *)
LEMMA SchedulerKept ==
  ASSUME Typed, Grown, UNCHANGED schedulerVars
  PROVE  SchedulerFits'
  BY DEF Typed, Grown, schedulerVars, SchedulerFits, Known

LEMMA FlowKept ==
  ASSUME Typed, Grown, UNCHANGED <<flowVars, tasks>>
  PROVE  FlowFits'
  <1>1. \A c \in Clusters : flowAt[c] \in 0 .. Len(log')
    BY DEF Typed, Grown, FlowFits
  <1> QED
    BY <1>1 DEF Typed, flowVars, FlowFits

LEMMA BeatKept ==
  ASSUME Typed, Grown, UNCHANGED <<beat, cacheAt, retries>>
  PROVE  BeatFits'
  <1>1. \A c \in Clusters : cacheAt[c] \in 0 .. Len(log')
    BY DEF Typed, Grown, BeatFits
  <1>2. \A c \in Clusters : TodoFits(c, beat'[c])
    BY DEF Typed, BeatFits
  <1> QED
    BY <1>1, <1>2 DEF Typed, BeatFits, TodoFits, PlacedHere, PlacedOn

LEMMA UserTyped ==
  ASSUME Typed, NEW j \in Jobs, CreateJob(j) \/ DeleteJob(j)
  PROVE  Typed'
  <1>1. CASE CreateJob(j)
    <2> DEFINE e == [type |-> "ADD", name |-> j, value |-> NewJob]
    <2>1. e \in Store!Event
      BY NewJobTyped DEF Store!Event
    <2>2. log' = Append(log, e) /\ jobs' = [jobs EXCEPT ![j] = NewJob]
      BY <1>1 DEF CreateJob, Store!Add, Store!Announce
    <2> HIDE DEF e
    <2>3. Grown
      BY <2>1, <2>2, Announced, NewJobTyped DEF Typed
    <2>4. BoundsFit'
      BY <1>1, JobFlowAssumption DEF CreateJob, beatVars, Typed, BoundsFit
    <2> QED
      BY <1>1, <2>3, <2>4, SchedulerKept, FlowKept, BeatKept DEF CreateJob, beatVars, Typed, Grown
  <1>2. CASE DeleteJob(j)
    <2> DEFINE e == [type |-> "DELETE", name |-> j, value |-> jobs[j]]
    <2>1. e \in Store!Event
      BY <1>2 DEF Store!Event, DeleteJob, Store!Remove, Typed, StoreFits
    <2>2. log' = Append(log, e) /\ jobs' = [jobs EXCEPT ![j] = NoJob]
      BY <1>2 DEF DeleteJob, Store!Remove, Store!Announce
    <2> HIDE DEF e
    <2>3. Grown
      BY <2>1, <2>2, Announced DEF Typed
    <2>4. BoundsFit'
      BY <1>2 DEF DeleteJob, beatVars, Typed, BoundsFit
    <2> QED
      BY <1>2, <2>3, <2>4, SchedulerKept, FlowKept, BeatKept DEF DeleteJob, beatVars, Typed, Grown
  <1> QED
    BY <1>1, <1>2

-----------------------------------------------------------------------------
(* The scheduler.                                                          *)
LEMMA DecideHeadTyped ==
  ASSUME StoreFits, NEW queue \in Seq(Entry), DecideHead(queue)
  PROVE  Grown /\ workload' \in Seq(Entry)
  <1>1. CASE queue = << >>
    BY <1>1, NotWritten DEF DecideHead
  <1>2. CASE queue # << >>
    <2>1. Head(queue) \in Entry /\ Tail(queue) \in Seq(Entry) /\ Head(queue) = queue[1]
          /\ 1 \in 1 .. Len(queue)
      BY <1>2, HeadTailProperties, LenProperties
    <2>2. PICK job \in Decisions(Head(queue).job) :
            IF Stored(Head(queue).name)
            THEN PutJob(Head(queue).name, job) /\ workload' = Tail(queue)
            ELSE workload' = [queue EXCEPT ![1].job = job] /\ UNCHANGED apiVars
      BY <1>2 DEF DecideHead
    <2>3. job \in JobValue
      BY <2>1, DecisionsTyped DEF Entry
    <2>4. CASE Stored(Head(queue).name)
      BY <2>1, <2>2, <2>3, <2>4, PutGrows DEF Entry
    <2>5. CASE ~Stored(Head(queue).name)
      <3> DEFINE decided == [queue[1] EXCEPT !.job = job]
      <3>1. decided \in Entry
        BY <2>1, <2>3 DEF Entry
      <3>2. workload' = [queue EXCEPT ![1] = decided]
        BY <2>2, <2>5
      <3> HIDE DEF decided
      <3>3. workload' \in Seq(Entry)
        BY <2>1, <3>1, <3>2, ExceptSeq
      <3> QED
        BY <2>2, <2>5, <3>3, NotWritten
    <2> QED
      BY <2>4, <2>5
  <1> QED
    BY <1>1, <1>2

LEMMA JobEventTyped ==
  ASSUME Typed, ScheduleOnJobEvent
  PROVE  Typed'
  <1>1. PICK k \in (schedulerAt + 1) .. Len(log) :
          /\ schedulerAt' = k
          /\ DecideHead(Append(workload, [name |-> log[k].name, job |-> log[k].value]))
    BY DEF ScheduleOnJobEvent, NextEvent
  <1> DEFINE entry == [name |-> log[k].name, job |-> log[k].value]
  <1>2. k \in 1 .. Len(log)
    BY <1>1, LogFacts DEF Typed, SchedulerFits
  <1>3. entry \in Entry
    BY <1>2, LogFacts DEF Typed, Entry
  <1> HIDE DEF entry
  <1>4. Append(workload, entry) \in Seq(Entry)
    BY <1>3, AppendProperties DEF Typed, SchedulerFits
  <1>5. Grown /\ workload' \in Seq(Entry)
    BY <1>1, <1>4, DecideHeadTyped DEF Typed, entry
  <1>6. SchedulerFits'
    BY <1>1, <1>2, <1>5 DEF ScheduleOnJobEvent, Typed, SchedulerFits, Known, Grown
  <1>7. BoundsFit'
    BY DEF ScheduleOnJobEvent, beatVars, Typed, BoundsFit
  <1> QED
    BY <1>5, <1>6, <1>7, FlowKept, BeatKept DEF ScheduleOnJobEvent, beatVars, Typed, Grown

LEMMA ClusterEventTyped ==
  ASSUME Typed, ScheduleOnClusterEvent
  PROVE  Typed'
  <1>1. Grown /\ workload' \in Seq(Entry)
    BY DecideHeadTyped DEF ScheduleOnClusterEvent, Typed, SchedulerFits
  <1>2. Cardinality(Known) \in Nat
    BY JobFlowAssumption, FS_Subset, FS_CardinalityType DEF Known
  <1>3. clusterEvents' \in Nat /\ clusterEvents' <= Cardinality(Known) /\ Known' = Known
    BY <1>2 DEF ScheduleOnClusterEvent, Typed, SchedulerFits, Known
  <1>4. SchedulerFits'
    BY <1>1, <1>3 DEF ScheduleOnClusterEvent, Typed, SchedulerFits, Grown
  <1>5. BoundsFit'
    BY DEF ScheduleOnClusterEvent, beatVars, Typed, BoundsFit
  <1> QED
    BY <1>1, <1>4, <1>5, FlowKept, BeatKept DEF ScheduleOnClusterEvent, beatVars, Typed, Grown

LEMMA ClusterTyped ==
  ASSUME Typed, NEW c \in Clusters, ClusterIsAdded(c) \/ ClusterBecomesReady(c)
  PROVE  Typed'
  <1>1. Grown
    BY NotWritten DEF ClusterIsAdded, ClusterBecomesReady, Typed
  <1>2. IsFiniteSet(Known) /\ Cardinality(Known) \in Nat
    <2>1. Known \in SUBSET Clusters
      BY DEF Known
    <2> QED
      BY <2>1, JobFlowAssumption, FS_Subset, FS_CardinalityType
  <1>3. clusters' \in [Clusters -> {"unknown", "added", "ready"}]
    BY DEF ClusterIsAdded, ClusterBecomesReady, Typed, SchedulerFits
  <1>4. clusterEvents' \in Nat /\ clusterEvents' <= Cardinality(Known')
    <2>1. CASE ClusterIsAdded(c)
      <3>1. c \notin Known /\ Known' = Known \cup {c}
        BY <2>1 DEF ClusterIsAdded, Known, Typed, SchedulerFits
      <3>2. Cardinality(Known') = Cardinality(Known) + 1
        BY <1>2, <3>1, FS_AddElement
      <3> QED
        BY <1>2, <2>1, <3>2 DEF ClusterIsAdded, Typed, SchedulerFits
    <2>2. CASE ClusterBecomesReady(c)
      <3>1. Known' = Known
        BY <2>2 DEF ClusterBecomesReady, Known, Typed, SchedulerFits
      <3> QED
        BY <2>2, <3>1 DEF ClusterBecomesReady, Typed, SchedulerFits
    <2> QED
      BY <2>1, <2>2
  <1>5. SchedulerFits'
    BY <1>1, <1>3, <1>4 DEF ClusterIsAdded, ClusterBecomesReady, Typed, SchedulerFits, Grown
  <1>6. BoundsFit'
    BY DEF ClusterIsAdded, ClusterBecomesReady, beatVars, Typed, BoundsFit
  <1> QED
    BY <1>1, <1>5, <1>6, FlowKept, BeatKept
    DEF ClusterIsAdded, ClusterBecomesReady, beatVars, Typed, Grown

LEMMA RestartTyped ==
  ASSUME Typed, SchedulerRestarts
  PROVE  Typed'
  <1>1. Grown
    BY NotWritten DEF SchedulerRestarts, Typed
  <1>2. Cardinality(Known) \in Nat
    <2>1. Known \in SUBSET Clusters
      BY DEF Known
    <2> QED
      BY <2>1, JobFlowAssumption, FS_Subset, FS_CardinalityType
  <1>3. << >> \in Seq(Entry)
    BY EmptySeq
  <1>4. SchedulerFits'
    BY <1>1, <1>2, <1>3 DEF SchedulerRestarts, Typed, SchedulerFits, Known, Grown, apiVars
  <1>5. BoundsFit'
    BY JobFlowAssumption DEF SchedulerRestarts, beatVars, Typed, BoundsFit
  <1> QED
    BY <1>1, <1>4, <1>5, FlowKept, BeatKept DEF SchedulerRestarts, beatVars, Typed, Grown

-----------------------------------------------------------------------------
(* The flow controllers.                                                   *)
LEMMA TasksTyped ==
  ASSUME Typed, NEW c \in Clusters, NEW j \in Jobs, NEW n \in Nat,
         tasks' = [tasks EXCEPT ![c][j] = n]
  PROVE  tasks' \in [Clusters -> TaskCounts]
  <1>1. tasks[c] \in [Jobs -> Nat]
    BY DEF Typed, FlowFits, TaskCounts
  <1> DEFINE t == [tasks[c] EXCEPT ![j] = n]
  <1>2. t \in [Jobs -> Nat]
    BY <1>1
  <1>3. tasks' = [tasks EXCEPT ![c] = t]
    OBVIOUS
  <1> HIDE DEF t
  <1> QED
    BY <1>2, <1>3 DEF Typed, FlowFits, TaskCounts

LEMMA NewTasksNat ==
  ASSUME Typed, NEW c \in Clusters, NEW j \in Jobs, NEW job \in JobValue
  PROVE  NewTasks(c, j, job) \in Nat /\ tasks[c][j] \in Nat
  <1>1. job.replicas[c].count \in Nat
    BY DEF JobValue, ReplicaStatus
  <1>2. tasks[c][j] \in Nat
    BY DEF Typed, FlowFits, TaskCounts
  <1>3. PodsCreated(c, j, job) \in Nat /\ SlurmSubmits(c, j) \in Nat
    BY <1>1, JobFlowAssumption DEF PodsCreated, SlurmSubmits
  <1> QED
    BY <1>2, <1>3, JobFlowAssumption DEF NewTasks, Managers

(* An event that a flow controller takes is about a job placed on its      *)
(* cluster.                                                                *)
LEMMA TakenTyped ==
  ASSUME Typed, NEW c \in Clusters, NEW k, TakeFlowEvent(c, k)
  PROVE  /\ k \in 1 .. Len(log)
         /\ log[k].name \in Jobs /\ log[k].value \in JobValue
         /\ c \in PlacedOn(log[k].value)
         /\ flowAt' \in [Clusters -> 0 .. Len(log)]
  <1>1. k \in (flowAt[c] + 1) .. Len(log) /\ FlowWants(c, log[k])
    BY DEF TakeFlowEvent, NextEvent
  <1>2. k \in 1 .. Len(log)
    BY <1>1, LogFacts DEF Typed, FlowFits
  <1>3. flowAt' \in [Clusters -> 0 .. Len(log)]
    BY <1>2, LogFacts DEF TakeFlowEvent, Typed, FlowFits
  <1> QED
    BY <1>1, <1>2, <1>3, LogFacts DEF FlowWants, Typed

LEMMA WithIdTyped ==
  ASSUME NEW job \in JobValue, NEW c \in Clusters
  PROVE  /\ [job EXCEPT !.ids = job.ids \cup {c}] \in JobValue
         /\ [job EXCEPT !.ids = job.ids \cup {c}].replicas = job.replicas
         /\ [job EXCEPT !.ids = job.ids \cup {c}].phase = job.phase
  BY DEF JobValue

(* What a controller is to write back, and what it added to its cluster.   *)
LEMMA SubmitMoves ==
  ASSUME Typed, NEW c \in Clusters, Submit(c) \/ SubmitRaises(c)
  PROVE  \E k \in 1 .. Len(log) : \E job \in JobValue : \E n \in Nat :
           /\ log[k].type = "UPDATE" /\ log[k].name \in Jobs /\ log[k].value \in JobValue
           /\ c \in PlacedOn(log[k].value)
           /\ flowAt' \in [Clusters -> 0 .. Len(log)]
           /\ submitted' = [submitted EXCEPT ![c] = [name |-> log[k].name, job |-> job]]
           /\ job.phase = log[k].value.phase
           /\ \/ job.replicas = log[k].value.replicas
              \/ job = WithReplicas(log[k].value, c, "FAILED", log[k].value.replicas[c].count)
           /\ tasks' = tasks \/ tasks' = [tasks EXCEPT ![c][log[k].name] = n]
           /\ failures' \in 0 .. MaxFailures
  <1>1. CASE Submit(c)
    <2>1. PICK k \in (flowAt[c] + 1) .. Len(log) :
            /\ log[k].type = "UPDATE" /\ TakeFlowEvent(c, k)
            /\ LET j == log[k].name
                   job == log[k].value
               IN  /\ tasks' = [tasks EXCEPT ![c][j] = tasks[c][j] + NewTasks(c, j, job)]
                   /\ submitted' = [submitted EXCEPT
                        ![c] = [name |-> j, job |-> [job EXCEPT !.ids = job.ids \cup {c}]]]
      BY <1>1 DEF Submit
    <2>2. /\ k \in 1 .. Len(log) /\ log[k].name \in Jobs /\ log[k].value \in JobValue
          /\ c \in PlacedOn(log[k].value) /\ flowAt' \in [Clusters -> 0 .. Len(log)]
      BY <2>1, TakenTyped
    <2> DEFINE job == [log[k].value EXCEPT !.ids = log[k].value.ids \cup {c}]
               n == tasks[c][log[k].name] + NewTasks(c, log[k].name, log[k].value)
    <2>3. job \in JobValue /\ job.replicas = log[k].value.replicas /\ job.phase = log[k].value.phase
      BY <2>2, WithIdTyped
    <2>4. n \in Nat
      BY <2>2, NewTasksNat
    <2>5. /\ tasks' = [tasks EXCEPT ![c][log[k].name] = n]
          /\ submitted' = [submitted EXCEPT ![c] = [name |-> log[k].name, job |-> job]]
      BY <2>1
    <2>6. failures' \in 0 .. MaxFailures
      BY <1>1 DEF Submit, Typed, BoundsFit
    <2> HIDE DEF job, n
    <2> QED
      BY <2>1, <2>2, <2>3, <2>4, <2>5, <2>6
  <1>2. CASE SubmitRaises(c)
    <2>1. PICK k \in (flowAt[c] + 1) .. Len(log) :
            /\ log[k].type = "UPDATE" /\ TakeFlowEvent(c, k)
            /\ LET j == log[k].name
                   job == log[k].value
               IN  /\ \/ tasks' = tasks /\ failures' = failures
                      \/ /\ failures < MaxFailures /\ failures' = failures + 1
                         /\ \E some \in 0 .. NewTasks(c, j, job) :
                              tasks' = [tasks EXCEPT ![c][j] = tasks[c][j] + some]
                   /\ submitted' = [submitted EXCEPT ![c] =
                        [name |-> j,
                         job |-> WithReplicas(job, c, "FAILED", job.replicas[c].count)]]
      BY <1>2 DEF SubmitRaises
    <2>2. /\ k \in 1 .. Len(log) /\ log[k].name \in Jobs /\ log[k].value \in JobValue
          /\ c \in PlacedOn(log[k].value) /\ flowAt' \in [Clusters -> 0 .. Len(log)]
      BY <2>1, TakenTyped
    <2> DEFINE job == WithReplicas(log[k].value, c, "FAILED", log[k].value.replicas[c].count)
    <2>3. job \in JobValue /\ job.phase = log[k].value.phase
      <3>1. log[k].value.replicas[c].count \in Nat
        BY <2>2 DEF JobValue, ReplicaStatus
      <3>2. "FAILED" \in TaskStates
        BY DEF TaskStates
      <3>3. ASSUME NEW state \in TaskStates, NEW v \in JobValue, NEW n \in Nat
            PROVE  WithReplicas(v, c, state, n) \in JobValue /\ WithReplicas(v, c, state, n).phase = v.phase
        BY WithReplicasTyped
      <3> QED
        BY <2>2, <3>1, <3>2, <3>3
    <2>4. \E n \in Nat : tasks' = tasks \/ tasks' = [tasks EXCEPT ![c][log[k].name] = n]
      <3>1. CASE tasks' = tasks
        BY <3>1
      <3>2. CASE tasks' # tasks
        <4>1. PICK some \in 0 .. NewTasks(c, log[k].name, log[k].value) :
                tasks' = [tasks EXCEPT ![c][log[k].name] = tasks[c][log[k].name] + some]
          BY <2>1, <3>2
        <4>2. tasks[c][log[k].name] + some \in Nat
          BY <2>2, NewTasksNat
        <4> QED
          BY <4>1, <4>2
      <3> QED
        BY <3>1, <3>2
    <2>5. failures' \in 0 .. MaxFailures
      BY <2>1, JobFlowAssumption DEF Typed, BoundsFit
    <2>6. submitted' = [submitted EXCEPT ![c] = [name |-> log[k].name, job |-> job]]
      BY <2>1
    <2>7. job = WithReplicas(log[k].value, c, "FAILED", log[k].value.replicas[c].count)
      OBVIOUS
    <2> HIDE DEF job
    <2> QED
      BY <2>1, <2>2, <2>3, <2>4, <2>5, <2>6, <2>7
  <1> QED
    BY <1>1, <1>2

LEMMA SubmitTyped ==
  ASSUME Typed, NEW c \in Clusters, Submit(c) \/ SubmitRaises(c)
  PROVE  Typed'
  <1>1. Grown
    BY NotWritten DEF Submit, SubmitRaises, Typed
  <1>2. PICK k \in 1 .. Len(log), job \in JobValue, n \in Nat :
          /\ log[k].name \in Jobs
          /\ flowAt' \in [Clusters -> 0 .. Len(log)]
          /\ submitted' = [submitted EXCEPT ![c] = [name |-> log[k].name, job |-> job]]
          /\ tasks' = tasks \/ tasks' = [tasks EXCEPT ![c][log[k].name] = n]
          /\ failures' \in 0 .. MaxFailures
    BY SubmitMoves
  <1>3. tasks' \in [Clusters -> TaskCounts]
    BY <1>2, TasksTyped DEF Typed, FlowFits
  <1>4. submitted' \in [Clusters -> {Idle} \cup Entry]
    <2> DEFINE entry == [name |-> log[k].name, job |-> job]
    <2>1. entry \in Entry
      BY <1>2 DEF Entry
    <2> HIDE DEF entry
    <2> QED
      BY <1>2, <2>1 DEF entry, Typed, FlowFits
  <1>5. FlowFits'
    BY <1>2, <1>3, <1>4 DEF Submit, SubmitRaises, FlowFits, apiVars
  <1>6. BoundsFit'
    BY <1>2 DEF Submit, SubmitRaises, beatVars, Typed, BoundsFit
  <1> QED
    BY <1>1, <1>5, <1>6, SchedulerKept, BeatKept DEF Submit, SubmitRaises, beatVars, Typed, Grown

LEMMA WriteBackTyped ==
  ASSUME Typed, NEW c \in Clusters, WriteBack(c)
  PROVE  Typed'
  <1>1. submitted[c] \in Entry
    BY DEF WriteBack, Typed, FlowFits
  <1>2. Grown
    BY <1>1, NotWritten, PutGrows DEF WriteBack, Typed, Entry
  <1>3. flowAt' = flowAt /\ tasks' = tasks /\ submitted' \in [Clusters -> {Idle} \cup Entry]
    BY DEF WriteBack, Typed, FlowFits
  <1>4. FlowFits'
    <2>1. \A d \in Clusters : flowAt[d] \in 0 .. Len(log')
      BY <1>2 DEF Typed, Grown, FlowFits
    <2> QED
      BY <1>3, <2>1 DEF Typed, FlowFits
  <1>5. BoundsFit'
    BY DEF WriteBack, beatVars, Typed, BoundsFit
  <1> QED
    BY <1>2, <1>4, <1>5, SchedulerKept, BeatKept DEF WriteBack, beatVars, Typed, Grown

LEMMA TasksLeftNat ==
  ASSUME Typed, NEW c \in Clusters, NEW j \in Jobs, NEW job
  PROVE  /\ TasksLeft(c, j, job) \in Nat
         /\ TasksLeft(c, j, job) <= tasks[c][j]
         /\ Manager \in {"deployment", "kubernetes"} => TasksLeft(c, j, job) \in {0, tasks[c][j]}
  <1>1. tasks[c][j] \in Nat
    BY DEF Typed, FlowFits, TaskCounts
  <1>2. Replicas \in Nat \ {0}
    BY JobFlowAssumption
  <1> QED
    BY <1>1, <1>2, JobFlowAssumption DEF TasksLeft, RayLeft, SlurmLeft, PodsLeft, Managers

(* The tasks of a deletion, of a refused one, and of those that vanish.    *)
LEMMA TasksOnlyGo ==
  ASSUME Typed, NEW c \in Clusters,
         RemoveFromCluster(c) \/ RemoveRaises(c) \/ \E j \in Jobs : TasksVanish(c, j)
  PROVE  /\ Typed'
         /\ \A d \in Clusters, j \in Jobs :
              /\ tasks'[d][j] <= tasks[d][j]
              /\ Manager \in {"deployment", "kubernetes"} => tasks'[d][j] \in {0, tasks[d][j]}
         /\ UNCHANGED <<apiVars, created, schedulerVars, submitted, beatVars>>
  <1>1. Grown
    BY NotWritten DEF RemoveFromCluster, RemoveRaises, TasksVanish, Typed
  <1>2. flowAt' \in [Clusters -> 0 .. Len(log)]
    BY TakenTyped DEF RemoveFromCluster, RemoveRaises, TasksVanish, flowVars, Typed, FlowFits
  <1>3. \/ tasks' = tasks
        \/ \E j \in Jobs : \E n \in Nat :
             /\ tasks' = [tasks EXCEPT ![c][j] = n]
             /\ n <= tasks[c][j]
             /\ Manager \in {"deployment", "kubernetes"} => n \in {0, tasks[c][j]}
    <2>1. CASE RemoveFromCluster(c)
      <3>1. PICK k \in (flowAt[c] + 1) .. Len(log) :
              /\ TakeFlowEvent(c, k)
              /\ tasks' = [tasks EXCEPT ![c][log[k].name] =
                             TasksLeft(c, log[k].name, log[k].value)]
        BY <2>1 DEF RemoveFromCluster
      <3>2. PICK j \in Jobs : j = log[k].name
        BY <3>1, TakenTyped
      <3>3. PICK n \in Nat : n = TasksLeft(c, j, log[k].value)
        BY TasksLeftNat
      <3>4. n <= tasks[c][j] /\ (Manager \in {"deployment", "kubernetes"} => n \in {0, tasks[c][j]})
        BY <3>3, TasksLeftNat
      <3>5. tasks' = [tasks EXCEPT ![c][j] = n]
        BY <3>1, <3>2, <3>3
      <3> QED
        BY <3>4, <3>5
    <2>2. CASE RemoveRaises(c)
      BY <2>2 DEF RemoveRaises
    <2>3. ASSUME NEW j \in Jobs, TasksVanish(c, j)
          PROVE  tasks' = [tasks EXCEPT ![c][j] = 0] /\ 0 <= tasks[c][j]
      BY <2>3 DEF TasksVanish, Typed, FlowFits, TaskCounts
    <2> QED
      BY <2>1, <2>2, <2>3
  <1>4. tasks' \in [Clusters -> TaskCounts]
    BY <1>3, TasksTyped DEF Typed, FlowFits
  <1>5. \A d \in Clusters, j \in Jobs :
          /\ tasks'[d][j] <= tasks[d][j]
          /\ Manager \in {"deployment", "kubernetes"} => tasks'[d][j] \in {0, tasks[d][j]}
    <2>1. \A d \in Clusters : tasks[d] \in [Jobs -> Nat]
      BY DEF Typed, FlowFits, TaskCounts
    <2>2. ASSUME NEW i \in Jobs, NEW n \in Nat, tasks' = [tasks EXCEPT ![c][i] = n],
                 n <= tasks[c][i],
                 Manager \in {"deployment", "kubernetes"} => n \in {0, tasks[c][i]},
                 NEW d \in Clusters, NEW j \in Jobs
          PROVE  /\ tasks'[d][j] <= tasks[d][j]
                 /\ Manager \in {"deployment", "kubernetes"} => tasks'[d][j] \in {0, tasks[d][j]}
      BY <2>1, <2>2 DEF Typed, FlowFits
    <2>3. CASE tasks' = tasks
      BY <2>1, <2>3
    <2> QED
      BY <1>3, <2>2, <2>3
  <1>6. UNCHANGED <<apiVars, created, schedulerVars, submitted, beatVars, restarts>>
    BY DEF RemoveFromCluster, RemoveRaises, TasksVanish, flowVars
  <1>7. failures' \in 0 .. MaxFailures /\ losses' \in 0 .. MaxLosses
    <2>1. failures' = failures \/ (failures < MaxFailures /\ failures' = failures + 1)
      BY DEF RemoveFromCluster, RemoveRaises, TasksVanish
    <2>2. losses' = losses \/ (losses < MaxLosses /\ losses' = losses + 1)
      BY DEF RemoveFromCluster, RemoveRaises, TasksVanish
    <2>3. failures \in 0 .. MaxFailures /\ losses \in 0 .. MaxLosses
      BY DEF Typed, BoundsFit
    <2> QED
      BY <2>1, <2>2, <2>3, JobFlowAssumption
  <1>8. FlowFits' /\ BoundsFit'
    BY <1>2, <1>4, <1>6, <1>7 DEF Typed, FlowFits, BoundsFit, apiVars, beatVars
  <1> QED
    BY <1>1, <1>5, <1>6, <1>8, SchedulerKept, BeatKept DEF beatVars, Typed, Grown

-----------------------------------------------------------------------------
(* The job controllers.                                                    *)
Working == [stage : {"updating", "cleanup"}, found : TaskCounts, view : Views, todo : SUBSET Jobs]

LEMMA WorkingTyped ==
  ASSUME NEW c \in Clusters, NEW stage \in {"updating", "cleanup"}, NEW found \in TaskCounts,
         NEW view \in Views, NEW todo \in SUBSET PlacedHere(c, view)
  PROVE  LET b == [stage |-> stage, found |-> found, view |-> view, todo |-> todo]
         IN  b \in Working /\ b \in Beat /\ TodoFits(c, b)
  <1> DEFINE b == [stage |-> stage, found |-> found, view |-> view, todo |-> todo]
  <1>1. todo \in SUBSET Jobs
    BY DEF PlacedHere
  <1>2. b \in Working /\ b.view = view /\ b.todo = todo
    BY <1>1 DEF Working
  <1>3. TodoFits(c, b)
    BY <1>2 DEF TodoFits
  <1> HIDE DEF b
  <1>4. b \in Beat
    BY <1>2 DEF Beat, Working
  <1> QED
    BY <1>2, <1>3, <1>4 DEF b

LEMMA WorkingStage ==
  ASSUME Typed, NEW c \in Clusters, beat[c].stage \in {"updating", "cleanup"}
  PROVE  beat[c] \in Working /\ beat[c].todo \subseteq PlacedHere(c, beat[c].view)
  <1>1. beat[c] \in Beat /\ TodoFits(c, beat[c])
    BY DEF Typed, BeatFits
  <1>2. beat[c] \in Working
    BY <1>1 DEF Beat, Working
  <1> QED
    BY <1>1, <1>2 DEF TodoFits

LEMMA RestingTyped ==
  ASSUME NEW c \in Clusters
  PROVE  /\ Idle \in Beat /\ TodoFits(c, Idle) /\ Idle.stage = "idle"
         /\ [stage |-> "dead"] \in Beat /\ TodoFits(c, [stage |-> "dead"])
  BY DEF Idle, Beat, TodoFits

LEMMA MovesTyped ==
  ASSUME Typed, NEW c \in Clusters, NEW b \in Beat, TodoFits(c, b), beat' = [beat EXCEPT ![c] = b]
  PROVE  /\ beat' \in [Clusters -> Beat] /\ \A d \in Clusters : TodoFits(d, beat'[d])
         /\ beat'[c] = b /\ \A d \in Clusters : d # c => beat'[d] = beat[d]
  BY DEF Typed, BeatFits

(* A job is done: the rest is still to do.                                 *)
LEMMA LessToDo ==
  ASSUME Typed, NEW c \in Clusters, beat[c].stage \in {"updating", "cleanup"}, NEW j \in Jobs,
         beat' = [beat EXCEPT ![c].todo = beat[c].todo \ {j}]
  PROVE  /\ beat' \in [Clusters -> Beat] /\ \A d \in Clusters : TodoFits(d, beat'[d])
         /\ \A d \in Clusters : d # c => beat'[d] = beat[d]
         /\ beat'[c] \in Working
         /\ beat'[c].stage = beat[c].stage /\ beat'[c].view = beat[c].view
         /\ beat'[c].found = beat[c].found
         /\ beat'[c].todo = beat[c].todo \ {j}
  <1> DEFINE b == [beat[c] EXCEPT !.todo = beat[c].todo \ {j}]
  <1>1. beat[c] \in Working /\ beat[c].todo \subseteq PlacedHere(c, beat[c].view)
    BY WorkingStage
  <1>2. /\ b \in Working /\ b.stage = beat[c].stage /\ b.view = beat[c].view
        /\ b.found = beat[c].found
        /\ b.todo = beat[c].todo \ {j}
    BY <1>1 DEF Working
  <1>3. beat' = [beat EXCEPT ![c] = b]
    OBVIOUS
  <1> HIDE DEF b
  <1>4. b \in Beat /\ TodoFits(c, b)
    BY <1>1, <1>2 DEF Beat, Working, TodoFits
  <1> QED
    BY <1>2, <1>3, <1>4, MovesTyped

LEMMA EndBeatMoves ==
  ASSUME Typed, NEW c \in Clusters, NEW counter \in Nat, EndBeat(c, counter)
  PROVE  /\ beat' \in [Clusters -> Beat] /\ \A d \in Clusters : TodoFits(d, beat'[d])
         /\ \A d \in Clusters : d # c => beat'[d] = beat[d] /\ retries'[d] = retries[d]
         /\ cacheAt' \in [Clusters -> 0 .. Len(log)]
         /\ retries' \in [Clusters -> Nat] /\ retries'[c] = counter
         /\ counter <= RetryLimit => beat'[c] = Idle
  <1>1. /\ retries' \in [Clusters -> Nat] /\ retries'[c] = counter
        /\ \A d \in Clusters : d # c => retries'[d] = retries[d]
    BY DEF EndBeat, Typed, BeatFits
  <1>2. CASE counter > RetryLimit
    <2>1. PICK k \in cacheAt[c] .. Len(log) :
            /\ cacheAt' = [cacheAt EXCEPT ![c] = k]
            /\ Goto(c, [stage |-> "cleanup", found |-> NoTasks, view |-> StoreAt(k),
                        todo |-> PlacedHere(c, StoreAt(k))])
      BY <1>2 DEF EndBeat
    <2>2. k \in 0 .. Len(log) /\ cacheAt' \in [Clusters -> 0 .. Len(log)]
      BY <2>1, LogFacts DEF Typed, BeatFits
    <2>3. NoTasks \in TaskCounts
      BY DEF NoTasks, TaskCounts
    <2> DEFINE b == [stage |-> "cleanup", found |-> NoTasks, view |-> StoreAt(k),
                     todo |-> PlacedHere(c, StoreAt(k))]
    <2>4. b \in Beat /\ TodoFits(c, b)
      BY <2>2, <2>3, StoreAtAnnounced, WorkingTyped DEF Typed
    <2>5. beat' = [beat EXCEPT ![c] = b]
      BY <2>1 DEF Goto
    <2> HIDE DEF b
    <2>6. ~(counter <= RetryLimit)
      BY <1>2, JobFlowAssumption
    <2> QED
      BY <1>1, <2>2, <2>4, <2>5, <2>6, MovesTyped
  <1>3. CASE ~(counter > RetryLimit)
    <2>1. beat' = [beat EXCEPT ![c] = Idle] /\ cacheAt' = cacheAt
      BY <1>3 DEF EndBeat, Goto
    <2> QED
      BY <1>1, <2>1, MovesTyped, RestingTyped DEF Typed, BeatFits
  <1> QED
    BY <1>2, <1>3

LEMMA EndBeatTyped ==
  ASSUME Typed, NEW c \in Clusters, NEW counter \in Nat, EndBeat(c, counter), UNCHANGED apiVars
  PROVE  BeatFits'
  BY EndBeatMoves DEF BeatFits, apiVars

(* The copy of the cache a heartbeat works on.                             *)
LEMMA BeatCopiesMoves ==
  ASSUME Typed, NEW c \in Clusters, BeatCopies(c)
  PROVE  /\ beat' \in [Clusters -> Beat] /\ \A d \in Clusters : TodoFits(d, beat'[d])
         /\ \A d \in Clusters : d # c => beat'[d] = beat[d]
         /\ cacheAt' \in [Clusters -> 0 .. Len(log)]
         /\ beat'[c].stage = "updating" /\ beat'[c].found = beat[c].found
         /\ \A j \in beat'[c].todo : beat[c].found[j] > 0
         /\ \E k \in 0 .. Len(log) : beat'[c].view = StoreAt(k)
  <1>1. PICK k \in cacheAt[c] .. Len(log) :
          /\ cacheAt' = [cacheAt EXCEPT ![c] = k]
          /\ Goto(c, [stage |-> "updating", found |-> beat[c].found, view |-> StoreAt(k),
                      todo |-> {j \in PlacedHere(c, StoreAt(k)) : beat[c].found[j] > 0}])
    BY DEF BeatCopies
  <1>2. k \in 0 .. Len(log) /\ cacheAt' \in [Clusters -> 0 .. Len(log)]
    BY <1>1, LogFacts DEF Typed, BeatFits
  <1>3. beat[c].found \in TaskCounts
    <2>1. beat[c] \in Beat /\ beat[c].stage = "listed"
      BY DEF BeatCopies, Typed, BeatFits
    <2> QED
      BY <2>1 DEF Beat
  <1> DEFINE todo == {j \in PlacedHere(c, StoreAt(k)) : beat[c].found[j] > 0}
             b == [stage |-> "updating", found |-> beat[c].found, view |-> StoreAt(k), todo |-> todo]
  <1>4. b \in Beat /\ TodoFits(c, b) /\ b.view = StoreAt(k) /\ b.stage = "updating"
        /\ b.found = beat[c].found /\ \A j \in b.todo : beat[c].found[j] > 0
    <2>1. todo \in SUBSET PlacedHere(c, StoreAt(k)) /\ \A j \in todo : beat[c].found[j] > 0
      OBVIOUS
    <2> HIDE DEF todo
    <2> QED
      BY <1>2, <1>3, <2>1, StoreAtAnnounced, WorkingTyped DEF Typed
  <1>5. beat' = [beat EXCEPT ![c] = b]
    BY <1>1 DEF Goto
  <1> HIDE DEF b
  <1> QED
    BY <1>2, <1>4, <1>5, MovesTyped

(* What a heartbeat writes of a job.                                       *)
LEMMA BeatWrites ==
  ASSUME Typed, NEW c \in Clusters, beat[c].stage \in {"updating", "cleanup"},
         NEW j \in beat[c].todo
  PROVE  /\ j \in Jobs /\ beat[c].view[j] \in JobValue /\ c \in PlacedOn(beat[c].view[j])
         /\ WithReplicas(beat[c].view[j], c, "RUNNING", beat[c].found[j]) \in JobValue
         /\ WithReplicas(beat[c].view[j], c, "EVICTED", beat[c].view[j].replicas[c].count) \in JobValue
  <1>1. beat[c] \in Working /\ beat[c].todo \subseteq PlacedHere(c, beat[c].view)
    BY WorkingStage
  <1>2. j \in Jobs /\ beat[c].view[j] \in JobValue /\ c \in PlacedOn(beat[c].view[j])
    BY <1>1 DEF Working, Views, PlacedHere
  <1>3. beat[c].found[j] \in Nat /\ beat[c].view[j].replicas[c].count \in Nat
    BY <1>1, <1>2 DEF Working, TaskCounts, JobValue, ReplicaStatus
  <1>4. "RUNNING" \in TaskStates /\ "EVICTED" \in TaskStates
    BY DEF TaskStates
  <1> QED
    BY <1>2, <1>3, <1>4, WithReplicasTyped

LEMMA HeartbeatTyped ==
  ASSUME Typed, NEW c \in Clusters, Heartbeat(c)
  PROVE  Typed'
  <1> SUFFICES Grown /\ BeatFits' /\ UNCHANGED <<created, schedulerVars, flowVars, tasks, restarts, losses>>
               /\ beats' \in 0 .. MaxBeats /\ failures' \in 0 .. MaxFailures
    <2>1. ASSUME Grown, BeatFits', UNCHANGED <<created, schedulerVars, flowVars, tasks, restarts, losses>>,
                 beats' \in 0 .. MaxBeats, failures' \in 0 .. MaxFailures
          PROVE  Typed'
      <3>1. BoundsFit'
        BY <2>1 DEF Typed, BoundsFit
      <3> QED
        BY <2>1, <3>1, SchedulerKept, FlowKept DEF Grown, Typed
    <2> QED
      BY <2>1
  <1>1. retries[c] \in Nat /\ retries[c] + 1 \in Nat
    BY DEF Typed, BeatFits
  <1>2. beats \in 0 .. MaxBeats /\ failures \in 0 .. MaxFailures
        /\ MaxBeats \in Nat /\ MaxFailures \in Nat
    BY JobFlowAssumption DEF Typed, BoundsFit
  <1>3. CASE BeatLists(c)
    <2>1. Grown
      BY <1>3, NotWritten DEF BeatLists, Typed
    <2>2. Listed(c) \in TaskCounts
      <3>1. \A j \in Jobs : tasks[c][j] \in Nat
        BY DEF Typed, FlowFits, TaskCounts
      <3>2. \A j \in Jobs : SlurmListed(tasks[c][j]) \in Nat
        BY <3>1, JobFlowAssumption DEF SlurmListed
      <3> QED
        BY <3>1, <3>2 DEF Listed, TaskCounts
    <2> DEFINE b == [stage |-> "listed", found |-> Listed(c)]
    <2>3. b \in Beat /\ TodoFits(c, b)
      BY <2>2 DEF Beat, TodoFits
    <2>4. beat' = [beat EXCEPT ![c] = b]
      BY <1>3 DEF BeatLists, Goto
    <2> HIDE DEF b
    <2>5. BeatFits'
      BY <1>3, <2>3, <2>4, MovesTyped DEF BeatLists, Typed, BeatFits, apiVars
    <2> QED
      BY <1>2, <1>3, <2>1, <2>5 DEF BeatLists
  <1>4. CASE BeatListRaises(c)
    <2>1. Grown
      BY <1>4, NotWritten DEF BeatListRaises, Typed
    <2>2. BeatFits'
      BY <1>1, <1>4, EndBeatTyped DEF BeatListRaises
    <2> QED
      BY <1>2, <1>4, <2>1, <2>2 DEF BeatListRaises
  <1>5. CASE BeatCopies(c)
    <2>1. Grown
      BY <1>5, NotWritten DEF BeatCopies, Typed
    <2>2. BeatFits'
      BY <1>5, BeatCopiesMoves DEF BeatCopies, Typed, BeatFits, apiVars
    <2> QED
      BY <1>2, <1>5, <2>1, <2>2 DEF BeatCopies
  <1>6. CASE BeatEnds(c)
    <2>1. Grown
      BY <1>6, NotWritten DEF BeatEnds, Typed
    <2>2. BeatFits'
      BY <1>1, <1>6, EndBeatTyped DEF BeatEnds
    <2> QED
      BY <1>2, <1>6, <2>1, <2>2 DEF BeatEnds
  <1>7. CASE CleanupEnds(c)
    <2>1. Grown
      BY <1>7, NotWritten DEF CleanupEnds, Typed
    <2>2. BeatFits'
      BY <1>7, RestingTyped, MovesTyped DEF CleanupEnds, Goto, Typed, BeatFits, apiVars
    <2> QED
      BY <1>2, <1>7, <2>1, <2>2 DEF CleanupEnds
  <1>8. ASSUME NEW j \in Jobs, BeatUpdates(c, j)
        PROVE  /\ Grown /\ BeatFits'
               /\ UNCHANGED <<created, schedulerVars, flowVars, tasks, restarts, losses>>
               /\ beats' \in 0 .. MaxBeats /\ failures' \in 0 .. MaxFailures
    <2>1. Grown /\ BeatFits'
      <3>1. CASE Stored(j)
        <4>1. Grown
          BY <1>8, <3>1, BeatWrites, PutGrows DEF BeatUpdates, Typed
        <4>2. \A d \in Clusters : cacheAt[d] \in 0 .. Len(log')
          BY <4>1 DEF Grown, Typed, BeatFits
        <4>3. /\ beat' = [beat EXCEPT ![c].todo = beat[c].todo \ {j}]
              /\ beat[c].stage = "updating" /\ UNCHANGED <<cacheAt, retries>>
          BY <1>8, <3>1 DEF BeatUpdates
        <4>4. beat' \in [Clusters -> Beat] /\ \A d \in Clusters : TodoFits(d, beat'[d])
          BY <4>3, LessToDo
        <4> QED
          BY <4>1, <4>2, <4>3, <4>4 DEF Typed, BeatFits
      <3>2. CASE ~Stored(j)
        BY <1>1, <1>8, <3>2, NotWritten, EndBeatTyped DEF BeatUpdates, Typed
      <3> QED
        BY <3>1, <3>2
    <2> QED
      BY <1>2, <1>8, <2>1 DEF BeatUpdates
  <1>9. ASSUME NEW j \in Jobs, CleanupEvicts(c, j)
        PROVE  /\ Grown /\ BeatFits'
               /\ UNCHANGED <<created, schedulerVars, flowVars, tasks, restarts, losses>>
               /\ beats' \in 0 .. MaxBeats /\ failures' \in 0 .. MaxFailures
    <2>1. Grown /\ BeatFits'
      <3>1. CASE Stored(j)
        <4>1. Grown
          BY <1>9, <3>1, BeatWrites, PutGrows DEF CleanupEvicts, Typed
        <4>2. \A d \in Clusters : cacheAt[d] \in 0 .. Len(log')
          BY <4>1 DEF Grown, Typed, BeatFits
        <4>3. /\ beat' = [beat EXCEPT ![c].todo = beat[c].todo \ {j}]
              /\ beat[c].stage = "cleanup" /\ UNCHANGED <<cacheAt, retries>>
          BY <1>9, <3>1 DEF CleanupEvicts
        <4>4. beat' \in [Clusters -> Beat] /\ \A d \in Clusters : TodoFits(d, beat'[d])
          BY <4>3, LessToDo
        <4> QED
          BY <4>1, <4>2, <4>3, <4>4 DEF Typed, BeatFits
      <3>2. CASE ~Stored(j)
        <4>1. Grown
          BY <1>9, <3>2, NotWritten DEF CleanupEvicts, Typed
        <4>2. beat' = [beat EXCEPT ![c] = [stage |-> "dead"]] /\ UNCHANGED <<cacheAt, retries, apiVars>>
          BY <1>9, <3>2 DEF CleanupEvicts, Goto
        <4> QED
          BY <4>1, <4>2, RestingTyped, MovesTyped DEF Typed, BeatFits, apiVars
      <3> QED
        BY <3>1, <3>2
    <2> QED
      BY <1>2, <1>9, <2>1 DEF CleanupEvicts
  <1> QED
    BY <1>3, <1>4, <1>5, <1>6, <1>7, <1>8, <1>9 DEF Heartbeat

LEMMA InitTyped == Init => Typed
  <1> SUFFICES ASSUME Init PROVE Typed
    OBVIOUS
  <1>1. log = << >> /\ jobs = [j \in Jobs |-> NoJob]
    BY DEF Init, Store!Init
  <1>2. log \in Seq(Store!Event) /\ workload \in Seq(Entry) /\ Len(log) = 0
    BY <1>1, EmptySeq DEF Init
  <1>3. StoreFits
    BY <1>1, <1>2 DEF StoreFits
  <1>4. SchedulerFits
    <2>1. Known \in SUBSET Clusters
      BY DEF Known
    <2>2. Cardinality(Known) \in Nat
      BY <2>1, JobFlowAssumption, FS_Subset, FS_CardinalityType
    <2> QED
      BY <1>2, <2>2 DEF Init, SchedulerFits
  <1>5. FlowFits
    BY <1>2 DEF Init, FlowFits, NoTasks, TaskCounts
  <1>6. BeatFits
    BY <1>2, RestingTyped DEF Init, BeatFits
  <1>7. BoundsFit
    BY JobFlowAssumption DEF Init, BoundsFit
  <1> QED
    BY <1>3, <1>4, <1>5, <1>6, <1>7 DEF Typed

LEMMA StutterTyped ==
  ASSUME Typed, UNCHANGED vars
  PROVE  Typed'
  <1>1. Grown
    BY NotWritten DEF Typed, vars
  <1>2. BoundsFit'
    BY DEF vars, beatVars, Typed, BoundsFit
  <1> QED
    BY <1>1, <1>2, SchedulerKept, FlowKept, BeatKept DEF vars, beatVars, Typed, Grown

LEMMA NextTyped == Typed /\ [Next]_vars => Typed'
  <1> SUFFICES ASSUME Typed, Next PROVE Typed'
    BY StutterTyped
  <1>1. ASSUME NEW j \in Jobs, CreateJob(j) \/ DeleteJob(j) PROVE Typed'
    BY <1>1, UserTyped
  <1>2. CASE Schedule \/ SchedulerRestarts
    BY <1>2, JobEventTyped, ClusterEventTyped, RestartTyped DEF Schedule
  <1>3. ASSUME NEW c \in Clusters,
               \/ ClusterIsAdded(c) \/ ClusterBecomesReady(c)
               \/ Flow(c) \/ Heartbeat(c)
               \/ \E j \in Jobs : TasksVanish(c, j)
        PROVE  Typed'
    BY <1>3, ClusterTyped, SubmitTyped, WriteBackTyped, TasksOnlyGo, HeartbeatTyped DEF Flow
  <1> QED
    BY <1>1, <1>2, <1>3 DEF Next

(* The controllers keep the types of the store, of its log, of their       *)
(* queues and of what they hold between two steps; a heartbeat only writes *)
(* jobs that its view of the cache has, placed on its cluster.             *)
THEOREM TypeCorrect == Spec => []TypeOK
  <1>1. Init => Typed
    BY InitTyped
  <1>2. Typed /\ [Next]_vars => Typed'
    BY NextTyped
  <1>3. Typed => TypeOK
    BY TypedIsTypeOK
  <1> QED
    BY <1>1, <1>2, <1>3, PTL DEF Spec

-----------------------------------------------------------------------------
(* Why a placement is final, if no name is used again, and no job          *)
(* controller fails so often that it gives its cluster up.                 *)
OneLife == MaxCreates <= 1 /\ MaxBeats <= RetryLimit

IsUpdate(i, j) == log[i].type = "UPDATE" /\ log[i].name = j

Unplaced(j) == \A i \in 1 .. Len(log) : ~IsUpdate(i, j)

\* v is placed where an update of j has placed it.
Placing(j, v) == \E i \in 1 .. Len(log) : IsUpdate(i, j) /\ PlacedOn(log[i].value) = PlacedOn(v)

Good(v) == v.phase # "INIT" /\ ~IsEvicted(v)
Faithful(j, v) == Placing(j, v) /\ Good(v)

(* All updates of a job say the same of where it is.                       *)
OnePlacement ==
  \A i, k \in 1 .. Len(log) :
    /\ log[i].type = "UPDATE" /\ log[k].type = "UPDATE" /\ log[i].name = log[k].name
    => PlacedOn(log[i].value) = PlacedOn(log[k].value)

(* A name is added once, as a new job.                                     *)
OneAddition ==
  /\ \A i \in 1 .. Len(log) : created[log[i].name] # 0
  /\ \A i \in 1 .. Len(log) : log[i].type = "ADD" => log[i].value = NewJob
  /\ \A i, k \in 1 .. Len(log) :
       log[i].type = "ADD" /\ log[k].type = "ADD" /\ log[i].name = log[k].name => i = k

EventsAreGood ==
  \A i \in 1 .. Len(log) : /\ ~IsEvicted(log[i].value)
                           /\ log[i].type = "UPDATE" => log[i].value.phase # "INIT"

StoreIsFaithful ==
  \A j \in Jobs : Stored(j) =>
    /\ created[j] # 0
    /\ \/ jobs[j] = NewJob /\ Unplaced(j)
       \/ Faithful(j, jobs[j])

History == OnePlacement /\ OneAddition /\ EventsAreGood /\ StoreIsFaithful

LEMMA FaithfulStays ==
  ASSUME Grown, NEW j, NEW v, Faithful(j, v)
  PROVE  Faithful(j, v)'
  <1>1. PICK i \in 1 .. Len(log) : IsUpdate(i, j) /\ PlacedOn(log[i].value) = PlacedOn(v)
    BY DEF Faithful, Placing
  <1>2. i \in 1 .. Len(log') /\ log'[i] = log[i]
    BY DEF Grown
  <1>3. Placing(j, v)'
    BY <1>1, <1>2 DEF Placing, IsUpdate, PlacedOn
  <1> QED
    BY <1>3 DEF Faithful, Good, IsEvicted

LEMMA HistoryKept ==
  ASSUME History, UNCHANGED <<apiVars, created>>
  PROVE  History'
  BY DEF History, OnePlacement, OneAddition, EventsAreGood, StoreIsFaithful, apiVars, Stored,
         Unplaced, Faithful, Placing, IsUpdate

LEMMA StoreFaithfulPrimed ==
  ASSUME \A d \in Jobs : \A w :
           w = jobs'[d] /\ w # NoJob =>
             created'[d] # 0 /\ ((w = NewJob /\ Unplaced(d)') \/ Faithful(d, w)')
  PROVE  StoreIsFaithful'
  BY DEF StoreIsFaithful, Stored, Unplaced, IsUpdate, Faithful, Placing, PlacedOn, Good, IsEvicted

LEMMA PutHistory ==
  ASSUME Typed, History, NEW j \in Jobs, NEW v \in JobValue, PutJob(j, v), created' = created,
         Good(v), Unplaced(j) \/ Placing(j, v)
  PROVE  History'
  <1>1. /\ Grown /\ jobs[j] # NoJob /\ jobs' = [jobs EXCEPT ![j] = v]
        /\ Len(log') = Len(log) + 1
        /\ log'[Len(log) + 1] = [type |-> "UPDATE", name |-> j, value |-> v]
    BY PutGrows DEF Typed
  <1> DEFINE L == Len(log)
             e == log'[L + 1]
  <1>2. e.type = "UPDATE" /\ e.name = j /\ e.value = v
    BY <1>1
  <1>3. L \in Nat /\ Len(log') = L + 1 /\ (\A i \in 1 .. L : log'[i] = log[i])
        /\ (\A i \in 1 .. L + 1 : i \in 1 .. L \/ i = L + 1)
    BY <1>1 DEF Grown
  <1> HIDE DEF e, L
  <1>4. \A i \in 1 .. L : IsUpdate(i, j) => PlacedOn(log[i].value) = PlacedOn(v)
    <2> SUFFICES ASSUME NEW i \in 1 .. L, IsUpdate(i, j)
                 PROVE  PlacedOn(log[i].value) = PlacedOn(v)
      OBVIOUS
    <2>1. PICK m \in 1 .. L : IsUpdate(m, j) /\ PlacedOn(log[m].value) = PlacedOn(v)
      BY DEF L, Unplaced, Placing
    <2>2. PlacedOn(log[i].value) = PlacedOn(log[m].value)
      BY <2>1 DEF L, History, OnePlacement, IsUpdate
    <2> QED
      BY <2>1, <2>2
  <1>5. OnePlacement'
    <2> SUFFICES ASSUME NEW i \in 1 .. L + 1, NEW k \in 1 .. L + 1,
                        log'[i].type = "UPDATE", log'[k].type = "UPDATE", log'[i].name = log'[k].name
                 PROVE  PlacedOn(log'[i].value) = PlacedOn(log'[k].value)
      BY <1>3 DEF OnePlacement, PlacedOn
    <2>1. CASE i \in 1 .. L /\ k \in 1 .. L
      BY <1>3, <2>1 DEF L, History, OnePlacement
    <2>2. CASE i \in 1 .. L /\ k = L + 1
      BY <1>2, <1>3, <1>4, <2>2 DEF e, IsUpdate
    <2>3. CASE i = L + 1 /\ k \in 1 .. L
      BY <1>2, <1>3, <1>4, <2>3 DEF e, IsUpdate
    <2> QED
      BY <1>3, <2>1, <2>2, <2>3
  <1>6. OneAddition'
    <2>1. created[j] # 0
      BY <1>1 DEF History, StoreIsFaithful, Stored
    <2>2. \A i \in 1 .. L + 1 : log'[i].type = "ADD" => i \in 1 .. L
      BY <1>2, <1>3 DEF e
    <2>3. \A i \in 1 .. L + 1 : created[log'[i].name] # 0
      BY <1>2, <1>3, <2>1 DEF e, L, History, OneAddition
    <2> QED
      BY <1>3, <2>2, <2>3 DEF L, History, OneAddition
  <1>7. EventsAreGood'
    <2>1. ASSUME NEW i \in 1 .. L + 1
          PROVE  ~IsEvicted(log'[i].value) /\ (log'[i].type = "UPDATE" => log'[i].value.phase # "INIT")
      <3>1. CASE i \in 1 .. L
        BY <1>3, <3>1 DEF L, History, EventsAreGood
      <3>2. CASE i = L + 1
        BY <1>2, <3>2 DEF e, Good
      <3> QED
        BY <1>3, <3>1, <3>2
    <2> QED
      BY <1>3, <2>1 DEF EventsAreGood, IsEvicted
  <1>8. StoreIsFaithful'
    <2>1. ASSUME NEW d \in Jobs, NEW w, w = jobs'[d], w # NoJob
          PROVE  created'[d] # 0 /\ ((w = NewJob /\ Unplaced(d)') \/ Faithful(d, w)')
      <3>1. CASE d = j
        <4>1. w = v
          BY <1>1, <2>1, <3>1 DEF Typed, StoreFits
        <4>2. \E i \in 1 .. L + 1 : log'[i].type = "UPDATE" /\ log'[i].name = j
                                    /\ PlacedOn(log'[i].value) = PlacedOn(v)
          BY <1>2, <1>3 DEF e
        <4>3. Faithful(j, v)'
          BY <1>3, <4>2 DEF Faithful, Placing, IsUpdate, PlacedOn, Good, IsEvicted
        <4>4. created[j] # 0
          BY <1>1 DEF History, StoreIsFaithful, Stored
        <4> QED
          BY <3>1, <4>1, <4>3, <4>4
      <3>2. CASE d # j
        <4>1. w = jobs[d]
          BY <1>1, <2>1, <3>2 DEF Typed, StoreFits
        <4>2. Unplaced(d) => Unplaced(d)'
          BY <1>2, <1>3, <3>2 DEF e, L, Unplaced, IsUpdate
        <4>3. Faithful(d, w) => Faithful(d, w)'
          BY <1>1, FaithfulStays
        <4> QED
          BY <2>1, <4>1, <4>2, <4>3 DEF History, StoreIsFaithful, Stored
      <3> QED
        BY <3>1, <3>2
    <2>2. created' = created
      OBVIOUS
    <2> QED
      BY <2>1, <2>2, StoreFaithfulPrimed
  <1> QED
    BY <1>5, <1>6, <1>7, <1>8 DEF History

(* A creation is the first event about its name.                           *)
LEMMA CreateAnnounces ==
  ASSUME Typed, NEW j \in Jobs, CreateJob(j)
  PROVE  /\ Grown /\ Len(log') = Len(log) + 1
         /\ log'[Len(log) + 1] = [type |-> "ADD", name |-> j, value |-> NewJob]
         /\ jobs' = [jobs EXCEPT ![j] = NewJob]
         /\ created[j] < MaxCreates /\ created' = [created EXCEPT ![j] = created[j] + 1]
  <1> DEFINE e == [type |-> "ADD", name |-> j, value |-> NewJob]
  <1>1. e \in Store!Event
    BY NewJobTyped DEF Store!Event
  <1>2. log' = Append(log, e) /\ jobs' = [jobs EXCEPT ![j] = NewJob]
    BY DEF CreateJob, Store!Add, Store!Announce
  <1>3. created[j] < MaxCreates /\ created' = [created EXCEPT ![j] = created[j] + 1]
    BY DEF CreateJob
  <1> HIDE DEF e
  <1>4. Grown /\ Len(log') = Len(log) + 1 /\ log'[Len(log) + 1] = e
    BY <1>1, <1>2, Announced, NewJobTyped DEF Typed
  <1> QED
    BY <1>2, <1>3, <1>4 DEF e

LEMMA CreateHistory ==
  ASSUME Typed, OneLife, History, NEW j \in Jobs, CreateJob(j)
  PROVE  /\ History'
         /\ created[j] = 0 /\ \A i \in 1 .. Len(log) : log[i].name # j
  <1> DEFINE L == Len(log)
             e == log'[L + 1]
  <1>0. e = [type |-> "ADD", name |-> j, value |-> NewJob]
    BY CreateAnnounces
  <1>1. /\ Grown /\ jobs' = [jobs EXCEPT ![j] = NewJob] /\ Len(log') = L + 1
        /\ e.type = "ADD" /\ e.name = j /\ e.value = NewJob
        /\ created' = [created EXCEPT ![j] = created[j] + 1]
    BY <1>0, CreateAnnounces
  <1>2. created[j] = 0
    <2>1. MaxCreates \in Nat /\ MaxCreates <= 1
      BY JobFlowAssumption DEF OneLife
    <2>2. created[j] \in 0 .. MaxCreates
      BY DEF Typed, BoundsFit
    <2>3. created[j] < MaxCreates
      BY CreateAnnounces
    <2> QED
      BY <2>1, <2>2, <2>3
  <1>3. L \in Nat /\ (\A i \in 1 .. L : log'[i] = log[i])
        /\ (\A i \in 1 .. L + 1 : i \in 1 .. L \/ i = L + 1)
    BY <1>1 DEF Grown
  <1> HIDE DEF e, L
  <1>4. \A i \in 1 .. L : log[i].name # j
    BY <1>2 DEF L, History, OneAddition
  <1>5. created'[j] # 0 /\ \A d \in Jobs : d # j => created'[d] = created[d]
    BY <1>1, <1>2 DEF Typed, BoundsFit
  <1>6. \A i \in 1 .. L : log[i].name \in Jobs
    BY LogFacts DEF L, Typed
  <1>7. OnePlacement'
    <2>1. \A i \in 1 .. L + 1 : log'[i].type = "UPDATE" => i \in 1 .. L
      BY <1>1, <1>3 DEF e
    <2> QED
      BY <1>1, <1>3, <2>1 DEF L, History, OnePlacement, PlacedOn
  <1>8. OneAddition'
    <2>1. \A i \in 1 .. L + 1 : created'[log'[i].name] # 0
      BY <1>1, <1>3, <1>4, <1>5, <1>6 DEF e, L, History, OneAddition
    <2>2. \A i \in 1 .. L + 1 : log'[i].type = "ADD" => log'[i].value = NewJob
      BY <1>1, <1>3 DEF e, L, History, OneAddition
    <2>3. ASSUME NEW i \in 1 .. L + 1, NEW k \in 1 .. L + 1, log'[i].type = "ADD",
                 log'[k].type = "ADD", log'[i].name = log'[k].name
          PROVE  i = k
      BY <1>1, <1>3, <1>4, <2>3 DEF e, L, History, OneAddition
    <2> QED
      BY <1>1, <2>1, <2>2, <2>3 DEF OneAddition, NewJob, NoReplicas
  <1>9. EventsAreGood'
    <2>1. ASSUME NEW i \in 1 .. L + 1
          PROVE  ~IsEvicted(log'[i].value) /\ (log'[i].type = "UPDATE" => log'[i].value.phase # "INIT")
      <3>1. CASE i \in 1 .. L
        BY <1>3, <3>1 DEF L, History, EventsAreGood
      <3>2. CASE i = L + 1
        BY <1>1, <3>2, NewJobTyped DEF e
      <3> QED
        BY <1>3, <3>1, <3>2
    <2> QED
      BY <1>1, <2>1 DEF EventsAreGood, IsEvicted
  <1>10. StoreIsFaithful'
    <2>1. ASSUME NEW d \in Jobs, NEW w, w = jobs'[d], w # NoJob
          PROVE  created'[d] # 0 /\ ((w = NewJob /\ Unplaced(d)') \/ Faithful(d, w)')
      <3>1. Unplaced(d) => Unplaced(d)'
        BY <1>1, <1>3 DEF e, L, Unplaced, IsUpdate
      <3>2. CASE d = j
        <4>1. w = NewJob
          BY <1>1, <2>1, <3>2 DEF Typed, StoreFits
        <4>2. Unplaced(j)
          BY <1>4 DEF L, Unplaced, IsUpdate
        <4> QED
          BY <1>5, <3>1, <3>2, <4>1, <4>2
      <3>3. CASE d # j
        <4>1. w = jobs[d]
          BY <1>1, <2>1, <3>3 DEF Typed, StoreFits
        <4>2. Faithful(d, w) => Faithful(d, w)'
          BY <1>1, FaithfulStays
        <4> QED
          BY <1>5, <2>1, <3>1, <3>3, <4>1, <4>2 DEF History, StoreIsFaithful, Stored
      <3> QED
        BY <3>2, <3>3
    <2> QED
      BY <2>1, StoreFaithfulPrimed
  <1> QED
    BY <1>2, <1>4, <1>7, <1>8, <1>9, <1>10 DEF L, History

LEMMA DeleteAnnounces ==
  ASSUME Typed, NEW j \in Jobs, DeleteJob(j)
  PROVE  /\ Grown /\ Len(log') = Len(log) + 1
         /\ log'[Len(log) + 1] = [type |-> "DELETE", name |-> j, value |-> jobs[j]]
         /\ jobs[j] # NoJob /\ jobs' = [jobs EXCEPT ![j] = NoJob]
         /\ created' = created
  <1> DEFINE e == [type |-> "DELETE", name |-> j, value |-> jobs[j]]
  <1>1. log' = Append(log, e) /\ jobs' = [jobs EXCEPT ![j] = NoJob] /\ jobs[j] # NoJob
    BY DEF DeleteJob, Store!Remove, Store!Announce
  <1>2. e \in Store!Event
    BY <1>1 DEF Store!Event, Typed, StoreFits
  <1>3. created' = created
    BY DEF DeleteJob
  <1> HIDE DEF e
  <1>4. Grown /\ Len(log') = Len(log) + 1 /\ log'[Len(log) + 1] = e
    BY <1>1, <1>2, Announced DEF Typed
  <1> QED
    BY <1>1, <1>3, <1>4 DEF e

LEMMA DeleteHistory ==
  ASSUME Typed, History, NEW j \in Jobs, DeleteJob(j)
  PROVE  History'
  <1> DEFINE L == Len(log)
             e == log'[L + 1]
  <1>0. e = [type |-> "DELETE", name |-> j, value |-> jobs[j]]
    BY DeleteAnnounces
  <1>1. /\ Grown /\ jobs[j] # NoJob /\ jobs' = [jobs EXCEPT ![j] = NoJob] /\ Len(log') = L + 1
        /\ e.type = "DELETE" /\ e.name = j /\ e.value = jobs[j] /\ created' = created
    BY <1>0, DeleteAnnounces
  <1>3. L \in Nat /\ (\A i \in 1 .. L : log'[i] = log[i])
        /\ (\A i \in 1 .. L + 1 : i \in 1 .. L \/ i = L + 1)
    BY <1>1 DEF Grown
  <1> HIDE DEF e, L
  <1>4. created[j] # 0 /\ ~IsEvicted(jobs[j])
    BY <1>1, NewJobTyped DEF History, StoreIsFaithful, Stored, Faithful, Good
  <1>5. \A i \in 1 .. L + 1 : log'[i].type \in {"ADD", "UPDATE"} => i \in 1 .. L
    BY <1>1, <1>3 DEF e
  <1>6. OnePlacement'
    BY <1>1, <1>3, <1>5 DEF L, History, OnePlacement, PlacedOn
  <1>7. OneAddition'
    <2>1. \A i \in 1 .. L + 1 : created[log'[i].name] # 0
      BY <1>1, <1>3, <1>4 DEF e, L, History, OneAddition
    <2>2. \A i \in 1 .. L + 1 : log'[i].type = "ADD" => log'[i].value = NewJob
      BY <1>3, <1>5 DEF L, History, OneAddition
    <2>3. ASSUME NEW i \in 1 .. L + 1, NEW k \in 1 .. L + 1, log'[i].type = "ADD",
                 log'[k].type = "ADD", log'[i].name = log'[k].name
          PROVE  i = k
      BY <1>3, <1>5, <2>3 DEF L, History, OneAddition
    <2> QED
      BY <1>1, <2>1, <2>2, <2>3 DEF OneAddition, NewJob, NoReplicas
  <1>8. EventsAreGood'
    <2>1. ASSUME NEW i \in 1 .. L + 1
          PROVE  ~IsEvicted(log'[i].value) /\ (log'[i].type = "UPDATE" => log'[i].value.phase # "INIT")
      <3>1. CASE i \in 1 .. L
        BY <1>3, <3>1 DEF L, History, EventsAreGood
      <3>2. CASE i = L + 1
        BY <1>1, <1>4, <3>2 DEF e
      <3> QED
        BY <1>3, <3>1, <3>2
    <2> QED
      BY <1>1, <2>1 DEF EventsAreGood, IsEvicted
  <1>9. StoreIsFaithful'
    <2>1. ASSUME NEW d \in Jobs, NEW w, w = jobs'[d], w # NoJob
          PROVE  created'[d] # 0 /\ ((w = NewJob /\ Unplaced(d)') \/ Faithful(d, w)')
      <3>1. Unplaced(d) => Unplaced(d)'
        BY <1>1, <1>3, <1>5 DEF L, Unplaced, IsUpdate
      <3>2. w = jobs[d]
        BY <1>1, <2>1 DEF Typed, StoreFits
      <3>3. Faithful(d, w) => Faithful(d, w)'
        BY <1>1, FaithfulStays
      <3> QED
        BY <1>1, <2>1, <3>1, <3>2, <3>3 DEF History, StoreIsFaithful, Stored
    <2> QED
      BY <2>1, StoreFaithfulPrimed
  <1> QED
    BY <1>6, <1>7, <1>8, <1>9 DEF History

-----------------------------------------------------------------------------
(* In the scheduler's queue, and in the log ahead of it, every job is new, *)
(* and is there once.                                                      *)
QueueIsNew(queue) ==
  /\ \A n \in 1 .. Len(queue) : /\ Unplaced(queue[n].name) /\ created[queue[n].name] # 0
                                /\ ~IsEvicted(queue[n].job)
  /\ \A n, m \in 1 .. Len(queue) : queue[n].name = queue[m].name => n = m

AheadIsNew(queue, at) ==
  \A k \in (at + 1) .. Len(log) : log[k].type = "ADD" =>
    /\ Unplaced(log[k].name)
    /\ \A n \in 1 .. Len(queue) : queue[n].name # log[k].name

QueueFits(queue, at) == QueueIsNew(queue) /\ AheadIsNew(queue, at)

\* What is new in the log is about jobs whose placement is known.
NewsOfPlaced ==
  \A k \in 1 .. Len(log') : k \notin 1 .. Len(log) =>
    /\ log'[k].type # "ADD"
    /\ log'[k].type = "UPDATE" => ~Unplaced(log'[k].name)

LEMMA QueueKept ==
  ASSUME Typed, Grown, NewsOfPlaced, QueueFits(workload, schedulerAt), created' = created,
         workload' = workload, schedulerAt' = schedulerAt
  PROVE  QueueFits(workload, schedulerAt)'
  <1>1. ASSUME NEW j, Unplaced(j) PROVE Unplaced(j)'
    <2>1. ASSUME NEW i \in 1 .. Len(log'), log'[i].type = "UPDATE", log'[i].name = j PROVE FALSE
      <3>1. CASE i \in 1 .. Len(log)
        BY <1>1, <2>1, <3>1 DEF Grown, Unplaced, IsUpdate
      <3>2. CASE i \notin 1 .. Len(log)
        BY <1>1, <2>1, <3>2 DEF NewsOfPlaced
      <3> QED
        BY <3>1, <3>2
    <2> QED
      BY <2>1 DEF Unplaced, IsUpdate
  <1>2. QueueIsNew(workload)'
    <2>1. \A n \in 1 .. Len(workload) : /\ Unplaced(workload[n].name)' /\ created'[workload[n].name] # 0
                                        /\ ~IsEvicted(workload[n].job)
      BY <1>1 DEF QueueFits, QueueIsNew
    <2> QED
      BY <2>1 DEF QueueFits, QueueIsNew, IsEvicted, Unplaced, IsUpdate
  <1>3. AheadIsNew(workload, schedulerAt)'
    <2> SUFFICES ASSUME NEW k \in (schedulerAt + 1) .. Len(log'), log'[k].type = "ADD",
                        NEW j, j = log'[k].name
                 PROVE  Unplaced(j)' /\ \A n \in 1 .. Len(workload) : workload[n].name # j
      BY DEF AheadIsNew, Unplaced, IsUpdate
    <2>1. k \in 1 .. Len(log') /\ schedulerAt \in Nat
      BY DEF Grown, Typed, SchedulerFits
    <2>2. k \in 1 .. Len(log)
      BY <2>1 DEF NewsOfPlaced
    <2>3. k \in (schedulerAt + 1) .. Len(log) /\ log'[k] = log[k]
      BY <2>1, <2>2 DEF Grown
    <2>4. Unplaced(log[k].name) /\ \A n \in 1 .. Len(workload) : workload[n].name # log[k].name
      BY <2>3 DEF QueueFits, AheadIsNew
    <2> QED
      BY <1>1, <2>3, <2>4
  <1> QED
    BY <1>2, <1>3 DEF QueueFits

(* A write that says of the job's place what was said before.              *)
LEMMA Rewritten ==
  ASSUME Typed, History, QueueFits(workload, schedulerAt), NEW j \in Jobs, NEW v \in JobValue,
         Faithful(j, v), PutJob(j, v), created' = created, workload' = workload,
         schedulerAt' = schedulerAt
  PROVE  Grown /\ History' /\ QueueFits(workload, schedulerAt)'
  <1>1. History'
    BY PutHistory DEF Faithful
  <1>2. /\ Grown /\ Len(log') = Len(log) + 1 /\ Len(log) \in Nat
        /\ log'[Len(log) + 1] = [type |-> "UPDATE", name |-> j, value |-> v]
    BY PutGrows DEF Typed, Grown
  <1>3. log'[Len(log) + 1].type = "UPDATE" /\ log'[Len(log) + 1].name = j
    BY <1>2
  <1>4. ~Unplaced(j)
    BY DEF Faithful, Placing, Unplaced
  <1>5. \A k \in 1 .. Len(log') : k \notin 1 .. Len(log) => k = Len(log) + 1
    BY <1>2
  <1>6. NewsOfPlaced
    BY <1>3, <1>4, <1>5 DEF NewsOfPlaced
  <1> QED
    BY <1>1, <1>2, <1>6, QueueKept

LEMMA TailIs ==
  ASSUME NEW queue \in Seq(Entry), queue # << >>
  PROVE  /\ Len(queue) \in Nat /\ 1 \in 1 .. Len(queue)
         /\ Head(queue) = queue[1] /\ Tail(queue) \in Seq(Entry)
         /\ Len(Tail(queue)) = Len(queue) - 1
         /\ \A n \in 1 .. Len(Tail(queue)) : /\ Tail(queue)[n] = queue[n + 1]
                                             /\ n + 1 \in 1 .. Len(queue) /\ n + 1 # 1
  BY HeadTailProperties, LenProperties

(* The head of the queue is decided once.                                  *)
LEMMA DecideHeadFits ==
  ASSUME Typed, History, NEW queue \in Seq(Entry), QueueFits(queue, schedulerAt'),
         schedulerAt' \in 0 .. Len(log), DecideHead(queue), created' = created
  PROVE  Grown /\ History' /\ QueueFits(workload, schedulerAt)'
  <1> DEFINE at == schedulerAt'
  <1>0. at \in 0 .. Len(log)
    OBVIOUS
  <1>1. ASSUME workload' \in Seq(Entry), Len(workload') = Len(queue), UNCHANGED apiVars,
               \A n \in 1 .. Len(queue) : /\ workload'[n].name = queue[n].name
                                          /\ ~IsEvicted(workload'[n].job)
        PROVE  Grown /\ History' /\ QueueFits(workload, schedulerAt)'
    <2>1. Grown /\ History' /\ log' = log
      BY <1>1, NotWritten, HistoryKept DEF Typed, apiVars
    <2>2. QueueIsNew(workload)'
      BY <1>1, <2>1 DEF QueueFits, QueueIsNew, Unplaced, IsUpdate, IsEvicted
    <2>3. AheadIsNew(workload, schedulerAt)'
      BY <1>1, <2>1 DEF QueueFits, AheadIsNew, Unplaced, IsUpdate
    <2> QED
      BY <2>1, <2>2, <2>3 DEF QueueFits
  <1>2. CASE queue = << >>
    <2>1. workload' = queue /\ UNCHANGED apiVars
      BY <1>2 DEF DecideHead
    <2> QED
      BY <1>1, <2>1 DEF QueueFits, QueueIsNew
  <1>3. CASE queue # << >>
    <2> DEFINE head == queue[1]
    <2>1. head \in Entry /\ Head(queue) = head /\ 1 \in 1 .. Len(queue) /\ Len(queue) \in Nat
      BY <1>3, TailIs, ElementOfSeq
    <2>2. PICK job \in Decisions(head.job) :
            IF Stored(head.name)
            THEN PutJob(head.name, job) /\ workload' = Tail(queue)
            ELSE workload' = [queue EXCEPT ![1].job = job] /\ UNCHANGED apiVars
      BY <1>3, <2>1 DEF DecideHead
    <2>3. Unplaced(head.name) /\ ~IsEvicted(head.job) /\ head.name \in Jobs
      BY <2>1 DEF QueueFits, QueueIsNew, Entry
    <2>4. job \in JobValue /\ Good(job)
      BY <2>1, <2>2, <2>3, DecisionsTyped DEF Entry, Good
    <2>5. CASE ~Stored(head.name)
      <3> DEFINE decided == [queue[1] EXCEPT !.job = job]
      <3>1. decided \in Entry /\ decided.name = head.name /\ decided.job = job
        BY <2>1, <2>4 DEF Entry
      <3>2. workload' = [queue EXCEPT ![1] = decided] /\ UNCHANGED apiVars
        BY <2>2, <2>5
      <3> HIDE DEF decided
      <3>3. /\ workload' \in Seq(Entry) /\ Len(workload') = Len(queue) /\ workload'[1] = decided
            /\ \A n \in 1 .. Len(queue) : n # 1 => workload'[n] = queue[n]
        BY <2>1, <3>1, <3>2, ExceptSeq
      <3>4. \A n \in 1 .. Len(queue) : workload'[n].name = queue[n].name /\ ~IsEvicted(workload'[n].job)
        BY <2>4, <3>1, <3>3 DEF QueueFits, QueueIsNew, Good
      <3> QED
        BY <1>1, <3>2, <3>3, <3>4
    <2>6. CASE Stored(head.name)
      <3>1. PutJob(head.name, job) /\ workload' = Tail(queue)
        BY <2>2, <2>6
      <3>2. History'
        BY <2>3, <2>4, <3>1, PutHistory
      <3>3. /\ Grown /\ Len(log') = Len(log) + 1 /\ Len(log) \in Nat
            /\ log'[Len(log) + 1] = [type |-> "UPDATE", name |-> head.name, value |-> job]
        BY <2>3, <2>4, <3>1, PutGrows DEF Typed, Grown
      <3>4. /\ log'[Len(log) + 1].type = "UPDATE" /\ log'[Len(log) + 1].name = head.name
            /\ \A i \in 1 .. Len(log') : (i \in 1 .. Len(log) /\ log'[i] = log[i]) \/ i = Len(log) + 1
        BY <3>3 DEF Grown
      <3>5. ASSUME NEW j, j # head.name, Unplaced(j) PROVE Unplaced(j)'
        BY <3>4, <3>5 DEF Unplaced, IsUpdate
      <3>6. \A n \in 1 .. Len(workload') : /\ workload'[n] = queue[n + 1]
                                           /\ n + 1 \in 1 .. Len(queue) /\ n + 1 # 1
        BY <1>3, <3>1, TailIs
      <3>7. \A n \in 1 .. Len(workload') : workload'[n].name # head.name
        BY <2>1, <3>6 DEF QueueFits, QueueIsNew
      <3>8. QueueIsNew(workload)'
        <4>1. ASSUME NEW n \in 1 .. Len(workload'), NEW e, e = workload'[n]
              PROVE  Unplaced(e.name)' /\ created'[e.name] # 0 /\ ~IsEvicted(e.job)
          BY <3>5, <3>6, <3>7, <4>1 DEF QueueFits, QueueIsNew
        <4>2. ASSUME NEW n \in 1 .. Len(workload'), NEW m \in 1 .. Len(workload'),
                     workload'[n].name = workload'[m].name
              PROVE  n = m
          <5>0. /\ n + 1 \in 1 .. Len(queue) /\ m + 1 \in 1 .. Len(queue)
                /\ queue[n + 1].name = queue[m + 1].name
            BY <3>6, <4>2
          <5>1. n + 1 = m + 1
            BY <5>0 DEF QueueFits, QueueIsNew
          <5>2. n \in Nat /\ m \in Nat
            BY <1>3, <3>1, TailIs, LenProperties
          <5> QED
            BY <5>1, <5>2
        <4> QED
          BY <4>1, <4>2 DEF QueueIsNew, Unplaced, IsUpdate, IsEvicted
      <3>9. AheadIsNew(workload, schedulerAt)'
        <4> SUFFICES ASSUME NEW k \in (at + 1) .. Len(log'), log'[k].type = "ADD",
                            NEW j, j = log'[k].name
                     PROVE  Unplaced(j)' /\ \A n \in 1 .. Len(workload') : workload'[n].name # j
          BY DEF AheadIsNew, Unplaced, IsUpdate
        <4> HIDE DEF at
        <4>0. at \in Nat /\ k \in 1 .. Len(log')
          BY <1>0, <3>3
        <4>1. k \in 1 .. Len(log) /\ log'[k] = log[k]
          BY <3>4, <4>0
        <4>2. k \in (at + 1) .. Len(log)
          BY <1>0, <4>1, <3>3
        <4>3. Unplaced(j) /\ \A n \in 1 .. Len(queue) : queue[n].name # j
          BY <4>1, <4>2 DEF at, QueueFits, AheadIsNew
        <4> QED
          BY <2>1, <3>5, <3>6, <4>3
      <3> QED
        BY <3>2, <3>3, <3>8, <3>9 DEF QueueFits
    <2> QED
      BY <2>5, <2>6
  <1> QED
    BY <1>2, <1>3

-----------------------------------------------------------------------------
(* What the flow controllers and the job controllers hold agrees with the  *)
(* placement, and no job controller comes to its retry limit.              *)
SubmitsAgree ==
  \A c \in Clusters : submitted[c] # Idle => Faithful(submitted[c].name, submitted[c].job)

WasPlaced(j, c) == \E i \in 1 .. Len(log) : IsUpdate(i, j) /\ c \in PlacedOn(log[i].value)

TasksArePlaced == \A c \in Clusters, j \in Jobs : tasks[c][j] > 0 => WasPlaced(j, c)

BeatAgrees(b) == /\ b.stage # "cleanup"
                 /\ b.stage = "updating" => \A j \in b.todo : Faithful(j, b.view[j])

Running(b) == IF b.stage \in {"listed", "updating"} THEN 1 ELSE 0

BeatsAgree == \A c \in Clusters : /\ BeatAgrees(beat[c])
                                  /\ retries[c] + Running(beat[c]) <= beats

Final == /\ History /\ QueueFits(workload, schedulerAt)
         /\ SubmitsAgree /\ TasksArePlaced /\ BeatsAgree

LEMMA SubmitsKept ==
  ASSUME Grown, SubmitsAgree, submitted' = submitted
  PROVE  SubmitsAgree'
  <1>1. ASSUME NEW c \in Clusters, NEW s, s = submitted[c], s # Idle
        PROVE  Faithful(s.name, s.job)'
    <2>1. Faithful(s.name, s.job)
      BY <1>1 DEF SubmitsAgree
    <2> DEFINE j == s.name
               v == s.job
    <2>2. Faithful(j, v)
      BY <2>1
    <2> HIDE DEF j, v
    <2>3. Faithful(j, v)'
      BY <2>2, FaithfulStays
    <2> QED
      BY <2>3 DEF j, v
  <1> QED
    BY <1>1 DEF SubmitsAgree, Faithful, Placing, IsUpdate, PlacedOn, Good, IsEvicted

LEMMA WasPlacedStays ==
  ASSUME Grown, NEW j, NEW c, WasPlaced(j, c)
  PROVE  WasPlaced(j, c)'
  <1>1. PICK i \in 1 .. Len(log) : IsUpdate(i, j) /\ c \in PlacedOn(log[i].value)
    BY DEF WasPlaced
  <1>2. i \in 1 .. Len(log') /\ log'[i] = log[i]
    BY DEF Grown
  <1> QED
    BY <1>1, <1>2 DEF WasPlaced, IsUpdate, PlacedOn

LEMMA TasksKept ==
  ASSUME Grown, TasksArePlaced,
         \A d \in Clusters, j \in Jobs : tasks'[d][j] > 0 => tasks[d][j] > 0
  PROVE  TasksArePlaced'
  BY WasPlacedStays DEF TasksArePlaced

LEMMA BeatAgreesStays ==
  ASSUME Grown, NEW b, BeatAgrees(b)
  PROVE  BeatAgrees(b)'
  <1>1. \A j \in b.todo : Faithful(j, b.view[j]) => Faithful(j, b.view[j])'
    <2>1. ASSUME NEW j, NEW v, Faithful(j, v) PROVE Faithful(j, v)'
      BY <2>1, FaithfulStays
    <2> QED
      BY <2>1
  <1> QED
    BY <1>1 DEF BeatAgrees

LEMMA BeatsKept ==
  ASSUME Grown, BeatsAgree, UNCHANGED <<beat, retries, beats>>
  PROVE  BeatsAgree'
  <1>1. ASSUME NEW c \in Clusters, NEW b, b = beat[c]
        PROVE  BeatAgrees(b)' /\ retries'[c] + Running(b) <= beats'
    <2>1. BeatAgrees(b) /\ retries[c] + Running(b) <= beats
      BY <1>1 DEF BeatsAgree
    <2> QED
      BY <2>1, BeatAgreesStays
  <1> QED
    BY <1>1 DEF BeatsAgree, Running

(* What holds of the rest while the scheduler or a user takes a step.      *)
LEMMA RestKept ==
  ASSUME Grown, Final, UNCHANGED <<submitted, tasks, beat, retries, beats>>
  PROVE  SubmitsAgree' /\ TasksArePlaced' /\ BeatsAgree'
  BY SubmitsKept, TasksKept, BeatsKept DEF Final

LEMMA CreateFinal ==
  ASSUME Typed, OneLife, Final, NEW j \in Jobs, CreateJob(j)
  PROVE  Grown /\ Final'
  <1> DEFINE L == Len(log)
             e == log'[L + 1]
  <1>1. Grown /\ Len(log') = L + 1 /\ e = [type |-> "ADD", name |-> j, value |-> NewJob]
        /\ created' = [created EXCEPT ![j] = created[j] + 1]
    BY CreateAnnounces
  <1>2. L \in Nat /\ (\A i \in 1 .. L + 1 : (i \in 1 .. L /\ log'[i] = log[i]) \/ i = L + 1)
        /\ e.type = "ADD" /\ e.name = j
    BY <1>1 DEF Grown
  <1>3. History' /\ created[j] = 0 /\ \A i \in 1 .. L : log[i].name # j
    BY CreateHistory DEF Final
  <1>4. UNCHANGED <<schedulerAt, workload, submitted, tasks, beat, retries, beats>>
    BY DEF CreateJob, schedulerVars, flowVars, beatVars
  <1>5. schedulerAt \in 0 .. L
    BY DEF Typed, SchedulerFits
  <1> HIDE DEF e, L
  <1>6. ASSUME NEW d, Unplaced(d) PROVE Unplaced(d)'
    BY <1>1, <1>2, <1>6 DEF e, L, Unplaced, IsUpdate
  <1>7. Unplaced(j)
    BY <1>3 DEF L, Unplaced, IsUpdate
  <1>8. QueueIsNew(workload)'
    <2>1. ASSUME NEW n \in 1 .. Len(workload), NEW q, q = workload[n]
          PROVE  Unplaced(q.name)' /\ created'[q.name] # 0 /\ ~IsEvicted(q.job) /\ q.name # j
      <3>1. Unplaced(q.name) /\ created[q.name] # 0 /\ ~IsEvicted(q.job)
        BY <2>1 DEF Final, QueueFits, QueueIsNew
      <3>2. Unplaced(q.name)'
        BY <1>6, <3>1
      <3>3. workload[n] \in Entry
        BY ElementOfSeq, LenProperties DEF Typed, SchedulerFits
      <3>4. q.name \in Jobs
        BY <2>1, <3>3 DEF Entry
      <3> QED
        BY <1>1, <1>3, <3>1, <3>2, <3>4 DEF Typed, BoundsFit
    <2> QED
      BY <1>4, <2>1 DEF Final, QueueFits, QueueIsNew, Unplaced, IsUpdate, IsEvicted
  <1>9. AheadIsNew(workload, schedulerAt)'
    <2> SUFFICES ASSUME NEW k \in (schedulerAt + 1) .. Len(log'), log'[k].type = "ADD",
                        NEW d, d = log'[k].name
                 PROVE  Unplaced(d)' /\ \A n \in 1 .. Len(workload) : workload[n].name # d
      BY <1>4 DEF AheadIsNew, Unplaced, IsUpdate
    <2>1. k \in 1 .. L + 1
      BY <1>1, <1>2, <1>5
    <2>2. CASE k \in 1 .. L
      <3>1. k \in (schedulerAt + 1) .. Len(log) /\ log'[k] = log[k]
        BY <1>1, <1>2, <1>5, <2>2 DEF L, Grown
      <3>2. Unplaced(d) /\ \A n \in 1 .. Len(workload) : workload[n].name # d
        BY <3>1 DEF Final, QueueFits, AheadIsNew
      <3> QED
        BY <1>6, <3>2
    <2>3. CASE k = L + 1
      <3>1. d = j
        BY <1>2, <2>3 DEF e
      <3>2. \A n \in 1 .. Len(workload) : workload[n].name # j
        BY <1>3 DEF Final, QueueFits, QueueIsNew
      <3> QED
        BY <1>6, <1>7, <3>1, <3>2
    <2> QED
      BY <1>2, <2>1, <2>2, <2>3
  <1> QED
    BY <1>1, <1>3, <1>4, <1>8, <1>9, RestKept DEF Final, QueueFits

LEMMA DeleteFinal ==
  ASSUME Typed, Final, NEW j \in Jobs, DeleteJob(j)
  PROVE  Grown /\ Final'
  <1>1. Grown /\ Len(log) \in Nat /\ Len(log') = Len(log) + 1 /\ created' = created
        /\ log'[Len(log) + 1] = [type |-> "DELETE", name |-> j, value |-> jobs[j]]
    BY DeleteAnnounces DEF Grown
  <1>2. log'[Len(log) + 1].type = "DELETE"
    BY <1>1
  <1>3. \A k \in 1 .. Len(log') : k \notin 1 .. Len(log) => k = Len(log) + 1
    BY <1>1
  <1>4. NewsOfPlaced
    BY <1>2, <1>3 DEF NewsOfPlaced
  <1>5. UNCHANGED <<schedulerAt, workload, submitted, tasks, beat, retries, beats>>
    BY DEF DeleteJob, schedulerVars, flowVars, beatVars
  <1>6. QueueFits(workload, schedulerAt)'
    BY <1>1, <1>4, <1>5, QueueKept DEF Final
  <1> QED
    BY <1>1, <1>5, <1>6, DeleteHistory, RestKept DEF Final

(* The queue with the new job at its end.                                  *)
LEMMA JobEventQueue ==
  ASSUME Typed, Final, NEW k \in (schedulerAt + 1) .. Len(log), SchedulerWants(log[k])
  PROVE  LET entry == [name |-> log[k].name, job |-> log[k].value]
             queue == Append(workload, entry)
         IN  /\ k \in 1 .. Len(log) /\ queue \in Seq(Entry)
             /\ QueueIsNew(queue) /\ AheadIsNew(queue, k)
             /\ \A n \in 1 .. Len(queue) : (n \in 1 .. Len(workload) /\ queue[n] = workload[n])
                                           \/ queue[n] = entry
  <1> DEFINE entry == [name |-> log[k].name, job |-> log[k].value]
             queue == Append(workload, entry)
  <1>2. k \in 1 .. Len(log) /\ k \in 0 .. Len(log) /\ Len(log) \in Nat /\ schedulerAt \in Nat
    BY LogFacts DEF Typed, SchedulerFits
  <1>3. entry \in Entry /\ entry.name = log[k].name /\ entry.job = log[k].value
    BY <1>2, LogFacts DEF Typed, Entry
  <1>4. log[k].type = "ADD" /\ ~IsEvicted(log[k].value)
    BY <1>2 DEF SchedulerWants, Final, History, EventsAreGood
  <1>5. /\ Unplaced(log[k].name) /\ created[log[k].name] # 0
        /\ \A n \in 1 .. Len(workload) : workload[n].name # log[k].name
    BY <1>2, <1>4 DEF Final, QueueFits, AheadIsNew, History, OneAddition
  <1> HIDE DEF entry
  <1>6. /\ queue \in Seq(Entry) /\ Len(queue) = Len(workload) + 1 /\ Len(workload) \in Nat
        /\ queue[Len(workload) + 1] = entry
        /\ \A n \in 1 .. Len(workload) : queue[n] = workload[n]
    BY <1>3, AppendProperties, LenProperties DEF Typed, SchedulerFits
  <1> HIDE DEF queue
  <1>8. \A n \in 1 .. Len(queue) : (n \in 1 .. Len(workload) /\ queue[n] = workload[n])
                                   \/ (n = Len(workload) + 1 /\ queue[n] = entry)
    BY <1>6
  <1>9. QueueIsNew(queue)
    <2>1. \A n \in 1 .. Len(queue) : /\ Unplaced(queue[n].name) /\ created[queue[n].name] # 0
                                     /\ ~IsEvicted(queue[n].job)
      BY <1>3, <1>4, <1>5, <1>8 DEF Final, QueueFits, QueueIsNew
    <2>2. \A n, m \in 1 .. Len(queue) : queue[n].name = queue[m].name => n = m
      BY <1>3, <1>5, <1>8 DEF Final, QueueFits, QueueIsNew
    <2> QED
      BY <2>1, <2>2 DEF QueueIsNew
  <1>10. AheadIsNew(queue, k)
    <2> SUFFICES ASSUME NEW i \in (k + 1) .. Len(log), log[i].type = "ADD"
                 PROVE  /\ Unplaced(log[i].name)
                        /\ \A n \in 1 .. Len(queue) : queue[n].name # log[i].name
      BY DEF AheadIsNew
    <2>1. i \in (schedulerAt + 1) .. Len(log) /\ i \in 1 .. Len(log) /\ i # k
      BY <1>2
    <2>2. log[i].name # log[k].name
      BY <1>2, <1>4, <2>1 DEF Final, History, OneAddition
    <2>3. Unplaced(log[i].name) /\ \A n \in 1 .. Len(workload) : workload[n].name # log[i].name
      BY <2>1 DEF Final, QueueFits, AheadIsNew
    <2> QED
      BY <1>3, <1>8, <2>2, <2>3
  <1> QED
    BY <1>2, <1>6, <1>8, <1>9, <1>10 DEF queue, entry

LEMMA JobEventFinal ==
  ASSUME Typed, Final, ScheduleOnJobEvent
  PROVE  Grown /\ Final'
  <1>1. PICK k \in (schedulerAt + 1) .. Len(log) :
          /\ SchedulerWants(log[k])
          /\ schedulerAt' = k
          /\ DecideHead(Append(workload, [name |-> log[k].name, job |-> log[k].value]))
    BY DEF ScheduleOnJobEvent, NextEvent
  <1> DEFINE queue == Append(workload, [name |-> log[k].name, job |-> log[k].value])
  <1>2. /\ queue \in Seq(Entry) /\ DecideHead(queue) /\ QueueFits(queue, schedulerAt')
        /\ schedulerAt' \in 0 .. Len(log)
    BY <1>1, JobEventQueue DEF QueueFits
  <1>3. UNCHANGED <<created, submitted, tasks, beat, retries, beats>>
    BY DEF ScheduleOnJobEvent, flowVars, beatVars
  <1> HIDE DEF queue
  <1>4. Grown /\ History' /\ QueueFits(workload, schedulerAt)'
    BY <1>2, <1>3, DecideHeadFits DEF Final
  <1> QED
    BY <1>3, <1>4, RestKept DEF Final

LEMMA ClusterEventFinal ==
  ASSUME Typed, Final, ScheduleOnClusterEvent
  PROVE  Grown /\ Final'
  <1>1. UNCHANGED <<created, schedulerAt, submitted, tasks, beat, retries, beats>>
        /\ DecideHead(workload)
    BY DEF ScheduleOnClusterEvent, flowVars, beatVars
  <1>2. /\ workload \in Seq(Entry) /\ QueueFits(workload, schedulerAt')
        /\ schedulerAt' \in 0 .. Len(log)
    BY <1>1 DEF Typed, SchedulerFits, Final
  <1>3. Grown /\ History' /\ QueueFits(workload, schedulerAt)'
    BY <1>1, <1>2, DecideHeadFits DEF Final
  <1> QED
    BY <1>1, <1>3, RestKept DEF Final

(* Steps that write no job.                                                *)
LEMMA QuietKept ==
  ASSUME Typed, Final, UNCHANGED <<apiVars, created, schedulerAt, workload>>
  PROVE  Grown /\ History' /\ QueueFits(workload, schedulerAt)'
  <1>1. Grown /\ log' = log
    BY NotWritten DEF Typed, apiVars
  <1>2. NewsOfPlaced
    BY <1>1 DEF NewsOfPlaced
  <1> QED
    BY <1>1, <1>2, HistoryKept, QueueKept DEF Final

LEMMA ClusterFinal ==
  ASSUME Typed, Final, NEW c \in Clusters, ClusterIsAdded(c) \/ ClusterBecomesReady(c)
  PROVE  Grown /\ Final'
  <1>1. UNCHANGED <<apiVars, created, schedulerAt, workload, submitted, tasks, beat, retries, beats>>
    BY DEF ClusterIsAdded, ClusterBecomesReady, flowVars, beatVars
  <1> QED
    BY <1>1, QuietKept, RestKept DEF Final

LEMMA RestartFinal ==
  ASSUME Typed, Final, SchedulerRestarts
  PROVE  Grown /\ Final'
  <1>1. UNCHANGED <<apiVars, created, submitted, tasks, beat, retries, beats>>
        /\ schedulerAt' = Len(log) /\ workload' = << >>
    BY DEF SchedulerRestarts, flowVars, beatVars
  <1>2. Grown /\ log' = log /\ Len(log) \in Nat
    BY <1>1, NotWritten, LogFacts DEF Typed, apiVars
  <1>3. QueueFits(workload, schedulerAt)'
    BY <1>1, <1>2 DEF QueueFits, QueueIsNew, AheadIsNew
  <1> QED
    BY <1>1, <1>2, <1>3, HistoryKept, RestKept DEF Final

(* The flow controllers.                                                   *)
LEMMA SubmitFinal ==
  ASSUME Typed, Final, NEW c \in Clusters, Submit(c) \/ SubmitRaises(c)
  PROVE  Grown /\ Final'
  <1>1. PICK k \in 1 .. Len(log), job \in JobValue, n \in Nat, j \in Jobs :
           /\ log[k].type = "UPDATE" /\ log[k].name = j /\ log[k].value \in JobValue
           /\ c \in PlacedOn(log[k].value)
           /\ submitted' = [submitted EXCEPT ![c] = [name |-> j, job |-> job]]
           /\ job.phase = log[k].value.phase
           /\ \/ job.replicas = log[k].value.replicas
              \/ job = WithReplicas(log[k].value, c, "FAILED", log[k].value.replicas[c].count)
           /\ tasks' = tasks \/ tasks' = [tasks EXCEPT ![c][j] = n]
    BY SubmitMoves
  <1> DEFINE value == log[k].value
             s == [name |-> j, job |-> job]
  <1>2. UNCHANGED <<apiVars, created, schedulerAt, workload, beat, retries, beats>>
    BY DEF Submit, SubmitRaises, schedulerVars, beatVars
  <1>3. Grown /\ History' /\ QueueFits(workload, schedulerAt)'
    BY <1>2, QuietKept
  <1>4. PlacedOn(job) = PlacedOn(value) /\ ~IsEvicted(job)
    <2>1. ~IsEvicted(value) /\ c \in PlacedOn(value) /\ value \in JobValue
      BY <1>1 DEF Final, History, EventsAreGood
    <2>2. CASE job.replicas = value.replicas
      BY <2>1, <2>2 DEF PlacedOn, IsEvicted
    <2>3. CASE job = WithReplicas(value, c, "FAILED", value.replicas[c].count)
      <3>1. value.replicas[c].count \in Nat /\ "FAILED" \in TaskStates
        BY <2>1 DEF JobValue, ReplicaStatus, TaskStates
      <3> DEFINE count == value.replicas[c].count
                 state == "FAILED"
      <3>2. state \in TaskStates /\ count \in Nat /\ state # "NONE" /\ state # "EVICTED"
            /\ job = WithReplicas(value, c, state, count)
        BY <2>3, <3>1
      <3> HIDE DEF value, count, state
      <3>3. PlacedOn(job) = PlacedOn(value) \cup {c} /\ ~IsEvicted(job)
        BY <2>1, <3>2, ReplicasWritten
      <3> QED
        BY <2>1, <3>3
    <2> QED
      BY <1>1, <2>2, <2>3
  <1>5. Faithful(j, job)
    <2>1. job.phase # "INIT"
      BY <1>1 DEF Final, History, EventsAreGood
    <2>2. Placing(j, job)
      BY <1>1, <1>4 DEF Placing, IsUpdate
    <2> QED
      BY <1>4, <2>1, <2>2 DEF Faithful, Good
  <1>6. WasPlaced(j, c)
    BY <1>1 DEF WasPlaced, IsUpdate
  <1>7. s.name = j /\ s.job = job /\ submitted' = [submitted EXCEPT ![c] = s]
    BY <1>1
  <1> HIDE DEF s
  <1>8. Faithful(j, job)' /\ WasPlaced(j, c)'
    BY <1>3, <1>5, <1>6, FaithfulStays, WasPlacedStays
  <1>9. SubmitsAgree'
    <2>1. ASSUME NEW d \in Clusters, NEW t, t = submitted'[d], t # Idle
          PROVE  Faithful(t.name, t.job)'
      <3>1. CASE d = c
        BY <1>7, <1>8, <2>1, <3>1 DEF Typed, FlowFits
      <3>2. CASE d # c
        <4>1. t = submitted[d]
          BY <1>7, <2>1, <3>2 DEF Typed, FlowFits
        <4>2. Faithful(t.name, t.job)
          BY <2>1, <4>1 DEF Final, SubmitsAgree
        <4>3. ASSUME NEW name, NEW v, Faithful(name, v) PROVE Faithful(name, v)'
          BY <1>3, <4>3, FaithfulStays
        <4> QED
          BY <4>2, <4>3
      <3> QED
        BY <3>1, <3>2
    <2> QED
      BY <2>1 DEF SubmitsAgree, Faithful, Placing, IsUpdate, PlacedOn, Good, IsEvicted
  <1>10. TasksArePlaced'
    <2>1. ASSUME NEW d \in Clusters, NEW i \in Jobs, tasks'[d][i] > 0
          PROVE  WasPlaced(i, d)'
      <3>1. CASE tasks'[d][i] = tasks[d][i]
        <4>1. WasPlaced(i, d)
          BY <2>1, <3>1 DEF Final, TasksArePlaced
        <4> QED
          BY <1>3, <4>1, WasPlacedStays
      <3>2. CASE tasks'[d][i] # tasks[d][i]
        <4>1. d = c /\ i = j
          BY <1>1, <3>2 DEF Typed, FlowFits, TaskCounts
        <4> QED
          BY <1>8, <4>1
      <3> QED
        BY <3>1, <3>2
    <2> QED
      BY <2>1 DEF TasksArePlaced
  <1>11. BeatsAgree'
    BY <1>2, <1>3, BeatsKept DEF Final
  <1> QED
    BY <1>3, <1>9, <1>10, <1>11 DEF Final

LEMMA WriteBackFinal ==
  ASSUME Typed, Final, NEW c \in Clusters, WriteBack(c)
  PROVE  Grown /\ Final'
  <1> DEFINE s == submitted[c]
  <1>1. s \in Entry /\ s # Idle
    BY DEF WriteBack, Typed, FlowFits
  <1>2. IF Stored(s.name) THEN PutJob(s.name, s.job) ELSE UNCHANGED apiVars
    BY DEF WriteBack
  <1>3. UNCHANGED <<created, schedulerAt, workload, tasks, beat, retries, beats>>
        /\ submitted' = [submitted EXCEPT ![c] = Idle]
    BY DEF WriteBack, schedulerVars, beatVars
  <1>4. Faithful(s.name, s.job) /\ s.name \in Jobs /\ s.job \in JobValue
    BY <1>1 DEF Final, SubmitsAgree, Entry
  <1> HIDE DEF s
  <1>5. Grown /\ History' /\ QueueFits(workload, schedulerAt)'
    <2>1. CASE Stored(s.name)
      BY <1>2, <1>3, <1>4, <2>1, Rewritten DEF Final
    <2>2. CASE ~Stored(s.name)
      BY <1>2, <1>3, <2>2, QuietKept
    <2> QED
      BY <2>1, <2>2
  <1>6. SubmitsAgree'
    <2>1. ASSUME NEW d \in Clusters, NEW t, t = submitted'[d], t # Idle
          PROVE  Faithful(t.name, t.job)'
      <3>1. t = submitted[d]
        BY <1>3, <2>1 DEF Typed, FlowFits
      <3>2. Faithful(t.name, t.job)
        BY <2>1, <3>1 DEF Final, SubmitsAgree
      <3>3. ASSUME NEW name, NEW v, Faithful(name, v) PROVE Faithful(name, v)'
        BY <1>5, <3>3, FaithfulStays
      <3> QED
        BY <3>2, <3>3
    <2> QED
      BY <2>1 DEF SubmitsAgree, Faithful, Placing, IsUpdate, PlacedOn, Good, IsEvicted
  <1> QED
    BY <1>3, <1>5, <1>6, TasksKept, BeatsKept DEF Final

LEMMA RemoveFinal ==
  ASSUME Typed, Final, NEW c \in Clusters,
         RemoveFromCluster(c) \/ RemoveRaises(c) \/ \E j \in Jobs : TasksVanish(c, j)
  PROVE  Grown /\ Final'
  <1>1. /\ \A d \in Clusters, j \in Jobs : tasks'[d][j] <= tasks[d][j]
        /\ Typed' /\ UNCHANGED <<apiVars, created, schedulerVars, submitted, beatVars>>
    BY TasksOnlyGo
  <1>4. \A d \in Clusters, j \in Jobs : tasks'[d][j] > 0 => tasks[d][j] > 0
    BY <1>1 DEF Typed, FlowFits, TaskCounts
  <1>2. UNCHANGED <<created, schedulerAt, workload, submitted, beat, retries, beats>>
    BY <1>1 DEF schedulerVars, beatVars
  <1>3. Grown /\ History' /\ QueueFits(workload, schedulerAt)'
    BY <1>1, <1>2, QuietKept
  <1> QED
    BY <1>2, <1>3, <1>4, SubmitsKept, TasksKept, BeatsKept DEF Final

(* The job controllers.                                                    *)
LEMMA ViewAgrees ==
  ASSUME Typed, Final, NEW c \in Clusters, NEW k \in 0 .. Len(log),
         NEW j \in PlacedHere(c, StoreAt(k))
  PROVE  Faithful(j, StoreAt(k)[j])
  <1>1. j \in Jobs /\ StoreAt(k)[j] # NoJob /\ c \in PlacedOn(StoreAt(k)[j])
    BY DEF PlacedHere
  <1>2. PICK i \in 1 .. Len(log) : /\ log[i].name = j /\ log[i].type # "DELETE"
                                   /\ log[i].value = StoreAt(k)[j]
    BY <1>1, StoreAtAnnounced DEF Typed
  <1> DEFINE v == StoreAt(k)[j]
  <1>3. c \in PlacedOn(v) /\ log[i].value = v
    BY <1>1, <1>2
  <1> HIDE DEF v
  <1>4. log[i].type # "ADD"
    <2>1. log[i].type = "ADD" => v = NewJob
      BY <1>3 DEF Final, History, OneAddition
    <2> QED
      BY <1>3, <2>1, NewJobTyped
  <1>5. log[i].type = "UPDATE"
    BY <1>2, <1>4, LogFacts DEF Typed
  <1>6. Placing(j, v) /\ Good(v)
    <2>1. v.phase # "INIT" /\ ~IsEvicted(v)
      BY <1>3, <1>5 DEF Final, History, EventsAreGood
    <2> QED
      BY <1>2, <1>3, <1>5, <2>1 DEF Placing, IsUpdate, Good
  <1> QED
    BY <1>6 DEF v, Faithful

(* The controllers of the other clusters are where they were.              *)
LEMMA BeatMovedAgrees ==
  ASSUME Grown, BeatsAgree, NEW c \in Clusters, beats \in Nat, beats' \in Nat, beats <= beats',
         \A d \in Clusters : d # c => beat'[d] = beat[d] /\ retries'[d] = retries[d],
         \A d \in Clusters : retries[d] \in Nat,
         BeatAgrees(beat[c])', retries'[c] + Running(beat'[c]) <= beats'
  PROVE  BeatsAgree'
  <1>1. ASSUME NEW d \in Clusters, d # c, NEW b, b = beat[d]
        PROVE  BeatAgrees(b)' /\ retries'[d] + Running(b) <= beats' /\ beat'[d] = b
    <2>1. BeatAgrees(b) /\ retries[d] + Running(b) <= beats
      BY <1>1 DEF BeatsAgree
    <2>2. retries[d] + Running(b) \in Nat
      BY DEF Running
    <2> QED
      BY <1>1, <2>1, <2>2, BeatAgreesStays
  <1>2. \A d \in Clusters : BeatAgrees(beat[d])'
    <2> SUFFICES ASSUME NEW d \in Clusters PROVE BeatAgrees(beat[d])'
      OBVIOUS
    <2>1. CASE d = c
      BY <2>1
    <2>2. CASE d # c
      <3>1. ASSUME NEW b, b = beat[d] PROVE BeatAgrees(b)' /\ beat'[d] = b
        BY <1>1, <2>2, <3>1
      <3> QED
        BY <3>1
    <2> QED
      BY <2>1, <2>2
  <1>3. \A d \in Clusters : retries'[d] + Running(beat'[d]) <= beats'
    <2> SUFFICES ASSUME NEW d \in Clusters PROVE retries'[d] + Running(beat'[d]) <= beats'
      OBVIOUS
    <2> QED
      BY <1>1
  <1> QED
    BY <1>2, <1>3 DEF BeatsAgree, Running

(* A heartbeat that ends leaves its job controller waiting for the next.   *)
LEMMA EndBeatAgrees ==
  ASSUME Typed, OneLife, BeatsAgree, Grown, NEW c \in Clusters, NEW counter \in Nat,
         EndBeat(c, counter), beats' \in 0 .. MaxBeats, beats <= beats', counter <= beats'
  PROVE  BeatsAgree'
  <1>1. MaxBeats \in Nat /\ RetryLimit \in Nat /\ MaxBeats <= RetryLimit /\ beats \in Nat
    BY JobFlowAssumption DEF OneLife, Typed, BoundsFit
  <1>2. counter <= RetryLimit /\ beats' \in Nat
    BY <1>1
  <1>3. /\ \A d \in Clusters : d # c => beat'[d] = beat[d] /\ retries'[d] = retries[d]
        /\ retries'[c] = counter /\ beat'[c] = Idle
    BY <1>2, EndBeatMoves
  <1>4. BeatAgrees(Idle)' /\ Running(Idle) = 0
    BY DEF Idle, BeatAgrees, Running
  <1>5. BeatAgrees(beat[c])'
    BY <1>3, <1>4 DEF BeatAgrees, Idle
  <1>6. retries'[c] + Running(beat'[c]) <= beats'
    BY <1>2, <1>3, <1>4
  <1> QED
    BY <1>1, <1>2, <1>3, <1>5, <1>6, BeatMovedAgrees DEF Typed, BeatFits

LEMMA UpdateAgrees ==
  ASSUME Typed, Final, NEW c \in Clusters, beat[c].stage = "updating", NEW j \in beat[c].todo
  PROVE  LET v == WithReplicas(beat[c].view[j], c, "RUNNING", beat[c].found[j])
         IN  j \in Jobs /\ v \in JobValue /\ Faithful(j, v)
  <1> DEFINE old == beat[c].view[j]
             count == beat[c].found[j]
             state == "RUNNING"
             v == WithReplicas(old, c, state, count)
  <1>1. j \in Jobs /\ old \in JobValue /\ c \in PlacedOn(old) /\ v \in JobValue
    BY BeatWrites
  <1>2. beat[c] \in Working /\ count \in Nat
    BY <1>1, WorkingStage DEF Working, TaskCounts
  <1>3. Faithful(j, old)
    BY DEF Final, BeatsAgree, BeatAgrees
  <1>4. state \in TaskStates /\ state # "NONE" /\ state # "EVICTED"
    BY DEF TaskStates
  <1> HIDE DEF old, count, state
  <1>5. PlacedOn(v) = PlacedOn(old) \cup {c} /\ ~IsEvicted(v) /\ v.phase = old.phase
    BY <1>1, <1>2, <1>3, <1>4, ReplicasWritten DEF Faithful, Good
  <1>6. PlacedOn(v) = PlacedOn(old)
    BY <1>1, <1>5
  <1>7. v \in JobValue /\ Faithful(j, v)
    <2> HIDE DEF v
    <2> QED
      BY <1>1, <1>3, <1>5, <1>6 DEF Faithful, Placing, Good
  <1> QED
    BY <1>1, <1>7 DEF old, count, state

LEMMA HeartbeatFinal ==
  ASSUME Typed, OneLife, Final, NEW c \in Clusters, Heartbeat(c)
  PROVE  Grown /\ Final'
  <1>1. /\ beats \in 0 .. MaxBeats /\ MaxBeats \in Nat
        /\ retries[c] \in Nat /\ retries[c] + 1 \in Nat
        /\ BeatsAgree /\ retries[c] + Running(beat[c]) <= beats /\ beat[c].stage # "cleanup"
    BY JobFlowAssumption DEF Typed, BoundsFit, BeatFits, Final, BeatsAgree, BeatAgrees
  <1>2. ASSUME UNCHANGED <<apiVars, created, schedulerVars, flowVars, tasks>>, BeatsAgree'
        PROVE  Grown /\ Final'
    <2>1. UNCHANGED <<created, schedulerAt, workload, submitted, tasks>>
      BY <1>2 DEF schedulerVars, flowVars
    <2>2. Grown /\ History' /\ QueueFits(workload, schedulerAt)'
      BY <1>2, <2>1, QuietKept
    <2> QED
      BY <1>2, <2>1, <2>2, SubmitsKept, TasksKept DEF Final
  <1>3. UNCHANGED apiVars => Grown
    BY NotWritten DEF Typed
  <1>4. CASE BeatLists(c)
    <2> DEFINE b == [stage |-> "listed", found |-> Listed(c)]
    <2>1. beat' = [beat EXCEPT ![c] = b] /\ beats' = beats + 1 /\ retries' = retries
          /\ beat[c] = Idle /\ beats < MaxBeats /\ UNCHANGED apiVars
      BY <1>4 DEF BeatLists, Goto
    <2>2. beat'[c] = b /\ \A d \in Clusters : d # c => beat'[d] = beat[d]
      BY <2>1 DEF Typed, BeatFits
    <2>3. b.stage = "listed" /\ beat[c].stage = "idle"
      BY <2>1 DEF Idle
    <2> HIDE DEF b
    <2>4. BeatAgrees(beat[c])' /\ Running(beat'[c]) = 1 /\ Running(beat[c]) = 0
      BY <2>2, <2>3 DEF BeatAgrees, Running
    <2>5. BeatsAgree'
      BY <1>1, <1>3, <2>1, <2>2, <2>4, BeatMovedAgrees DEF Typed, BeatFits
    <2> QED
      BY <1>2, <1>4, <2>5 DEF BeatLists
  <1>5. CASE BeatListRaises(c)
    <2>1. EndBeat(c, retries[c] + 1) /\ beats' = beats + 1 /\ beats < MaxBeats
          /\ beat[c] = Idle /\ UNCHANGED apiVars
      BY <1>5 DEF BeatListRaises
    <2>2. Running(beat[c]) = 0
      BY <2>1 DEF Running, Idle
    <2>3. beats' \in 0 .. MaxBeats /\ beats <= beats' /\ retries[c] + 1 <= beats'
      BY <1>1, <2>1, <2>2
    <2>4. BeatsAgree'
      BY <1>1, <1>3, <2>1, <2>3, EndBeatAgrees
    <2> QED
      BY <1>2, <1>5, <2>4 DEF BeatListRaises
  <1>6. CASE BeatCopies(c)
    <2>1. /\ \A d \in Clusters : TodoFits(d, beat'[d])
          /\ \A d \in Clusters : d # c => beat'[d] = beat[d]
          /\ beat'[c].stage = "updating"
          /\ UNCHANGED <<apiVars, retries, beats>> /\ beat[c].stage = "listed"
      BY <1>6, BeatCopiesMoves DEF BeatCopies
    <2>2. PICK k \in 0 .. Len(log) : beat'[c].view = StoreAt(k)
      BY <1>6, BeatCopiesMoves
    <2>3. \A j \in beat'[c].todo : j \in PlacedHere(c, StoreAt(k))
      BY <2>1, <2>2 DEF TodoFits
    <2>4. ASSUME NEW j, NEW v, Faithful(j, v) PROVE Faithful(j, v)'
      BY <1>3, <2>1, <2>4, FaithfulStays
    <2>5. ASSUME NEW j \in beat'[c].todo, NEW v, v = beat'[c].view[j]
          PROVE  Faithful(j, v)'
      <3>1. Faithful(j, StoreAt(k)[j])
        BY <2>3, ViewAgrees
      <3> QED
        BY <2>2, <2>4, <2>5, <3>1
    <2>6. BeatAgrees(beat[c])'
      <3>1. \A j \in beat'[c].todo : \A v : v = beat'[c].view[j] => Faithful(j, v)'
        BY <2>5
      <3> QED
        BY <2>1, <3>1 DEF BeatAgrees, Faithful, Placing, IsUpdate, PlacedOn, Good, IsEvicted
    <2>7. Running(beat'[c]) = 1 /\ Running(beat[c]) = 1
      BY <2>1 DEF Running
    <2>8. BeatsAgree'
      BY <1>1, <1>3, <2>1, <2>6, <2>7, BeatMovedAgrees DEF Typed, BeatFits
    <2> QED
      BY <1>2, <1>6, <2>8 DEF BeatCopies
  <1>7. CASE BeatEnds(c)
    <2>1. EndBeat(c, retries[c]) /\ UNCHANGED <<apiVars, beats>> /\ beat[c].stage = "updating"
      BY <1>7 DEF BeatEnds
    <2>2. retries[c] <= beats' /\ beats' \in 0 .. MaxBeats /\ beats <= beats'
      BY <1>1, <2>1 DEF Running
    <2>3. BeatsAgree'
      BY <1>1, <1>3, <2>1, <2>2, EndBeatAgrees
    <2> QED
      BY <1>2, <1>7, <2>3 DEF BeatEnds
  <1>8. ~CleanupEnds(c) /\ \A j \in Jobs : ~CleanupEvicts(c, j)
    BY <1>1 DEF CleanupEnds, CleanupEvicts
  <1>9. ASSUME NEW j \in Jobs, BeatUpdates(c, j)
        PROVE  Grown /\ Final'
    <2>1. beat[c].stage = "updating" /\ j \in beat[c].todo
          /\ UNCHANGED <<created, schedulerVars, flowVars, tasks, beats>>
      BY <1>9 DEF BeatUpdates
    <2>2. Running(beat[c]) = 1
      BY <2>1 DEF Running
    <2>3. CASE Stored(j)
      <3> DEFINE v == WithReplicas(beat[c].view[j], c, "RUNNING", beat[c].found[j])
      <3>1. PutJob(j, v) /\ UNCHANGED retries
            /\ beat' = [beat EXCEPT ![c].todo = beat[c].todo \ {j}]
        BY <1>9, <2>3 DEF BeatUpdates
      <3>2. v \in JobValue /\ Faithful(j, v)
        BY <2>1, UpdateAgrees
      <3>3. UNCHANGED <<created, schedulerAt, workload, submitted, tasks>>
        BY <2>1 DEF schedulerVars, flowVars
      <3> HIDE DEF v
      <3>4. Grown /\ History' /\ QueueFits(workload, schedulerAt)'
        BY <3>1, <3>2, <3>3, Rewritten DEF Final
      <3>5. /\ \A d \in Clusters : d # c => beat'[d] = beat[d]
            /\ beat'[c].stage = "updating" /\ beat'[c].view = beat[c].view
            /\ beat'[c].todo = beat[c].todo \ {j}
        BY <2>1, <3>1, LessToDo
      <3>6. BeatAgrees(beat[c])'
        <4>1. ASSUME NEW i \in beat'[c].todo, NEW w, w = beat'[c].view[i]
              PROVE  Faithful(i, w)'
          <5>1. Faithful(i, w)
            BY <2>1, <3>5, <4>1 DEF Final, BeatsAgree, BeatAgrees
          <5> QED
            BY <3>4, <5>1, FaithfulStays
        <4>2. \A i \in beat'[c].todo : \A w : w = beat'[c].view[i] => Faithful(i, w)'
          BY <4>1
        <4> QED
          BY <3>5, <4>2 DEF BeatAgrees, Faithful, Placing, IsUpdate, PlacedOn, Good, IsEvicted
      <3>7. Running(beat'[c]) = 1
        BY <3>5 DEF Running
      <3>8. BeatsAgree'
        <4>1. beats' = beats /\ retries' = retries /\ beats \in Nat
              /\ \A d \in Clusters : retries[d] \in Nat
          BY <1>1, <2>1, <3>1 DEF Typed, BeatFits
        <4>2. retries'[c] + Running(beat'[c]) <= beats'
          BY <1>1, <2>2, <3>7, <4>1
        <4> QED
          BY <1>1, <3>4, <3>5, <3>6, <4>1, <4>2, BeatMovedAgrees
      <3> QED
        BY <3>3, <3>4, <3>8, SubmitsKept, TasksKept DEF Final
    <2>4. CASE ~Stored(j)
      <3>1. EndBeat(c, retries[c] + 1) /\ UNCHANGED apiVars
        BY <1>9, <2>4 DEF BeatUpdates
      <3>2. retries[c] + 1 <= beats' /\ beats' \in 0 .. MaxBeats /\ beats <= beats'
        BY <1>1, <2>1, <2>2
      <3>3. BeatsAgree'
        BY <1>1, <1>3, <3>1, <3>2, EndBeatAgrees
      <3> QED
        BY <1>2, <2>1, <3>1, <3>3
    <2> QED
      BY <2>3, <2>4
  <1> QED
    BY <1>4, <1>5, <1>6, <1>7, <1>8, <1>9 DEF Heartbeat

LEMMA InitFinal == Init => Final
  <1> SUFFICES ASSUME Init PROVE Final
    OBVIOUS
  <1>1. /\ log = << >> /\ workload = << >> /\ schedulerAt = 0
        /\ jobs = [j \in Jobs |-> NoJob] /\ Len(log) = 0 /\ Len(workload) = 0
    BY DEF Init, Store!Init
  <1>2. History
    BY <1>1 DEF History, OnePlacement, OneAddition, EventsAreGood, StoreIsFaithful, Stored
  <1>3. QueueFits(workload, schedulerAt)
    BY <1>1 DEF QueueFits, QueueIsNew, AheadIsNew
  <1>4. SubmitsAgree /\ TasksArePlaced
    BY DEF Init, SubmitsAgree, TasksArePlaced, NoTasks
  <1>5. BeatsAgree
    BY DEF Init, BeatsAgree, BeatAgrees, Running, Idle
  <1> QED
    BY <1>2, <1>3, <1>4, <1>5 DEF Final

LEMMA StutterFinal ==
  ASSUME Typed, Final, UNCHANGED vars
  PROVE  Grown /\ Final'
  <1>1. UNCHANGED <<apiVars, created, schedulerAt, workload, submitted, tasks, beat, retries, beats>>
    BY DEF vars, schedulerVars, flowVars, beatVars
  <1> QED
    BY <1>1, QuietKept, RestKept DEF Final

LEMMA NextFinal ==
  ASSUME Typed, OneLife, Final, [Next]_vars
  PROVE  Grown /\ Final'
  <1> SUFFICES ASSUME Next PROVE Grown /\ Final'
    BY StutterFinal
  <1>1. ASSUME NEW j \in Jobs, CreateJob(j) \/ DeleteJob(j) PROVE Grown /\ Final'
    BY <1>1, CreateFinal, DeleteFinal
  <1>2. CASE Schedule \/ SchedulerRestarts
    BY <1>2, JobEventFinal, ClusterEventFinal, RestartFinal DEF Schedule
  <1>3. ASSUME NEW c \in Clusters,
               \/ ClusterIsAdded(c) \/ ClusterBecomesReady(c)
               \/ Flow(c) \/ Heartbeat(c)
               \/ \E j \in Jobs : TasksVanish(c, j)
        PROVE  Grown /\ Final'
    BY <1>3, ClusterFinal, SubmitFinal, WriteBackFinal, RemoveFinal, HeartbeatFinal DEF Flow
  <1> QED
    BY <1>1, <1>2, <1>3 DEF Next

LEMMA FinalMeansListed ==
  ASSUME Typed, Final
  PROVE  NoUnlistedTasks
  <1> SUFFICES ASSUME NEW j \in Jobs, NEW c \in Clusters, Stored(j), tasks[c][j] > 0
               PROVE  c \in PlacedOn(jobs[j])
    BY DEF NoUnlistedTasks
  <1>1. PICK i \in 1 .. Len(log) : IsUpdate(i, j) /\ c \in PlacedOn(log[i].value)
    BY DEF Final, TasksArePlaced, WasPlaced
  <1>2. Faithful(j, jobs[j])
    BY <1>1 DEF Final, History, StoreIsFaithful, Unplaced
  <1>3. PICK k \in 1 .. Len(log) : IsUpdate(k, j) /\ PlacedOn(log[k].value) = PlacedOn(jobs[j])
    BY <1>2 DEF Faithful, Placing
  <1>4. PlacedOn(log[i].value) = PlacedOn(log[k].value)
    BY <1>1, <1>3 DEF Final, History, OnePlacement, IsUpdate
  <1> QED
    BY <1>1, <1>3, <1>4

\* What PlacementStays says of a step.
StaysPlaced ==
  \A j \in Jobs :
    Stored(j) /\ jobs'[j] # NoJob /\ PlacedOn(jobs[j]) # {}
      => /\ PlacedOn(jobs'[j]) = PlacedOn(jobs[j])
         /\ jobs'[j].phase # "INIT"

LEMMA FinalMeansStays ==
  ASSUME Final, Grown, Final'
  PROVE  StaysPlaced
  <1> SUFFICES ASSUME NEW j \in Jobs, Stored(j), jobs'[j] # NoJob, PlacedOn(jobs[j]) # {}
               PROVE  PlacedOn(jobs'[j]) = PlacedOn(jobs[j]) /\ jobs'[j].phase # "INIT"
    BY DEF StaysPlaced
  <1>1. Faithful(j, jobs[j])
    BY NewJobTyped DEF Final, History, StoreIsFaithful
  <1>2. PICK i \in 1 .. Len(log) : IsUpdate(i, j) /\ PlacedOn(log[i].value) = PlacedOn(jobs[j])
    BY <1>1 DEF Faithful, Placing
  <1>3. i \in 1 .. Len(log') /\ log'[i] = log[i] /\ IsUpdate(i, j)'
    BY <1>2 DEF Grown, IsUpdate
  <1>4. ASSUME NEW v, v = jobs'[j]
        PROVE  Faithful(j, v)'
    <2>1. StoreIsFaithful' /\ ~Unplaced(j)'
      BY <1>3 DEF Final, History, Unplaced
    <2> QED
      BY <1>4, <2>1 DEF StoreIsFaithful, Stored, Faithful, Placing, IsUpdate, PlacedOn, Good,
                        IsEvicted, Unplaced
  <1>5. ASSUME NEW v, v = jobs'[j]
        PROVE  v.phase # "INIT" /\ PlacedOn(v) = PlacedOn(log[i].value)
    <2>1. Faithful(j, v)'
      BY <1>4, <1>5
    <2>2. PICK k \in 1 .. Len(log') : /\ log'[k].type = "UPDATE" /\ log'[k].name = j
                                      /\ PlacedOn(log'[k].value) = PlacedOn(v)
      BY <2>1 DEF Faithful, Placing, IsUpdate, PlacedOn
    <2>3. PlacedOn(log'[i].value) = PlacedOn(log'[k].value)
      BY <1>3, <2>2 DEF Final, History, OnePlacement, IsUpdate, PlacedOn
    <2>4. v.phase # "INIT"
      BY <2>1 DEF Faithful, Good
    <2> QED
      BY <1>3, <2>2, <2>3, <2>4
  <1> QED
    BY <1>2, <1>5

(* While names are not used again and no job controller gives its cluster  *)
(* up, no order in which the controllers' writes, each from a copy of its  *)
(* own, overwrite each other leaves tasks on a cluster that the stored job *)
(* does not list, ...                                                      *)
THEOREM TasksAreListed == ASSUME MaxCreates <= 1, MaxBeats <= RetryLimit
                          PROVE  Spec => []NoUnlistedTasks
  <1> DEFINE Inv == Typed /\ Final
  <1>1. Init => Inv
    BY InitTyped, InitFinal
  <1>2. Inv /\ [Next]_vars => Inv'
    BY NextTyped, NextFinal DEF OneLife
  <1>3. Inv => NoUnlistedTasks
    BY FinalMeansListed
  <1> QED
    BY <1>1, <1>2, <1>3, PTL DEF Spec

(* ... nor takes a placement back or moves it.                             *)
THEOREM PlacementIsFinal == ASSUME MaxCreates <= 1, MaxBeats <= RetryLimit
                            PROVE  Spec => PlacementStays
  <1> DEFINE Inv == Typed /\ Final
  <1>1. Init => Inv
    BY InitTyped, InitFinal
  <1>2. Inv /\ [Next]_vars => Inv'
    BY NextTyped, NextFinal DEF OneLife
  <1>3. Inv /\ [Next]_vars => StaysPlaced
    BY <1>2, NextFinal, FinalMeansStays DEF OneLife
  <1>4. Spec => [][StaysPlaced]_vars
    BY <1>1, <1>2, <1>3, PTL DEF Spec
  <1>5. [][StaysPlaced]_vars <=> PlacementStays
    BY DEF PlacementStays, StaysPlaced
  <1> QED
    BY <1>4, <1>5

-----------------------------------------------------------------------------
(* Sums.  SumFunctionOnSet takes the elements of a set one after the       *)
(* other, in the order of CHOOSE.                                          *)
Some(s) == CHOOSE x \in s : TRUE

(* What holds of the empty set, and of a set whenever it holds of it       *)
(* without the element that a fold takes first, holds of all finite sets.  *)
LEMMA FoldInduction ==
  ASSUME NEW S, IsFiniteSet(S), NEW Done, {} \in Done,
         \A s \in SUBSET S : s # {} /\ s \ {Some(s)} \in Done => s \in Done
  PROVE  SUBSET S \subseteq Done
  <1> SUFFICES ASSUME NEW t \in SUBSET S, t \notin Done PROVE FALSE
    OBVIOUS
  <1> DEFINE Sizes == {Cardinality(s) : s \in (SUBSET S) \ Done}
  <1>1. \A s \in SUBSET S : IsFiniteSet(s) /\ Cardinality(s) \in Nat
    BY FS_Subset, FS_CardinalityType
  <1>2. Sizes \subseteq Nat /\ Sizes # {}
    BY <1>1
  <1>3. PICK n \in Sizes : \A m \in Sizes : ~(m < n)
    <2> HIDE DEF Sizes
    <2>1. \E n \in Sizes : \A m \in Sizes : ~(<<m, n>> \in OpToRel(<, Nat))
      BY <1>2, NatLessThanWellFounded, WFMin
    <2> QED
      BY <1>2, <2>1 DEF OpToRel
  <1>4. PICK s \in (SUBSET S) \ Done : n = Cardinality(s)
    BY <1>3
  <1>5. s # {}
    BY <1>4
  <1>6. Some(s) \in s
    BY <1>5 DEF Some
  <1>7. Cardinality(s \ {Some(s)}) = Cardinality(s) - 1
    BY <1>1, <1>4, <1>6, FS_RemoveElement
  <1>8. s \ {Some(s)} \in Done
    <2>1. Cardinality(s \ {Some(s)}) \in Nat /\ Cardinality(s) \in Nat
      BY <1>1, <1>4
    <2>2. Cardinality(s \ {Some(s)}) \notin Sizes
      <3> HIDE DEF Sizes
      <3> QED
        BY <1>3, <1>4, <1>7, <2>1
    <2> QED
      BY <2>2
  <1> QED
    BY <1>4, <1>5, <1>8

IsSums(g, f, S) ==
  g = [s \in SUBSET S |-> IF s = {} THEN 0 ELSE f[Some(s)] + g[s \ {Some(s)}]]

(* The recursion has a solution: one for the subsets of each size gives    *)
(* one for the next.                                                       *)
LEMMA SumExists ==
  ASSUME NEW S, IsFiniteSet(S), NEW f
  PROVE  \E g : IsSums(g, f, S)
  <1> DEFINE Sub(n) == {s \in SUBSET S : Cardinality(s) <= n}
             Solves(g, n) == g = [s \in Sub(n) |-> IF s = {} THEN 0 ELSE f[Some(s)] + g[s \ {Some(s)}]]
             Unsolved == {n \in Nat : ~\E g : Solves(g, n)}
  <1>1. \A s \in SUBSET S : /\ IsFiniteSet(s) /\ Cardinality(s) \in Nat
                            /\ Cardinality(s) = 0 <=> s = {}
                            /\ Cardinality(s) <= Cardinality(S)
    BY FS_Subset, FS_CardinalityType, FS_EmptySet
  <1>2. Unsolved = {}
    <2> SUFFICES ASSUME Unsolved # {} PROVE FALSE
      OBVIOUS
    <2>1. PICK n \in Unsolved : \A m \in Unsolved : ~(<<m, n>> \in OpToRel(<, Nat))
      <3>1. Unsolved \subseteq Nat
        OBVIOUS
      <3> HIDE DEF Unsolved
      <3> QED
        BY <3>1, NatLessThanWellFounded, WFMin
    <2>2. n \in Nat /\ \A m \in Nat : m < n => \E g : Solves(g, m)
      <3>1. \A m \in Nat : m \notin Unsolved => \E g : Solves(g, m)
        OBVIOUS
      <3>2. n \in Nat
        OBVIOUS
      <3>3. \A m \in Nat : m < n => m \notin Unsolved
        <4> HIDE DEF Unsolved
        <4> QED
          BY <2>1, <3>2 DEF OpToRel
      <3> HIDE DEF Unsolved, Solves
      <3> QED
        BY <3>1, <3>2, <3>3
    <2>3. CASE n = 0
      <3> DEFINE g == [s \in Sub(0) |-> 0]
      <3>1. \A s \in Sub(0) : s = {}
        BY <1>1
      <3>2. Solves(g, 0)
        BY <3>1
      <3> QED
        BY <2>3, <3>2
    <2>4. CASE n # 0
      <3>1. n - 1 \in Nat /\ n - 1 < n
        BY <2>2, <2>4
      <3>2. PICK g : Solves(g, n - 1)
        <4> HIDE DEF Solves
        <4> QED
          BY <2>2, <3>1
      <3> DEFINE h == [s \in Sub(n) |-> IF s = {} THEN 0 ELSE f[Some(s)] + g[s \ {Some(s)}]]
      <3>3. ASSUME NEW s \in Sub(n), s # {}
            PROVE  h[s \ {Some(s)}] = g[s \ {Some(s)}]
        <4> DEFINE t == s \ {Some(s)}
        <4>1. Some(s) \in s
          BY <3>3 DEF Some
        <4>2. Cardinality(t) = Cardinality(s) - 1
          BY <1>1, <4>1, FS_RemoveElement
        <4>3. t \in Sub(n - 1) /\ t \in Sub(n)
          BY <1>1, <2>2, <4>2
        <4> HIDE DEF t
        <4>4. g[t] = IF t = {} THEN 0 ELSE f[Some(t)] + g[t \ {Some(t)}]
          BY <3>2, <4>3
        <4>5. h[t] = IF t = {} THEN 0 ELSE f[Some(t)] + g[t \ {Some(t)}]
          BY <4>3
        <4> QED
          BY <4>4, <4>5 DEF t
      <3>4. Solves(h, n)
        BY <3>3
      <3> HIDE DEF Solves, h
      <3> QED
        BY <3>4
    <2> QED
      BY <2>3, <2>4
  <1>3. PICK g : Solves(g, Cardinality(S))
    <2>1. Cardinality(S) \in Nat
      BY <1>1
    <2> HIDE DEF Solves
    <2> QED
      BY <1>2, <2>1
  <1>4. Sub(Cardinality(S)) = SUBSET S
    BY <1>1
  <1> QED
    BY <1>3, <1>4 DEF IsSums

(* The sums over the parts of a set.                                       *)
SumsOf(f, S) == CHOOSE g : IsSums(g, f, S)

AddsUp(f, S) ==
  /\ SumFunctionOnSet(f, S) = SumsOf(f, S)[S]
  /\ SumsOf(f, S)[{}] = 0
  /\ \A s \in SUBSET S :
       s # {} => SumsOf(f, S)[s] = f[Some(s)] + SumsOf(f, S)[s \ {Some(s)}]

LEMMA SumsAddUp ==
  ASSUME NEW f, NEW S, IsFiniteSet(S)
  PROVE  AddsUp(f, S)
  <1> DEFINE g == SumsOf(f, S)
             F(t) == IF t = {} THEN 0 ELSE f[Some(t)] + g[t \ {Some(t)}]
  <1>1. IsSums(g, f, S)
    BY SumExists DEF SumsOf
  <1>2. SumFunctionOnSet(f, S) = g[S]
    BY DEF SumFunctionOnSet, FoldFunctionOnSet, MapThenFoldSet, SumsOf, IsSums, Some
  <1> HIDE DEF g
  <1>3. g = [t \in SUBSET S |-> F(t)]
    BY <1>1 DEF IsSums
  <1> HIDE DEF F
  <1>4. \A t \in SUBSET S : g[t] = F(t)
    BY <1>3
  <1>5. g[{}] = 0 /\ \A t \in SUBSET S : t # {} => g[t] = f[Some(t)] + g[t \ {Some(t)}]
    BY <1>4 DEF F
  <1> QED
    BY <1>2, <1>5 DEF g, AddsUp

LEMMA SumMonotone ==
  ASSUME NEW S, IsFiniteSet(S), NEW f, NEW h,
         \A x \in S : f[x] \in Int /\ h[x] \in Int /\ f[x] <= h[x]
  PROVE  /\ SumFunctionOnSet(f, S) \in Int /\ SumFunctionOnSet(h, S) \in Int
         /\ SumFunctionOnSet(f, S) <= SumFunctionOnSet(h, S)
  <1>0. AddsUp(f, S) /\ AddsUp(h, S)
    BY SumsAddUp
  <1> DEFINE F == SumsOf(f, S)
             H == SumsOf(h, S)
             Done == {s \in SUBSET S : F[s] \in Int /\ H[s] \in Int /\ F[s] <= H[s]}
  <1>1. /\ SumFunctionOnSet(f, S) = F[S] /\ F[{}] = 0
        /\ \A s \in SUBSET S : s # {} => F[s] = f[Some(s)] + F[s \ {Some(s)}]
    BY <1>0 DEF AddsUp
  <1>2. /\ SumFunctionOnSet(h, S) = H[S] /\ H[{}] = 0
        /\ \A s \in SUBSET S : s # {} => H[s] = h[Some(s)] + H[s \ {Some(s)}]
    BY <1>0 DEF AddsUp
  <1> HIDE DEF F, H
  <1>3. {} \in Done
    BY <1>1, <1>2
  <1>4. ASSUME NEW s \in SUBSET S, s # {}, s \ {Some(s)} \in Done
        PROVE  s \in Done
    <2>1. Some(s) \in S
      BY <1>4 DEF Some
    <2>2. F[s] = f[Some(s)] + F[s \ {Some(s)}] /\ H[s] = h[Some(s)] + H[s \ {Some(s)}]
      BY <1>1, <1>2, <1>4
    <2> QED
      BY <1>4, <2>1, <2>2
  <1>5. SUBSET S \subseteq Done
    <2> HIDE DEF Done
    <2> QED
      BY <1>3, <1>4, FoldInduction
  <1> QED
    BY <1>1, <1>2, <1>5

LEMMA SumOfNone ==
  ASSUME NEW S, IsFiniteSet(S), NEW f, \A x \in S : f[x] = 0
  PROVE  SumFunctionOnSet(f, S) = 0
  <1>0. AddsUp(f, S)
    BY SumsAddUp
  <1> DEFINE F == SumsOf(f, S)
             Done == {s \in SUBSET S : F[s] = 0}
  <1>1. /\ SumFunctionOnSet(f, S) = F[S] /\ F[{}] = 0
        /\ \A s \in SUBSET S : s # {} => F[s] = f[Some(s)] + F[s \ {Some(s)}]
    BY <1>0 DEF AddsUp
  <1>2. \A s \in SUBSET S : s # {} => Some(s) \in S
    BY DEF Some
  <1> HIDE DEF F
  <1>3. {} \in Done /\ \A s \in SUBSET S : s # {} /\ s \ {Some(s)} \in Done => s \in Done
    BY <1>1, <1>2
  <1>4. SUBSET S \subseteq Done
    <2> HIDE DEF Done
    <2> QED
      BY <1>3, FoldInduction
  <1> QED
    BY <1>1, <1>4

-----------------------------------------------------------------------------
(* Why the clusters never hold more tasks of a job than it has replicas.   *)
(* For each job there is one division of its replicas among the clusters   *)
(* that everything any controller has written or holds of it stays within; *)
(* until the job is placed, there is nothing of it anywhere.  If the       *)
(* clusters take the tasks of a job as a whole, what is written or found   *)
(* is neither less.                                                        *)
Whole == Manager = "deployment" \/ (Manager = "kubernetes" /\ MaxFailures = 0)

Shares == {s \in [Clusters -> 0 .. Replicas] : SumFunction(s) <= Replicas}
Nothing == [c \in Clusters |-> 0]

Within(v, s) == \A c \in Clusters : /\ v.replicas[c].count <= s[c]
                                    /\ c \in PlacedOn(v) =>
                                         s[c] >= 1 /\ (Whole => v.replicas[c].count = s[c])
Modest(v) == \E s \in Shares : Within(v, s)

LogWithin(j, s) == \A i \in 1 .. Len(log) : log[i].name = j => Within(log[i].value, s)
StoreWithin(j, s) == Stored(j) => Within(jobs[j], s)
SubmitsWithin(j, s) ==
  \A c \in Clusters : submitted[c] # Idle /\ submitted[c].name = j => Within(submitted[c].job, s)
Covers(n, share) == n <= share /\ (Whole /\ n > 0 => n = share)
TasksWithin(j, s) == \A c \in Clusters : Covers(tasks[c][j], s[c])
BeatWithin(b, c, j, s) ==
  /\ b.stage = "updating" /\ j \in b.todo => Within(b.view[j], s) /\ b.found[j] > 0
  /\ b.stage \in {"listed", "updating"} => Covers(b.found[j], s[c])
BeatsWithin(j, s) == \A c \in Clusters : BeatWithin(beat[c], c, j, s)

Assigned(j, s) == /\ LogWithin(j, s) /\ StoreWithin(j, s)
                  /\ SubmitsWithin(j, s) /\ TasksWithin(j, s) /\ BeatsWithin(j, s)

Shared == \A j \in Jobs : /\ Unplaced(j) => Assigned(j, Nothing)
                          /\ \E s \in Shares : Assigned(j, s)
QueueIsModest(queue) == \A n \in 1 .. Len(queue) : Modest(queue[n].job)

LEMMA NothingIsShared ==
  /\ Nothing \in Shares
  /\ \A s \in Shares : s \in [Clusters -> Nat] /\ \A c \in Clusters : Nothing[c] <= s[c]
  <1>1. SumFunction(Nothing) = 0
    <2>1. \A c \in Clusters : Nothing[c] = 0
      BY DEF Nothing
    <2>2. DOMAIN Nothing = Clusters
      BY DEF Nothing
    <2> QED
      BY <2>1, <2>2, JobFlowAssumption, SumOfNone DEF SumFunction
  <1> QED
    BY <1>1, JobFlowAssumption DEF Nothing, Shares

LEMMA WithinMore ==
  ASSUME NEW v \in JobValue, NEW s \in Shares, Within(v, Nothing)
  PROVE  Within(v, s)
  <1>1. \A c \in Clusters : v.replicas[c].count \in Nat
    BY DEF JobValue, ReplicaStatus
  <1> QED
    BY <1>1, NothingIsShared DEF Within, Nothing

LEMMA BeatValues ==
  ASSUME Typed, NEW c \in Clusters, NEW j \in Jobs
  PROVE  /\ beat[c].stage \in {"listed", "updating"} => beat[c].found[j] \in Nat
         /\ beat[c].stage = "updating" /\ j \in beat[c].todo => beat[c].view[j] \in JobValue
  <1>1. beat[c] \in Beat
    BY DEF Typed, BeatFits
  <1>2. CASE beat[c].stage = "listed"
    BY <1>1, <1>2 DEF Beat, TaskCounts
  <1>3. CASE beat[c].stage = "updating"
    BY <1>3, WorkingStage, BeatWrites DEF Working, TaskCounts
  <1> QED
    BY <1>2, <1>3

LEMMA AssignedMore ==
  ASSUME Typed, NEW j \in Jobs, NEW s \in Shares, Assigned(j, Nothing)
  PROVE  Assigned(j, s)
  <1>1. ASSUME NEW v \in JobValue, Within(v, Nothing) PROVE Within(v, s)
    BY <1>1, WithinMore
  <1>2. LogWithin(j, s)
    BY <1>1, LogFacts DEF Typed, Assigned, LogWithin
  <1>3. StoreWithin(j, s)
    BY <1>1 DEF Typed, StoreFits, Stored, Assigned, StoreWithin
  <1>4. SubmitsWithin(j, s)
    <2>1. \A c \in Clusters : submitted[c] # Idle => submitted[c].job \in JobValue
      BY DEF Typed, FlowFits, Entry
    <2> QED
      BY <1>1, <2>1 DEF Assigned, SubmitsWithin
  <1>5. TasksWithin(j, s)
    <2>1. \A c \in Clusters : tasks[c][j] \in Nat
      BY DEF Typed, FlowFits, TaskCounts
    <2> QED
      BY <2>1, NothingIsShared DEF Assigned, TasksWithin, Nothing, Covers
  <1>6. BeatsWithin(j, s)
    <2> SUFFICES ASSUME NEW c \in Clusters PROVE BeatWithin(beat[c], c, j, s)
      BY DEF BeatsWithin
    <2>1. BeatWithin(beat[c], c, j, Nothing)
      BY DEF Assigned, BeatsWithin
    <2>2. s[c] \in Nat
      BY NothingIsShared
    <2> QED
      BY <1>1, <2>1, <2>2, BeatValues DEF BeatWithin, Nothing, Covers
  <1> QED
    BY <1>2, <1>3, <1>4, <1>5, <1>6 DEF Assigned

LEMMA ReplicasWithin ==
  ASSUME NEW v \in JobValue, NEW c \in Clusters, NEW state \in TaskStates, NEW count \in Nat,
         NEW s \in Shares, Within(v, s), c \in PlacedOn(v), count <= s[c],
         Whole => count = s[c]
  PROVE  Within(WithReplicas(v, c, state, count), s)
  <1> DEFINE r == [state |-> state, count |-> count]
             replicas == [v.replicas EXCEPT ![c] = r]
             written == [v EXCEPT !.replicas = replicas]
  <1>1. r.count = count
    OBVIOUS
  <1>2. v.replicas \in [Clusters -> ReplicaStatus]
    BY DEF JobValue
  <1>3. WithReplicas(v, c, state, count) = written
    BY DEF WithReplicas, JobValue
  <1> HIDE DEF r
  <1>4. replicas[c] = r /\ \A d \in Clusters : d # c => replicas[d] = v.replicas[d]
    BY <1>2
  <1> HIDE DEF replicas
  <1>5. written.replicas = replicas
    BY DEF JobValue
  <1> HIDE DEF written
  <1>6. \A d \in Clusters : d \in PlacedOn(written) => d \in PlacedOn(v)
    BY <1>4, <1>5 DEF PlacedOn
  <1> QED
    BY <1>1, <1>3, <1>4, <1>5, <1>6 DEF Within

LEMMA NewJobModest ==
  ASSUME NEW s \in Shares
  PROVE  Within(NewJob, s)
  <1>1. \A c \in Clusters : NewJob.replicas[c].count = 0
    BY DEF NewJob, NoReplicas
  <1>2. PlacedOn(NewJob) = {}
    BY NewJobTyped
  <1>3. \A c \in Clusters : s[c] \in Nat
    BY NothingIsShared
  <1> QED
    BY <1>1, <1>2, <1>3 DEF Within

LEMMA DecisionsModest ==
  ASSUME NEW job \in JobValue, Modest(job), NEW decided \in Decisions(job)
  PROVE  Modest(decided)
  <1>1. ASSUME NEW s \in Spreads, decided = Placed(job, s)
        PROVE  Modest(decided)
    <2> DEFINE replicas == [c \in Clusters |->
                 IF s[c] = 0 THEN NoReplicas ELSE [state |-> "INIT", count |-> s[c]]]
               active == [job EXCEPT !.phase = "ACTIVE"]
    <2>1. s \in Shares
      <3>1. s \in [Clusters -> 0 .. Replicas] /\ SumFunction(s) = Replicas /\ Replicas \in Nat
        BY JobFlowAssumption DEF Spreads
      <3> QED
        BY <3>1 DEF Shares
    <2>2. \A c \in Clusters : s[c] \in Nat
      BY <2>1, NothingIsShared
    <2>3. \A c \in Clusters : replicas[c].count = s[c] /\ (replicas[c].state # "NONE" => s[c] # 0)
      BY <2>2 DEF NoReplicas
    <2>4. decided = [active EXCEPT !.replicas = replicas]
      BY <1>1 DEF Placed, JobValue
    <2>5. active \in JobValue
      BY DEF JobValue
    <2> HIDE DEF replicas, active
    <2>6. decided.replicas = replicas
      BY <2>4, <2>5 DEF JobValue
    <2>7. Within(decided, s)
      BY <2>2, <2>3, <2>6 DEF Within, PlacedOn
    <2> QED
      BY <2>1, <2>7 DEF Modest
  <1>2. ASSUME decided = [job EXCEPT !.phase = "FAILED"]
        PROVE  Modest(decided)
    <2>1. decided.replicas = job.replicas
      BY <1>2 DEF JobValue
    <2> QED
      BY <2>1 DEF Modest, Within, PlacedOn
  <1>3. \/ \E s \in Spreads : decided = Placed(job, s)
        \/ decided = [job EXCEPT !.phase = "FAILED"]
    BY DEF Decisions
  <1> QED
    BY <1>1, <1>2, <1>3

(* What the log and the store say of a job, when something is written.     *)
LEMMA LogWithinGrown ==
  ASSUME Grown, NEW j, NEW s, LogWithin(j, s),
         \A k \in 1 .. Len(log') : \A w : k \notin 1 .. Len(log) /\ log'[k].name = j
                                          /\ w = log'[k].value => Within(w, s)
  PROVE  LogWithin(j, s)'
  <1> SUFFICES ASSUME NEW k \in 1 .. Len(log'), log'[k].name = j, NEW w, w = log'[k].value
               PROVE  Within(w, s)
    BY DEF LogWithin, Within, PlacedOn
  <1>1. CASE k \in 1 .. Len(log)
    BY <1>1 DEF Grown, LogWithin
  <1>2. CASE k \notin 1 .. Len(log)
    BY <1>2
  <1> QED
    BY <1>1, <1>2

LEMMA PutWithin ==
  ASSUME Typed, NEW i \in Jobs, NEW v \in JobValue, PutJob(i, v), NEW j \in Jobs, NEW s,
         LogWithin(j, s), StoreWithin(j, s), i = j => Within(v, s)
  PROVE  Grown /\ LogWithin(j, s)' /\ StoreWithin(j, s)'
  <1> DEFINE e == log'[Len(log) + 1]
  <1>1. /\ Grown /\ jobs' = [jobs EXCEPT ![i] = v] /\ Len(log') = Len(log) + 1
        /\ e = [type |-> "UPDATE", name |-> i, value |-> v] /\ Len(log) \in Nat
    BY PutGrows DEF Typed, Grown
  <1>2. e.name = i /\ e.value = v
    BY <1>1
  <1>3. \A k \in 1 .. Len(log') : k \notin 1 .. Len(log) => k = Len(log) + 1
    BY <1>1
  <1>4. LogWithin(j, s)'
    BY <1>1, <1>2, <1>3, LogWithinGrown
  <1>5. ASSUME NEW w, w = jobs'[j], w # NoJob PROVE Within(w, s)
    BY <1>1, <1>5 DEF Typed, StoreFits, StoreWithin, Stored
  <1>6. StoreWithin(j, s)'
    BY <1>5 DEF StoreWithin, Stored, Within, PlacedOn
  <1> QED
    BY <1>1, <1>4, <1>6

LEMMA NotWrittenWithin ==
  ASSUME Typed, UNCHANGED apiVars, NEW j, NEW s, LogWithin(j, s), StoreWithin(j, s)
  PROVE  Grown /\ LogWithin(j, s)' /\ StoreWithin(j, s)'
  BY NotWritten DEF Typed, LogWithin, StoreWithin, Stored, apiVars

LEMMA HeldKept ==
  ASSUME NEW j, NEW s, Assigned(j, s)
  PROVE  /\ UNCHANGED submitted => SubmitsWithin(j, s)'
         /\ UNCHANGED tasks => TasksWithin(j, s)'
         /\ UNCHANGED beat => BeatsWithin(j, s)'
  BY DEF Assigned, SubmitsWithin, TasksWithin, BeatsWithin, BeatWithin, Covers

LEMMA ViewWithin ==
  ASSUME Typed, NEW k \in 0 .. Len(log), NEW j \in Jobs, NEW s, LogWithin(j, s),
         StoreAt(k)[j] # NoJob
  PROVE  Within(StoreAt(k)[j], s)
  <1>1. PICK i \in 1 .. Len(log) : log[i].name = j /\ log[i].value = StoreAt(k)[j]
    BY StoreAtAnnounced DEF Typed
  <1>2. Within(log[i].value, s)
    BY <1>1 DEF LogWithin
  <1> QED
    BY <1>1, <1>2

-----------------------------------------------------------------------------
(* The steps that keep every job within its division.                      *)
LEMMA UserShared ==
  ASSUME Typed, NEW i \in Jobs, CreateJob(i) \/ DeleteJob(i), NEW j \in Jobs, NEW s \in Shares,
         Assigned(j, s)
  PROVE  Assigned(j, s)'
  <1>1. UNCHANGED <<submitted, tasks, beat>>
    BY DEF CreateJob, DeleteJob, flowVars, beatVars
  <1> DEFINE e == log'[Len(log) + 1]
  <1>2. ASSUME NEW old, NEW w, Grown, Len(log') = Len(log) + 1, e.name = i, e.value = old,
               jobs' = [jobs EXCEPT ![i] = w], i = j => Within(old, s),
               i = j /\ w # NoJob => Within(w, s)
        PROVE  Assigned(j, s)'
    <2>1. \A k \in 1 .. Len(log') : k \notin 1 .. Len(log) => k = Len(log) + 1
      BY <1>2 DEF Grown
    <2>2. LogWithin(j, s)'
      BY <1>2, <2>1, LogWithinGrown DEF Assigned
    <2>3. ASSUME NEW x, x = jobs'[j], x # NoJob PROVE Within(x, s)
      BY <1>2, <2>3 DEF Typed, StoreFits, Assigned, StoreWithin, Stored
    <2>4. StoreWithin(j, s)'
      BY <2>3 DEF StoreWithin, Stored, Within, PlacedOn
    <2> QED
      BY <1>1, <2>2, <2>4, HeldKept DEF Assigned
  <1>3. CASE CreateJob(i)
    <2>1. e = [type |-> "ADD", name |-> i, value |-> NewJob]
      BY <1>3, CreateAnnounces
    <2>2. /\ Grown /\ Len(log') = Len(log) + 1 /\ jobs' = [jobs EXCEPT ![i] = NewJob]
          /\ e.name = i /\ e.value = NewJob
      BY <1>3, <2>1, CreateAnnounces
    <2> HIDE DEF e
    <2> QED
      BY <1>2, <2>2, NewJobModest
  <1>4. CASE DeleteJob(i)
    <2>1. e = [type |-> "DELETE", name |-> i, value |-> jobs[i]]
      BY <1>4, DeleteAnnounces
    <2>2. /\ Grown /\ Len(log') = Len(log) + 1 /\ jobs' = [jobs EXCEPT ![i] = NoJob]
          /\ e.name = i /\ e.value = jobs[i] /\ Stored(i)
      BY <1>4, <2>1, DeleteAnnounces DEF Stored
    <2>3. i = j => Within(jobs[i], s)
      BY <2>2 DEF Assigned, StoreWithin
    <2> HIDE DEF e
    <2> QED
      BY <1>2, <2>2, <2>3
  <1> QED
    BY <1>3, <1>4

LEMMA QuietShared ==
  ASSUME Typed, UNCHANGED <<apiVars, submitted, tasks, beat>>, NEW j \in Jobs, NEW s \in Shares,
         Assigned(j, s)
  PROVE  Assigned(j, s)'
  BY NotWrittenWithin, HeldKept DEF Assigned

\* An event k may bring the tasks of its job j on c to n.
Brings(k, c, j, n) ==
  /\ log[k].name = j /\ c \in PlacedOn(log[k].value)
  /\ n <= tasks[c][j] \/ n <= log[k].value.replicas[c].count \/ n <= 1
  /\ Whole => n \in {tasks[c][j], log[k].value.replicas[c].count}

LEMMA SubmissionBrings ==
  ASSUME Typed, Manager # "slurm", NEW c \in Clusters, NEW k, TakeFlowEvent(c, k),
         NEW j \in Jobs, j = log[k].name, ~SubmitRefused(c, j),
         NEW added \in 0 .. NewTasks(c, j, log[k].value),
         Whole => added \in {0, NewTasks(c, j, log[k].value)}
  PROVE  tasks[c][j] + added \in Nat /\ Brings(k, c, j, tasks[c][j] + added)
  <1>1. c \in PlacedOn(log[k].value) /\ log[k].value \in JobValue
    BY TakenTyped
  <1> DEFINE count == log[k].value.replicas[c].count
             most == NewTasks(c, j, log[k].value)
  <1>2. tasks[c][j] \in Nat /\ most \in Nat /\ count \in Nat
    BY <1>1, NewTasksNat DEF JobValue, ReplicaStatus
  <1>3. tasks[c][j] + most <= tasks[c][j] \/ tasks[c][j] + most <= count \/ tasks[c][j] + most <= 1
    <2>1. CASE Manager = "ray"
      <3>1. ~(tasks[c][j] > 0) /\ most = 1
        BY <2>1 DEF NewTasks, SubmitRefused
      <3> HIDE DEF most
      <3> QED
        BY <1>2, <3>1
    <2>2. CASE Manager # "ray"
      <3>1. most = IF tasks[c][j] > 0 THEN 0 ELSE count
        BY <2>2, JobFlowAssumption DEF NewTasks, PodsCreated
      <3> HIDE DEF most, count
      <3> QED
        BY <1>2, <3>1
    <2> QED
      BY <2>1, <2>2
  <1>4. added \in Nat /\ added <= most /\ (Whole => added \in {0, most})
    BY <1>2
  <1>5. Whole => most = IF tasks[c][j] > 0 THEN 0 ELSE count
    BY DEF Whole, NewTasks, PodsCreated
  <1> DEFINE n == tasks[c][j] + added
  <1>6. /\ n \in Nat /\ (n <= tasks[c][j] \/ n <= count \/ n <= 1)
        /\ Whole => n \in {tasks[c][j], count}
    <2> HIDE DEF most, count
    <2>1. n <= tasks[c][j] + most
      BY <1>2, <1>4
    <2> QED
      BY <1>2, <1>3, <1>4, <1>5, <2>1
  <1>7. Brings(k, c, j, n)
    <2> HIDE DEF n
    <2> QED
      BY <1>1, <1>6 DEF Brings
  <1> QED
    BY <1>6, <1>7

(* What a submission adds to a cluster is what the job has there.          *)
LEMMA SubmitTasks ==
  ASSUME Typed, Manager # "slurm", NEW c \in Clusters, Submit(c) \/ SubmitRaises(c)
  PROVE  \/ tasks' = tasks
         \/ \E k \in 1 .. Len(log) : \E n \in Nat : \E j \in Jobs :
              Brings(k, c, j, n) /\ tasks' = [tasks EXCEPT ![c][j] = n]
  <1>1. ASSUME NEW k \in 1 .. Len(log), TakeFlowEvent(c, k), NEW j \in Jobs, j = log[k].name,
               ~SubmitRefused(c, j), NEW added \in 0 .. NewTasks(c, j, log[k].value),
               Whole => added \in {0, NewTasks(c, j, log[k].value)},
               tasks' = [tasks EXCEPT ![c][j] = tasks[c][j] + added]
        PROVE  \E n \in Nat : Brings(k, c, j, n) /\ tasks' = [tasks EXCEPT ![c][j] = n]
    <2>1. tasks[c][j] + added \in Nat /\ Brings(k, c, j, tasks[c][j] + added)
      BY <1>1, SubmissionBrings
    <2> QED
      BY <1>1, <2>1
  <1>2. CASE Submit(c)
    <2>1. PICK k \in (flowAt[c] + 1) .. Len(log) :
            /\ TakeFlowEvent(c, k) /\ ~SubmitRefused(c, log[k].name)
            /\ tasks' = [tasks EXCEPT ![c][log[k].name] =
                           tasks[c][log[k].name] + NewTasks(c, log[k].name, log[k].value)]
      BY <1>2 DEF Submit
    <2>2. PICK i \in 1 .. Len(log) : i = k
      BY <2>1, TakenTyped
    <2>3. PICK j \in Jobs : j = log[i].name
      BY <2>1, <2>2, TakenTyped
    <2>4. PICK added \in Nat : added = NewTasks(c, j, log[i].value)
      BY <2>1, <2>2, TakenTyped, NewTasksNat
    <2>5. added \in 0 .. NewTasks(c, j, log[i].value)
      BY <2>4
    <2>6. /\ TakeFlowEvent(c, i) /\ ~SubmitRefused(c, j)
          /\ tasks' = [tasks EXCEPT ![c][j] = tasks[c][j] + added]
      BY <2>1, <2>2, <2>3, <2>4
    <2>7. \E n \in Nat : Brings(i, c, j, n) /\ tasks' = [tasks EXCEPT ![c][j] = n]
      BY <1>1, <2>3, <2>4, <2>5, <2>6
    <2> QED
      BY <2>7
  <1>3. CASE SubmitRaises(c) /\ tasks' # tasks
    <2>1. PICK k \in (flowAt[c] + 1) .. Len(log) :
            /\ TakeFlowEvent(c, k)
            /\ ~SubmitRefused(c, log[k].name) /\ failures < MaxFailures
            /\ \E some \in 0 .. NewTasks(c, log[k].name, log[k].value) :
                 /\ Manager # "kubernetes" => some = 0
                 /\ tasks' = [tasks EXCEPT ![c][log[k].name] = tasks[c][log[k].name] + some]
      BY <1>3 DEF SubmitRaises
    <2>2. PICK i \in 1 .. Len(log) : i = k
      BY <2>1, TakenTyped
    <2>3. PICK j \in Jobs : j = log[i].name
      BY <2>1, <2>2, TakenTyped
    <2>4. PICK added \in 0 .. NewTasks(c, j, log[i].value) :
            /\ Manager # "kubernetes" => added = 0
            /\ tasks' = [tasks EXCEPT ![c][j] = tasks[c][j] + added]
      BY <2>1, <2>2, <2>3
    <2>5. TakeFlowEvent(c, i) /\ ~SubmitRefused(c, j) /\ failures < MaxFailures
      BY <2>1, <2>2, <2>3
    <2>6. failures < MaxFailures => MaxFailures # 0
      BY DEF Typed, BoundsFit
    <2>7. Whole => added = 0
      BY <2>4, <2>5, <2>6 DEF Whole
    <2>8. \E n \in Nat : Brings(i, c, j, n) /\ tasks' = [tasks EXCEPT ![c][j] = n]
      BY <1>1, <2>3, <2>4, <2>5, <2>7
    <2> QED
      BY <2>8
  <1> QED
    BY <1>2, <1>3

LEMMA SubmitShared ==
  ASSUME Typed, Manager # "slurm", NEW c \in Clusters, Submit(c) \/ SubmitRaises(c),
         NEW j \in Jobs, NEW s \in Shares, Assigned(j, s)
  PROVE  Assigned(j, s)'
  <1>1. UNCHANGED <<apiVars, beat>> /\ s \in [Clusters -> Nat]
    BY NothingIsShared DEF Submit, SubmitRaises, beatVars
  <1>2. ASSUME NEW k \in 1 .. Len(log), log[k].name = j, c \in PlacedOn(log[k].value)
        PROVE  /\ Within(log[k].value, s) /\ s[c] >= 1 /\ log[k].value.replicas[c].count <= s[c]
               /\ Whole => log[k].value.replicas[c].count = s[c]
    BY <1>2 DEF Assigned, LogWithin, Within
  <1>3. TasksWithin(j, s)'
    <2>1. \A d \in Clusters : tasks[d] \in [Jobs -> Nat] /\ Covers(tasks[d][j], s[d])
      BY DEF Typed, FlowFits, TaskCounts, Assigned, TasksWithin
    <2>2. ASSUME NEW k \in 1 .. Len(log), NEW n \in Nat, NEW i \in Jobs,
                 Brings(k, c, i, n), tasks' = [tasks EXCEPT ![c][i] = n], NEW d \in Clusters
          PROVE  Covers(tasks'[d][j], s[d])
      <3>1. tasks'[d][j] = IF d = c /\ i = j THEN n ELSE tasks[d][j]
        BY <2>1, <2>2 DEF Typed, FlowFits
      <3>2. CASE d = c /\ i = j
        <4>1. /\ s[c] >= 1 /\ log[k].value.replicas[c].count <= s[c] /\ Covers(tasks[c][j], s[c])
              /\ Whole => log[k].value.replicas[c].count = s[c]
          BY <1>2, <2>1, <2>2, <3>2 DEF Brings
        <4>2. log[k].value.replicas[c].count \in Nat /\ s[c] \in Nat /\ tasks[c][j] \in Nat
          BY <1>1, <2>1, LogFacts DEF Typed, JobValue, ReplicaStatus
        <4>3. PICK count \in Nat : count = log[k].value.replicas[c].count
          BY <4>2
        <4>4. /\ n <= tasks[c][j] \/ n <= count \/ n <= 1
              /\ Whole => n \in {tasks[c][j], count}
          BY <2>2, <3>2, <4>3 DEF Brings
        <4>5. Covers(n, s[c])
          BY <4>1, <4>2, <4>3, <4>4 DEF Covers
        <4> QED
          BY <3>1, <3>2, <4>5
      <3> QED
        BY <2>1, <3>1, <3>2
    <2>3. \A d \in Clusters : Covers(tasks'[d][j], s[d])
      BY <2>1, <2>2, SubmitTasks
    <2> QED
      BY <2>3 DEF TasksWithin, Covers
  <1>4. SubmitsWithin(j, s)'
    <2>1. PICK k \in 1 .. Len(log), job \in JobValue, i \in Jobs :
             /\ log[k].name = i /\ log[k].value \in JobValue
             /\ c \in PlacedOn(log[k].value)
             /\ submitted' = [submitted EXCEPT ![c] = [name |-> i, job |-> job]]
             /\ \/ job.replicas = log[k].value.replicas
                \/ job = WithReplicas(log[k].value, c, "FAILED", log[k].value.replicas[c].count)
      BY SubmitMoves
    <2>2. i = j => Within(job, s)
      <3> SUFFICES ASSUME i = j PROVE Within(job, s)
        OBVIOUS
      <3>1. /\ Within(log[k].value, s) /\ log[k].value.replicas[c].count <= s[c]
            /\ Whole => log[k].value.replicas[c].count = s[c]
        BY <1>2, <2>1
      <3>2. CASE job.replicas = log[k].value.replicas
        BY <3>1, <3>2 DEF Within, PlacedOn
      <3>3. CASE job = WithReplicas(log[k].value, c, "FAILED", log[k].value.replicas[c].count)
        <4> DEFINE value == log[k].value
                   count == value.replicas[c].count
                   state == "FAILED"
        <4>1. /\ value \in JobValue /\ c \in PlacedOn(value) /\ count \in Nat /\ state \in TaskStates
              /\ Within(value, s) /\ count <= s[c] /\ (Whole => count = s[c])
              /\ job = WithReplicas(value, c, state, count)
          BY <2>1, <3>1, <3>3 DEF JobValue, ReplicaStatus, TaskStates
        <4> HIDE DEF value, count, state
        <4> QED
          BY <4>1, ReplicasWithin
      <3> QED
        BY <2>1, <3>2, <3>3
    <2> DEFINE t == [name |-> i, job |-> job]
    <2>3. t.name = i /\ t.job = job /\ submitted' = [submitted EXCEPT ![c] = t]
      BY <2>1
    <2> HIDE DEF t
    <2>4. ASSUME NEW d \in Clusters, NEW u, u = submitted'[d], u # Idle, u.name = j
          PROVE  Within(u.job, s)
      BY <2>2, <2>3, <2>4 DEF Typed, FlowFits, Assigned, SubmitsWithin
    <2> QED
      BY <2>4 DEF SubmitsWithin, Within, PlacedOn
  <1> QED
    BY <1>1, <1>3, <1>4, NotWrittenWithin, HeldKept DEF Assigned

LEMMA WriteBackShared ==
  ASSUME Typed, NEW c \in Clusters, WriteBack(c), NEW j \in Jobs, NEW s \in Shares, Assigned(j, s)
  PROVE  Assigned(j, s)'
  <1> DEFINE t == submitted[c]
  <1>1. t \in Entry /\ t # Idle
    BY DEF WriteBack, Typed, FlowFits
  <1>2. /\ IF Stored(t.name) THEN PutJob(t.name, t.job) ELSE UNCHANGED apiVars
        /\ submitted' = [submitted EXCEPT ![c] = Idle] /\ UNCHANGED <<tasks, beat>>
    BY DEF WriteBack, beatVars
  <1>3. t.name \in Jobs /\ t.job \in JobValue /\ (t.name = j => Within(t.job, s))
    BY <1>1 DEF Entry, Assigned, SubmitsWithin
  <1> HIDE DEF t
  <1>4. LogWithin(j, s)' /\ StoreWithin(j, s)'
    BY <1>2, <1>3, PutWithin, NotWrittenWithin DEF Assigned
  <1>5. ASSUME NEW d \in Clusters, NEW u, u = submitted'[d], u # Idle, u.name = j
        PROVE  Within(u.job, s)
    BY <1>2, <1>5 DEF Typed, FlowFits, Assigned, SubmitsWithin
  <1>6. SubmitsWithin(j, s)'
    BY <1>5 DEF SubmitsWithin, Within, PlacedOn
  <1> QED
    BY <1>2, <1>4, <1>6, HeldKept DEF Assigned

LEMMA RemoveShared ==
  ASSUME Typed, NEW c \in Clusters,
         RemoveFromCluster(c) \/ RemoveRaises(c) \/ \E i \in Jobs : TasksVanish(c, i),
         NEW j \in Jobs, NEW s \in Shares, Assigned(j, s)
  PROVE  Assigned(j, s)'
  <1>1. /\ Typed' /\ UNCHANGED <<apiVars, submitted, beat>>
        /\ \A d \in Clusters : /\ tasks'[d][j] <= tasks[d][j]
                               /\ Whole => tasks'[d][j] \in {0, tasks[d][j]}
    BY TasksOnlyGo DEF beatVars, Whole
  <1>2. \A d \in Clusters : tasks'[d][j] \in Nat /\ tasks[d][j] \in Nat /\ s[d] \in Nat
    BY <1>1, NothingIsShared DEF Typed, FlowFits, TaskCounts
  <1>3. \A d \in Clusters : Covers(tasks'[d][j], s[d])
    BY <1>1, <1>2 DEF Assigned, TasksWithin, Covers
  <1> QED
    BY <1>1, <1>3, NotWrittenWithin, HeldKept DEF Assigned, TasksWithin, Covers

(* A job controller moves on; the other ones stay.                         *)
LEMMA BeatMovedWithin ==
  ASSUME NEW c \in Clusters, NEW j \in Jobs, NEW s, BeatsWithin(j, s),
         \A d \in Clusters : d # c => beat'[d] = beat[d],
         BeatWithin(beat'[c], c, j, s)
  PROVE  BeatsWithin(j, s)'
  <1>1. \A d \in Clusters : BeatWithin(beat'[d], d, j, s)
    BY DEF BeatsWithin
  <1> QED
    BY <1>1 DEF BeatsWithin, BeatWithin, Covers, Within, PlacedOn

LEMMA HeartbeatShared ==
  ASSUME Typed, OneLife, Final, Manager # "slurm", NEW c \in Clusters, Heartbeat(c),
         NEW j \in Jobs, NEW s \in Shares, Assigned(j, s)
  PROVE  Assigned(j, s)'
  <1>1. /\ retries[c] \in Nat /\ retries[c] + 1 \in Nat /\ RetryLimit \in Nat
        /\ retries[c] + Running(beat[c]) <= beats /\ beats \in 0 .. MaxBeats
        /\ beat[c].stage # "cleanup" /\ MaxBeats <= RetryLimit /\ MaxBeats \in Nat
    BY JobFlowAssumption DEF Typed, BoundsFit, BeatFits, Final, BeatsAgree, BeatAgrees, OneLife
  <1>2. UNCHANGED <<submitted, tasks>>
    BY DEF Heartbeat, BeatLists, BeatListRaises, BeatCopies, BeatEnds, CleanupEnds, BeatUpdates,
           CleanupEvicts, flowVars
  <1>3. ASSUME BeatsWithin(j, s)', UNCHANGED apiVars
        PROVE  Assigned(j, s)'
    BY <1>2, <1>3, NotWrittenWithin, HeldKept DEF Assigned
  <1>4. ASSUME NEW counter \in Nat, EndBeat(c, counter), counter <= RetryLimit
        PROVE  BeatsWithin(j, s)'
    <2>1. beat'[c] = Idle /\ \A d \in Clusters : d # c => beat'[d] = beat[d]
      BY <1>4, EndBeatMoves
    <2>2. BeatWithin(beat'[c], c, j, s)
      BY <2>1 DEF BeatWithin, Idle
    <2> QED
      BY <2>1, <2>2, BeatMovedWithin DEF Assigned
  <1>5. CASE BeatLists(c)
    <2> DEFINE b == [stage |-> "listed", found |-> Listed(c)]
    <2>1. beat' = [beat EXCEPT ![c] = b] /\ UNCHANGED apiVars
      BY <1>5 DEF BeatLists, Goto
    <2>2. beat'[c] = b /\ \A d \in Clusters : d # c => beat'[d] = beat[d]
      BY <2>1 DEF Typed, BeatFits
    <2>3. b.stage = "listed" /\ b.found[j] = tasks[c][j]
      BY DEF Listed
    <2> HIDE DEF b
    <2>4. BeatWithin(b, c, j, s)
      BY <2>3 DEF BeatWithin, Assigned, TasksWithin
    <2> QED
      BY <1>3, <2>1, <2>2, <2>4, BeatMovedWithin DEF Assigned
  <1>6. CASE BeatListRaises(c)
    <2>1. EndBeat(c, retries[c] + 1) /\ UNCHANGED apiVars /\ beats < MaxBeats /\ beat[c] = Idle
      BY <1>6 DEF BeatListRaises
    <2>2. retries[c] + 1 <= RetryLimit
      BY <1>1, <2>1 DEF Running, Idle
    <2> QED
      BY <1>1, <1>3, <1>4, <2>1, <2>2
  <1>7. CASE BeatCopies(c)
    <2>1. /\ \A d \in Clusters : d # c => beat'[d] = beat[d]
          /\ \A d \in Clusters : TodoFits(d, beat'[d])
          /\ beat'[c].stage = "updating" /\ beat'[c].found = beat[c].found
          /\ \A i \in beat'[c].todo : beat'[c].found[i] > 0
          /\ UNCHANGED apiVars /\ beat[c].stage = "listed"
      BY <1>7, BeatCopiesMoves DEF BeatCopies
    <2>2. PICK k \in 0 .. Len(log) : beat'[c].view = StoreAt(k)
      BY <1>7, BeatCopiesMoves
    <2>3. Covers(beat[c].found[j], s[c])
      BY <2>1 DEF Assigned, BeatsWithin, BeatWithin
    <2>4. j \in beat'[c].todo => StoreAt(k)[j] # NoJob
      BY <2>1, <2>2 DEF TodoFits, PlacedHere
    <2>5. j \in beat'[c].todo => Within(StoreAt(k)[j], s)
      BY <2>4, ViewWithin DEF Assigned
    <2>6. BeatWithin(beat'[c], c, j, s)
      BY <2>1, <2>2, <2>3, <2>5 DEF BeatWithin
    <2> QED
      BY <1>3, <2>1, <2>6, BeatMovedWithin DEF Assigned
  <1>8. CASE BeatEnds(c)
    <2>1. EndBeat(c, retries[c]) /\ UNCHANGED apiVars
      BY <1>8 DEF BeatEnds
    <2>2. retries[c] <= RetryLimit
      BY <1>1 DEF Running
    <2> QED
      BY <1>1, <1>3, <1>4, <2>1, <2>2
  <1>9. ~CleanupEnds(c) /\ \A i \in Jobs : ~CleanupEvicts(c, i)
    BY <1>1 DEF CleanupEnds, CleanupEvicts
  <1>10. ASSUME NEW i \in Jobs, BeatUpdates(c, i)
         PROVE  Assigned(j, s)'
    <2>1. beat[c].stage = "updating" /\ i \in beat[c].todo
      BY <1>10 DEF BeatUpdates
    <2>2. CASE Stored(i)
      <3> DEFINE old == beat[c].view[i]
                 count == beat[c].found[i]
                 state == "RUNNING"
                 v == WithReplicas(old, c, state, count)
      <3>1. PutJob(i, v) /\ beat' = [beat EXCEPT ![c].todo = beat[c].todo \ {i}]
        BY <1>10, <2>2 DEF BeatUpdates
      <3>2. old \in JobValue /\ c \in PlacedOn(old) /\ v \in JobValue /\ count \in Nat
            /\ state \in TaskStates
        BY <2>1, BeatWrites, BeatValues DEF TaskStates
      <3>3. i = j => Within(old, s) /\ count <= s[c] /\ (Whole => count = s[c])
        BY <2>1 DEF Assigned, BeatsWithin, BeatWithin, Covers
      <3>4. /\ \A d \in Clusters : d # c => beat'[d] = beat[d]
            /\ beat'[c].stage = "updating" /\ beat'[c].view = beat[c].view
            /\ beat'[c].found = beat[c].found /\ beat'[c].todo = beat[c].todo \ {i}
        BY <2>1, <3>1, LessToDo
      <3> HIDE DEF old, count, state
      <3>5. i = j => Within(v, s)
        BY <3>2, <3>3, ReplicasWithin
      <3> HIDE DEF v
      <3>6. LogWithin(j, s)' /\ StoreWithin(j, s)'
        BY <3>1, <3>2, <3>5, PutWithin DEF Assigned
      <3>7. BeatWithin(beat'[c], c, j, s)
        BY <2>1, <3>4 DEF Assigned, BeatsWithin, BeatWithin
      <3>8. BeatsWithin(j, s)'
        BY <3>4, <3>7, BeatMovedWithin DEF Assigned
      <3> QED
        BY <1>2, <3>6, <3>8, HeldKept DEF Assigned
    <2>3. CASE ~Stored(i)
      <3>1. EndBeat(c, retries[c] + 1) /\ UNCHANGED apiVars
        BY <1>10, <2>3 DEF BeatUpdates
      <3>2. retries[c] + 1 <= RetryLimit
        BY <1>1, <2>1 DEF Running
      <3> QED
        BY <1>1, <1>3, <1>4, <3>1, <3>2
    <2> QED
      BY <2>2, <2>3
  <1> QED
    BY <1>5, <1>6, <1>7, <1>8, <1>9, <1>10 DEF Heartbeat

(* The scheduler gives a job its division, if it has none yet, and the     *)
(* division is the job's from then on.                                     *)
LEMMA DecideHeadShared ==
  ASSUME Typed, Shared, NEW queue \in Seq(Entry), QueueIsModest(queue), QueueIsNew(queue),
         DecideHead(queue), UNCHANGED <<submitted, tasks, beat>>, NEW j \in Jobs
  PROVE  /\ QueueIsModest(workload)'
         /\ \E s \in Shares : Assigned(j, s)'
         /\ Unplaced(j)' => Assigned(j, Nothing)'
  <1>0. ASSUME NEW s, LogWithin(j, s)', StoreWithin(j, s)', Assigned(j, s)
        PROVE  Assigned(j, s)'
    BY <1>0, HeldKept DEF Assigned
  <1>1. ASSUME UNCHANGED apiVars
        PROVE  /\ \E s \in Shares : Assigned(j, s)'
               /\ Unplaced(j)' => Assigned(j, Nothing)'
    <2>1. ASSUME NEW s, Assigned(j, s) PROVE Assigned(j, s)'
      BY <1>0, <1>1, <2>1, NotWrittenWithin DEF Assigned
    <2>2. Unplaced(j)' => Unplaced(j)
      BY <1>1 DEF apiVars, Unplaced, IsUpdate
    <2> QED
      BY <2>1, <2>2 DEF Shared
  <1>2. CASE queue = << >>
    <2>1. workload' = queue /\ UNCHANGED apiVars
      BY <1>2 DEF DecideHead
    <2>2. QueueIsModest(workload)'
      BY <2>1 DEF QueueIsModest, Modest, Within, PlacedOn
    <2> QED
      BY <1>1, <2>1, <2>2
  <1>3. CASE queue # << >>
    <2> DEFINE head == queue[1]
               i == head.name
    <2>1. head \in Entry /\ Head(queue) = head /\ 1 \in 1 .. Len(queue) /\ Len(queue) \in Nat
      BY <1>3, TailIs, ElementOfSeq
    <2>2. PICK job \in Decisions(head.job) :
            IF Stored(i)
            THEN PutJob(i, job) /\ workload' = Tail(queue)
            ELSE workload' = [queue EXCEPT ![1].job = job] /\ UNCHANGED apiVars
      BY <1>3, <2>1 DEF DecideHead
    <2>3. Unplaced(i) /\ i \in Jobs /\ head.job \in JobValue /\ Modest(head.job)
      BY <2>1 DEF QueueIsNew, QueueIsModest, Entry
    <2>4. job \in JobValue /\ Modest(job)
      BY <2>2, <2>3, DecisionsTyped, DecisionsModest
    <2>5. CASE ~Stored(i)
      <3> DEFINE decided == [queue[1] EXCEPT !.job = job]
      <3>1. decided \in Entry /\ decided.job = job
        BY <2>1, <2>4 DEF Entry
      <3>2. workload' = [queue EXCEPT ![1] = decided] /\ UNCHANGED apiVars
        BY <2>2, <2>5
      <3> HIDE DEF decided
      <3>3. /\ Len(workload') = Len(queue) /\ workload'[1] = decided
            /\ \A n \in 1 .. Len(queue) : n # 1 => workload'[n] = queue[n]
        BY <2>1, <3>1, <3>2, ExceptSeq
      <3>4. \A n \in 1 .. Len(workload') : Modest(workload'[n].job)
        BY <2>4, <3>1, <3>3 DEF QueueIsModest
      <3>5. QueueIsModest(workload)'
        BY <3>4 DEF QueueIsModest, Modest, Within, PlacedOn
      <3> QED
        BY <1>1, <3>2, <3>5
    <2>6. CASE Stored(i)
      <3>1. PutJob(i, job) /\ workload' = Tail(queue)
        BY <2>2, <2>6
      <3>2. \A n \in 1 .. Len(workload') : workload'[n] = queue[n + 1] /\ n + 1 \in 1 .. Len(queue)
        BY <1>3, <3>1, TailIs
      <3>3. \A n \in 1 .. Len(workload') : Modest(workload'[n].job)
        BY <3>2 DEF QueueIsModest
      <3>4. QueueIsModest(workload)'
        BY <3>3 DEF QueueIsModest, Modest, Within, PlacedOn
      <3>5. ASSUME NEW s, Assigned(j, s), i = j => Within(job, s)
            PROVE  Assigned(j, s)'
        BY <1>0, <2>3, <2>4, <3>1, <3>5, PutWithin DEF Assigned
      <3>6. CASE i = j
        <4>1. PICK s \in Shares : Within(job, s)
          BY <2>4 DEF Modest
        <4>2. Assigned(j, s)
          BY <2>3, <3>6, AssignedMore DEF Shared
        <4>3. Assigned(j, s)'
          BY <3>5, <4>1, <4>2
        <4>4. ~Unplaced(j)'
          <5>1. /\ Len(log') = Len(log) + 1 /\ Len(log) \in Nat
                /\ log'[Len(log) + 1] = [type |-> "UPDATE", name |-> i, value |-> job]
            BY <2>3, <2>4, <3>1, PutGrows DEF Typed, Grown
          <5>2. log'[Len(log) + 1].type = "UPDATE" /\ log'[Len(log) + 1].name = j
                /\ Len(log) + 1 \in 1 .. Len(log')
            BY <3>6, <5>1
          <5> QED
            BY <5>2 DEF Unplaced, IsUpdate
        <4> QED
          BY <3>4, <4>3, <4>4
      <3>7. CASE i # j
        <4>1. Unplaced(j)' => Unplaced(j)
          <5>1. Grown
            BY <2>3, <2>4, <3>1, PutGrows DEF Typed
          <5> QED
            BY <5>1 DEF Grown, Unplaced, IsUpdate
        <4> QED
          BY <3>4, <3>5, <3>7, <4>1 DEF Shared
      <3> QED
        BY <3>6, <3>7
    <2> QED
      BY <2>5, <2>6
  <1> QED
    BY <1>2, <1>3

LEMMA SharedKept ==
  ASSUME Grown, Shared, QueueIsModest(workload), workload' = workload \/ workload' = << >>,
         \A j \in Jobs : \A s \in Shares : Assigned(j, s) => Assigned(j, s)'
  PROVE  Shared' /\ QueueIsModest(workload)'
  <1>1. \A j \in Jobs : Unplaced(j)' => Unplaced(j)
    BY DEF Grown, Unplaced, IsUpdate
  <1>2. Shared'
    BY <1>1, NothingIsShared DEF Shared
  <1>3. QueueIsModest(workload)'
    BY DEF QueueIsModest, Modest, Within, PlacedOn
  <1> QED
    BY <1>2, <1>3

LEMMA ScheduleShared ==
  ASSUME Typed, Final, Shared, QueueIsModest(workload), Schedule
  PROVE  Shared' /\ QueueIsModest(workload)'
  <1>1. UNCHANGED <<submitted, tasks, beat>>
    BY DEF Schedule, ScheduleOnJobEvent, ScheduleOnClusterEvent, flowVars, beatVars
  <1>2. ASSUME NEW queue \in Seq(Entry), QueueIsModest(queue), QueueIsNew(queue), DecideHead(queue)
        PROVE  Shared' /\ QueueIsModest(workload)'
    <2>1. ASSUME NEW j \in Jobs
          PROVE  /\ QueueIsModest(workload)'
                 /\ \E s \in Shares : Assigned(j, s)'
                 /\ Unplaced(j)' => Assigned(j, Nothing)'
      BY <1>1, <1>2, DecideHeadShared
    <2>2. CASE Jobs = {}
      <3>1. queue = << >>
        <4> SUFFICES ASSUME queue # << >> PROVE FALSE
          OBVIOUS
        <4>1. queue[1] \in Entry
          BY <1>2, TailIs, ElementOfSeq
        <4> QED
          BY <2>2, <4>1 DEF Entry
      <3>2. workload' = << >>
        BY <1>2, <3>1 DEF DecideHead
      <3> QED
        BY <2>2, <3>2 DEF Shared, QueueIsModest
    <2>3. CASE Jobs # {}
      BY <2>1, <2>3 DEF Shared
    <2> QED
      BY <2>2, <2>3
  <1>3. CASE ScheduleOnClusterEvent
    BY <1>2, <1>3 DEF ScheduleOnClusterEvent, Typed, SchedulerFits, Final, QueueFits
  <1>4. CASE ScheduleOnJobEvent
    <2>1. PICK k \in (schedulerAt + 1) .. Len(log) :
            /\ SchedulerWants(log[k])
            /\ schedulerAt' = k
            /\ DecideHead(Append(workload, [name |-> log[k].name, job |-> log[k].value]))
      BY <1>4 DEF ScheduleOnJobEvent, NextEvent
    <2> DEFINE entry == [name |-> log[k].name, job |-> log[k].value]
               queue == Append(workload, entry)
    <2>2. /\ queue \in Seq(Entry) /\ QueueIsNew(queue)
          /\ \A n \in 1 .. Len(queue) : (n \in 1 .. Len(workload) /\ queue[n] = workload[n])
                                        \/ queue[n] = entry
      BY <1>4, <2>1, JobEventQueue
    <2>3. Modest(log[k].value)
      <3>1. k \in 1 .. Len(log) /\ log[k].name \in Jobs
        BY <2>1, LogFacts DEF Typed, SchedulerFits
      <3>2. PICK s \in Shares : Assigned(log[k].name, s)
        BY <3>1 DEF Shared
      <3> QED
        BY <3>1, <3>2 DEF Assigned, LogWithin, Modest
    <2>4. entry.job = log[k].value
      OBVIOUS
    <2>5. DecideHead(queue)
      BY <2>1
    <2> HIDE DEF entry, queue
    <2>6. QueueIsModest(queue)
      BY <2>2, <2>3, <2>4 DEF QueueIsModest
    <2> QED
      BY <1>2, <2>2, <2>5, <2>6
  <1> QED
    BY <1>3, <1>4 DEF Schedule

LEMMA InitShared == Init => Shared /\ QueueIsModest(workload)
  <1> SUFFICES ASSUME Init PROVE Shared /\ QueueIsModest(workload)
    OBVIOUS
  <1>1. /\ log = << >> /\ jobs = [j \in Jobs |-> NoJob] /\ workload = << >>
        /\ submitted = [c \in Clusters |-> Idle] /\ tasks = [c \in Clusters |-> NoTasks]
        /\ beat = [c \in Clusters |-> Idle]
    BY DEF Init, Store!Init
  <1>2. \A j \in Jobs : Assigned(j, Nothing)
    <2> SUFFICES ASSUME NEW j \in Jobs PROVE Assigned(j, Nothing)
      OBVIOUS
    <2>1. LogWithin(j, Nothing) /\ StoreWithin(j, Nothing) /\ SubmitsWithin(j, Nothing)
      BY <1>1 DEF LogWithin, StoreWithin, SubmitsWithin, Stored
    <2>2. TasksWithin(j, Nothing)
      BY <1>1 DEF TasksWithin, NoTasks, Nothing, Covers
    <2>3. BeatsWithin(j, Nothing)
      BY <1>1 DEF BeatsWithin, BeatWithin, Idle
    <2> QED
      BY <2>1, <2>2, <2>3 DEF Assigned
  <1>3. QueueIsModest(workload)
    BY <1>1 DEF QueueIsModest
  <1> QED
    BY <1>2, <1>3, NothingIsShared DEF Shared

LEMMA NextShared ==
  ASSUME Typed, OneLife, Final, Shared, QueueIsModest(workload), Manager # "slurm", [Next]_vars
  PROVE  Shared' /\ QueueIsModest(workload)'
  <1>0. Grown
    BY NextFinal
  <1>1. ASSUME UNCHANGED <<apiVars, submitted, tasks, beat>>,
               workload' = workload \/ workload' = << >>
        PROVE  Shared' /\ QueueIsModest(workload)'
    BY <1>0, <1>1, QuietShared, SharedKept
  <1>2. ASSUME NEW i \in Jobs, CreateJob(i) \/ DeleteJob(i)
        PROVE  Shared' /\ QueueIsModest(workload)'
    <2>1. workload' = workload
      BY <1>2 DEF CreateJob, DeleteJob, schedulerVars
    <2> QED
      BY <1>0, <1>2, <2>1, UserShared, SharedKept
  <1>3. CASE SchedulerRestarts
    BY <1>1, <1>3 DEF SchedulerRestarts, flowVars, beatVars
  <1>4. ASSUME NEW c \in Clusters, ClusterIsAdded(c) \/ ClusterBecomesReady(c)
        PROVE  Shared' /\ QueueIsModest(workload)'
    BY <1>1, <1>4 DEF ClusterIsAdded, ClusterBecomesReady, flowVars, beatVars
  <1>5. ASSUME NEW c \in Clusters, Submit(c) \/ SubmitRaises(c)
        PROVE  Shared' /\ QueueIsModest(workload)'
    <2>1. workload' = workload
      BY <1>5 DEF Submit, SubmitRaises, schedulerVars
    <2> QED
      BY <1>0, <1>5, <2>1, SubmitShared, SharedKept
  <1>6. ASSUME NEW c \in Clusters, WriteBack(c)
        PROVE  Shared' /\ QueueIsModest(workload)'
    <2>1. workload' = workload
      BY <1>6 DEF WriteBack, schedulerVars
    <2> QED
      BY <1>0, <1>6, <2>1, WriteBackShared, SharedKept
  <1>7. ASSUME NEW c \in Clusters,
               RemoveFromCluster(c) \/ RemoveRaises(c) \/ \E i \in Jobs : TasksVanish(c, i)
        PROVE  Shared' /\ QueueIsModest(workload)'
    <2>1. workload' = workload
      BY <1>7, TasksOnlyGo DEF schedulerVars
    <2> QED
      BY <1>0, <1>7, <2>1, RemoveShared, SharedKept
  <1>8. ASSUME NEW c \in Clusters, Heartbeat(c)
        PROVE  Shared' /\ QueueIsModest(workload)'
    <2>1. workload' = workload
      BY <1>8 DEF Heartbeat, BeatLists, BeatListRaises, BeatCopies, BeatEnds, CleanupEnds,
                  BeatUpdates, CleanupEvicts, schedulerVars
    <2> QED
      BY <1>0, <1>8, <2>1, HeartbeatShared, SharedKept
  <1>9. CASE UNCHANGED vars
    BY <1>1, <1>9 DEF vars, schedulerVars, flowVars, beatVars
  <1> QED
    BY <1>2, <1>3, <1>4, <1>5, <1>6, <1>7, <1>8, <1>9, ScheduleShared DEF Next, Flow

LEMMA SharedMeansNoMore ==
  ASSUME Typed, Shared
  PROVE  NoOverPlacement
  <1> SUFFICES ASSUME NEW j \in Jobs PROVE TasksOf(j) <= Replicas
    BY DEF NoOverPlacement
  <1> DEFINE held == [c \in Clusters |-> tasks[c][j]]
  <1>1. PICK s \in Shares : Assigned(j, s)
    BY DEF Shared
  <1>2. \A c \in Clusters : held[c] \in Int /\ s[c] \in Int /\ held[c] <= s[c]
    BY <1>1, NothingIsShared DEF Typed, FlowFits, TaskCounts, Assigned, TasksWithin, Covers
  <1>3. TasksOf(j) = SumFunctionOnSet(held, Clusters)
    BY DEF TasksOf, SumFunction
  <1>4. SumFunctionOnSet(s, Clusters) <= Replicas
    BY DEF Shares, SumFunction
  <1> HIDE DEF held
  <1>5. /\ SumFunctionOnSet(held, Clusters) \in Int /\ SumFunctionOnSet(s, Clusters) \in Int
        /\ SumFunctionOnSet(held, Clusters) <= SumFunctionOnSet(s, Clusters)
    BY <1>2, JobFlowAssumption, SumMonotone
  <1> QED
    BY <1>3, <1>4, <1>5, JobFlowAssumption

(* The clusters together never hold more tasks of a job than it has        *)
(* replicas, whatever the controllers overwrite, for every manager but     *)
(* Slurm's, under the conditions that make the placement final.            *)
THEOREM NoMoreThanReplicas == ASSUME MaxCreates <= 1, MaxBeats <= RetryLimit, Manager # "slurm"
                              PROVE  Spec => []NoOverPlacement
  <1> DEFINE Inv == Typed /\ Final /\ Shared /\ QueueIsModest(workload)
  <1>0. OneLife
    BY DEF OneLife
  <1>1. Init => Inv
    BY InitTyped, InitFinal, InitShared
  <1>2. Inv /\ [Next]_vars => Inv'
    BY <1>0, NextTyped, NextFinal, NextShared
  <1>3. Inv => NoOverPlacement
    BY SharedMeansNoMore
  <1> QED
    BY <1>1, <1>2, <1>3, PTL DEF Spec

-----------------------------------------------------------------------------
(* Why the controllers stop answering each other's writes, if none refuses *)
(* a submission and none comes to its retry limit.  Every event of the log *)
(* has a slot of its own, and there are only so many.  The slot of a       *)
(* creation or a deletion tells which it is.  All updates go back to an    *)
(* origin, which is a decision of the scheduler, a submission that raised  *)
(* or what a heartbeat writes of a job: a flow controller answers an       *)
(* update by adding its own job id to it.  The path of an update are the   *)
(* clusters whose controllers answered one another, from the origin on.    *)
(* None of them is there twice, since what they write has their job ids.   *)
Creations == Jobs \X (1 .. MaxCreates)
Origins == ({"decision"} \X Creations)
           \cup ({"failure"} \X (1 .. MaxFailures))
           \cup ({"beat"} \X ((1 .. MaxBeats) \X Jobs))

Paths == {p \in UNION {[1 .. n -> Clusters] : n \in 0 .. Cardinality(Clusters)} :
            \A i, k \in DOMAIN p : p[i] = p[k] => i = k}

First(kind, x) == [root |-> <<kind, x>>, path |-> << >>]
Updates == [root : Origins, path : Paths]
Slots == {First(kind, x) : kind \in {"add", "delete"}, x \in Creations} \cup Updates

LEMMA PathsAreSequences ==
  /\ << >> \in Paths /\ Paths \subseteq Seq(Clusters)
  /\ \A p \in Paths : \A i, k \in 1 .. Len(p) : p[i] = p[k] => i = k
  <1>1. Cardinality(Clusters) \in Nat
    BY JobFlowAssumption, FS_CardinalityType
  <1>2. << >> \in Paths
    <2>1. << >> \in [1 .. 0 -> Clusters] /\ DOMAIN << >> = {}
      OBVIOUS
    <2> QED
      BY <1>1, <2>1 DEF Paths
  <1>3. ASSUME NEW p \in Paths
        PROVE  p \in Seq(Clusters) /\ DOMAIN p = 1 .. Len(p)
    <2>1. PICK n \in 0 .. Cardinality(Clusters) : p \in [1 .. n -> Clusters]
      BY DEF Paths
    <2>2. n \in Nat
      BY <1>1
    <2>3. p \in Seq(Clusters)
      BY <2>1, <2>2, IsASeq
    <2> QED
      BY <2>3, LenProperties
  <1> QED
    BY <1>2, <1>3 DEF Paths

LEMMA CardinalityTo ==
  ASSUME NEW n \in Nat
  PROVE  Cardinality(1 .. n) = n
  <1>1. Cardinality(1 .. n) = IF 1 > n THEN 0 ELSE n - 1 + 1
    BY FS_Interval
  <1> QED
    BY <1>1

LEMMA PathGrows ==
  ASSUME NEW p \in Paths, NEW c \in Clusters, \A i \in 1 .. Len(p) : p[i] # c
  PROVE  Append(p, c) \in Paths
  <1> DEFINE q == Append(p, c)
  <1>1. /\ p \in Seq(Clusters) /\ Len(p) \in Nat
        /\ \A i, k \in 1 .. Len(p) : p[i] = p[k] => i = k
    BY PathsAreSequences, LenProperties
  <1>2. /\ q \in Seq(Clusters) /\ Len(q) = Len(p) + 1
        /\ \A i \in 1 .. Len(p) : q[i] = p[i]
        /\ q[Len(p) + 1] = c
    BY <1>1, AppendProperties
  <1> HIDE DEF q
  <1>3. Len(q) \in Nat /\ DOMAIN q = 1 .. Len(q) /\ q \in [1 .. Len(q) -> Clusters]
    BY <1>2, LenProperties
  <1>4. \A i, k \in DOMAIN q : q[i] = q[k] => i = k
    <2> SUFFICES ASSUME NEW i \in 1 .. Len(q), NEW k \in 1 .. Len(q), q[i] = q[k] PROVE i = k
      BY <1>3
    <2>1. (i \in 1 .. Len(p) \/ i = Len(p) + 1) /\ (k \in 1 .. Len(p) \/ k = Len(p) + 1)
      BY <1>1, <1>2
    <2> QED
      BY <1>1, <1>2, <2>1
  <1>5. Len(q) <= Cardinality(Clusters)
    <2>1. q \in Injection(1 .. Len(q), Clusters)
      BY <1>3, <1>4 DEF Injection, IsInjective
    <2>2. Cardinality(1 .. Len(q)) <= Cardinality(Clusters)
      BY <2>1, FS_Injection, JobFlowAssumption
    <2>3. Cardinality(1 .. Len(q)) = Len(q)
      BY <1>3, CardinalityTo
    <2> QED
      BY <2>2, <2>3
  <1>6. Cardinality(Clusters) \in Nat
    BY JobFlowAssumption, FS_CardinalityType
  <1>7. Len(q) \in 0 .. Cardinality(Clusters)
    BY <1>3, <1>5, <1>6
  <1>8. q \in Paths
    BY <1>3, <1>4, <1>7 DEF Paths
  <1> QED
    BY <1>8 DEF q

LEMMA CreationsFinite ==
  ASSUME IsFiniteSet(Jobs)
  PROVE  IsFiniteSet(Creations)
  <1>1. IsFiniteSet(1 .. MaxCreates)
    BY JobFlowAssumption, FS_Interval
  <1> QED
    BY <1>1, FS_Product DEF Creations

LEMMA PathsFinite == IsFiniteSet(Paths)
  <1>1. Cardinality(Clusters) \in Nat
    BY JobFlowAssumption, FS_CardinalityType
  <1> DEFINE N == 0 .. Cardinality(Clusters)
             Steps == (1 .. Cardinality(Clusters)) \X Clusters
             steps(p) == {<<i, p[i]>> : i \in DOMAIN p}
             f == [p \in Paths |-> steps(p)]
  <1>2. IsFiniteSet(SUBSET Steps)
    <2>1. IsFiniteSet(1 .. Cardinality(Clusters))
      BY <1>1, FS_Interval
    <2> QED
      BY <2>1, JobFlowAssumption, FS_Product, FS_SUBSET
  <1>3. ASSUME NEW p \in Paths
        PROVE  \E n \in 0 .. Cardinality(Clusters) : p \in [1 .. n -> Clusters]
    BY DEF Paths
  <1>4. \A p \in Paths : steps(p) \in SUBSET Steps
    <2> SUFFICES ASSUME NEW p \in Paths, NEW i \in DOMAIN p PROVE <<i, p[i]>> \in Steps
      OBVIOUS
    <2>1. PICK n \in 0 .. Cardinality(Clusters) : p \in [1 .. n -> Clusters]
      BY <1>3
    <2>2. i \in 1 .. Cardinality(Clusters)
      BY <1>1, <2>1
    <2> QED
      BY <2>1, <2>2
  <1>5. ASSUME NEW p \in Paths, NEW q \in Paths, steps(p) = steps(q) PROVE p = q
    <2>1. PICK n \in 0 .. Cardinality(Clusters) : p \in [1 .. n -> Clusters]
      BY <1>3
    <2>2. PICK m \in 0 .. Cardinality(Clusters) : q \in [1 .. m -> Clusters]
      BY <1>3
    <2>3. \A i \in DOMAIN p : i \in DOMAIN q /\ p[i] = q[i]
      <3> SUFFICES ASSUME NEW i \in DOMAIN p PROVE i \in DOMAIN q /\ p[i] = q[i]
        OBVIOUS
      <3>1. <<i, p[i]>> \in steps(q)
        BY <1>5
      <3> QED
        BY <3>1
    <2>4. \A i \in DOMAIN q : i \in DOMAIN p
      <3> SUFFICES ASSUME NEW i \in DOMAIN q PROVE i \in DOMAIN p
        OBVIOUS
      <3>1. <<i, q[i]>> \in steps(p)
        BY <1>5
      <3> QED
        BY <3>1
    <2>5. DOMAIN p = DOMAIN q
      BY <2>3, <2>4
    <2> QED
      BY <2>1, <2>2, <2>3, <2>5
  <1>6. f \in Injection(Paths, SUBSET Steps)
    <2> HIDE DEF Steps, steps
    <2> QED
      BY <1>4, <1>5 DEF Injection, IsInjective
  <1> HIDE DEF f, Steps
  <1> QED
    BY <1>2, <1>6, FS_Injection

LEMMA SlotsFinite ==
  ASSUME IsFiniteSet(Jobs)
  PROVE  IsFiniteSet(Slots) /\ Cardinality(Slots) \in Nat
  <1>1. IsFiniteSet(Creations)
    BY CreationsFinite
  <1>2. /\ IsFiniteSet({"decision"}) /\ IsFiniteSet({"failure"}) /\ IsFiniteSet({"beat"})
        /\ IsFiniteSet({"add"}) /\ IsFiniteSet({"delete"})
    BY FS_Singleton
  <1>3. IsFiniteSet(1 .. MaxFailures) /\ IsFiniteSet((1 .. MaxBeats) \X Jobs)
    <2>1. {MaxFailures, MaxBeats} \subseteq Nat
      BY JobFlowAssumption
    <2>2. IsFiniteSet(1 .. MaxFailures) /\ IsFiniteSet(1 .. MaxBeats)
      BY <2>1, FS_Interval
    <2> QED
      BY <2>2, FS_Product
  <1>4. IsFiniteSet(Origins)
    <2>1. /\ IsFiniteSet({"decision"} \X Creations)
          /\ IsFiniteSet({"failure"} \X (1 .. MaxFailures))
          /\ IsFiniteSet({"beat"} \X ((1 .. MaxBeats) \X Jobs))
      BY <1>1, <1>2, <1>3, FS_Product
    <2> QED
      BY <2>1, FS_Union DEF Origins
  <1> DEFINE Kinds == {"add", "delete"}
             All == ((Kinds \X Creations) \cup Origins) \X Paths
             f == [l \in Slots |-> <<l.root, l.path>>]
  <1>5. IsFiniteSet(All)
    <2>1. IsFiniteSet(Kinds)
      <3>1. IsFiniteSet({"add"} \cup {"delete"})
        BY <1>2, FS_Union
      <3>2. {"add"} \cup {"delete"} = {"add", "delete"}
        OBVIOUS
      <3> QED
        BY <3>1, <3>2
    <2>2. IsFiniteSet(Kinds \X Creations)
      BY <1>1, <2>1, FS_Product
    <2>3. IsFiniteSet((Kinds \X Creations) \cup Origins)
      BY <1>4, <2>2, FS_Union
    <2> QED
      BY <2>3, PathsFinite, FS_Product
  <1>6. \A l \in Slots : /\ l = [root |-> l.root, path |-> l.path]
                         /\ l.root \in (Kinds \X Creations) \cup Origins /\ l.path \in Paths
    BY PathsAreSequences DEF Slots, Updates, First
  <1>7. f \in Injection(Slots, All)
    <2>1. f \in [Slots -> All]
      BY <1>6
    <2>2. \A l, m \in Slots : f[l] = f[m] => l = m
      <3> SUFFICES ASSUME NEW l \in Slots, NEW m \in Slots, f[l] = f[m] PROVE l = m
        OBVIOUS
      <3>1. l.root = m.root /\ l.path = m.path
        OBVIOUS
      <3> QED
        BY <1>6, <3>1
    <2> QED
      BY <2>1, <2>2 DEF Injection, IsInjective
  <1> HIDE DEF f, All
  <1>8. IsFiniteSet(Slots)
    BY <1>5, <1>7, FS_Injection
  <1> QED
    BY <1>8, FS_CardinalityType

-----------------------------------------------------------------------------
(* Nothing is evicted, and no job controller comes to its retry limit.     *)
Tame(v) == ~IsEvicted(v)
ViewTame(b) == /\ b.stage # "cleanup"
               /\ b.stage = "updating" => \A j \in b.todo : Tame(b.view[j])

Calm ==
  /\ \A i \in 1 .. Len(log) : Tame(log[i].value)
  /\ \A j \in Jobs : Stored(j) => Tame(jobs[j])
  /\ \A n \in 1 .. Len(workload) : Tame(workload[n].job)
  /\ \A c \in Clusters : submitted[c] # Idle => Tame(submitted[c].job)
  /\ \A c \in Clusters : /\ ViewTame(beat[c])
                         /\ retries[c] + Running(beat[c]) <= beats

LEMMA TameAnnounced ==
  ASSUME StoreFits, Calm, NEW e \in Store!Event, log' = Append(log, e), Tame(e.value),
         NEW j \in Jobs, NEW v \in JobValue \cup {NoJob}, jobs' = [jobs EXCEPT ![j] = v],
         v # NoJob => Tame(v)
  PROVE  /\ \A i \in 1 .. Len(log') : Tame(log'[i].value)
         /\ \A i \in Jobs : Stored(i)' => Tame(jobs'[i])
  <1>1. /\ Grown /\ Len(log') = Len(log) + 1 /\ log'[Len(log) + 1] = e
    BY Announced
  <1>2. \A i \in 1 .. Len(log') : i \in 1 .. Len(log) \/ i = Len(log) + 1
    BY <1>1 DEF Grown
  <1>3. \A i \in 1 .. Len(log') : Tame(log'[i].value)
    BY <1>1, <1>2 DEF Grown, Calm
  <1>4. \A i \in Jobs : Stored(i)' => Tame(jobs'[i])
    BY DEF Calm, Stored, StoreFits
  <1> QED
    BY <1>3, <1>4

LEMMA TamePut ==
  ASSUME StoreFits, Calm, NEW j \in Jobs, NEW v \in JobValue, PutJob(j, v), Tame(v)
  PROVE  /\ \A i \in 1 .. Len(log') : Tame(log'[i].value)
         /\ \A i \in Jobs : Stored(i)' => Tame(jobs'[i])
  <1> DEFINE e == [type |-> "UPDATE", name |-> j, value |-> v]
  <1>1. e \in Store!Event /\ e.value = v
    BY DEF Store!Event
  <1>2. log' = Append(log, e) /\ jobs' = [jobs EXCEPT ![j] = v]
    BY DEF PutJob, Store!Modify, Store!Announce
  <1> HIDE DEF e
  <1> QED
    BY <1>1, <1>2, TameAnnounced

LEMMA UserCalm ==
  ASSUME Typed, Calm, NEW j \in Jobs, CreateJob(j) \/ DeleteJob(j)
  PROVE  Calm'
  <1>1. UNCHANGED <<workload, submitted, beat, retries, beats>>
    BY DEF CreateJob, DeleteJob, schedulerVars, flowVars, beatVars
  <1>2. /\ \A i \in 1 .. Len(log') : Tame(log'[i].value)
        /\ \A i \in Jobs : Stored(i)' => Tame(jobs'[i])
    <2>1. CASE CreateJob(j)
      <3> DEFINE e == [type |-> "ADD", name |-> j, value |-> NewJob]
      <3>1. e \in Store!Event /\ e.value = NewJob
        BY NewJobTyped DEF Store!Event
      <3>2. log' = Append(log, e) /\ jobs' = [jobs EXCEPT ![j] = NewJob]
        BY <2>1 DEF CreateJob, Store!Add, Store!Announce
      <3> HIDE DEF e
      <3> QED
        BY <3>1, <3>2, TameAnnounced, NewJobTyped DEF Tame, Typed
    <2>2. CASE DeleteJob(j)
      <3> DEFINE e == [type |-> "DELETE", name |-> j, value |-> jobs[j]]
      <3>1. Stored(j) /\ log' = Append(log, e) /\ jobs' = [jobs EXCEPT ![j] = NoJob]
        BY <2>2 DEF DeleteJob, Store!Remove, Store!Announce, Stored
      <3>2. e \in Store!Event /\ Tame(e.value)
        BY <3>1 DEF Store!Event, Typed, StoreFits, Calm, Stored
      <3> HIDE DEF e
      <3> QED
        BY <3>1, <3>2, TameAnnounced DEF Typed
    <2> QED
      BY <2>1, <2>2
  <1> QED
    BY <1>1, <1>2 DEF Calm, ViewTame, Tame, IsEvicted, Running

(* The queue keeps being tame, whether the head is written or not.         *)
LEMMA DecideHeadCalm ==
  ASSUME Typed, Calm, NEW queue \in Seq(Entry), DecideHead(queue),
         \A n \in 1 .. Len(queue) : Tame(queue[n].job)
  PROVE  /\ \A i \in 1 .. Len(log') : Tame(log'[i].value)
         /\ \A i \in Jobs : Stored(i)' => Tame(jobs'[i])
         /\ \A n \in 1 .. Len(workload') : Tame(workload'[n].job)
  <1>1. CASE queue = << >>
    BY <1>1 DEF DecideHead, apiVars, Calm, Stored
  <1>2. CASE queue # << >>
    <2>1. /\ Head(queue) \in Entry /\ Head(queue) = queue[1] /\ Len(queue) \in Nat
          /\ 1 \in 1 .. Len(queue) /\ Tail(queue) \in Seq(Entry) /\ Len(Tail(queue)) = Len(queue) - 1
          /\ \A n \in 1 .. Len(Tail(queue)) : Tail(queue)[n] = queue[n + 1]
      BY <1>2, HeadTailProperties, LenProperties
    <2>2. PICK job \in Decisions(Head(queue).job) :
            IF Stored(Head(queue).name)
            THEN PutJob(Head(queue).name, job) /\ workload' = Tail(queue)
            ELSE workload' = [queue EXCEPT ![1].job = job] /\ UNCHANGED apiVars
      BY <1>2 DEF DecideHead
    <2>3. job \in JobValue /\ Tame(job)
      BY <2>1, DecisionsTyped DEF Entry, Tame
    <2>4. CASE Stored(Head(queue).name)
      <3>1. \A n \in 1 .. Len(workload') : n + 1 \in 1 .. Len(queue) /\ workload'[n] = queue[n + 1]
        BY <2>1, <2>2, <2>4
      <3> QED
        BY <2>1, <2>2, <2>3, <2>4, <3>1, TamePut DEF Entry, Typed
    <2>5. CASE ~Stored(Head(queue).name)
      <3> DEFINE decided == [queue[1] EXCEPT !.job = job]
      <3>1. decided \in Entry /\ decided.job = job
        BY <2>1, <2>3 DEF Entry
      <3>2. workload' = [queue EXCEPT ![1] = decided]
        BY <2>2, <2>5
      <3> HIDE DEF decided
      <3>3. /\ workload' \in Seq(Entry) /\ Len(workload') = Len(queue)
            /\ \A n \in 1 .. Len(queue) : workload'[n] = IF n = 1 THEN decided ELSE queue[n]
        BY <2>1, <3>1, <3>2, ExceptSeq
      <3> QED
        BY <2>2, <2>3, <2>5, <3>1, <3>3 DEF apiVars, Calm, Stored
    <2> QED
      BY <2>4, <2>5
  <1> QED
    BY <1>1, <1>2

LEMMA AppendTame ==
  ASSUME Typed, Calm, NEW k \in 1 .. Len(log)
  PROVE  LET queue == Append(workload, [name |-> log[k].name, job |-> log[k].value])
         IN  /\ queue \in Seq(Entry) /\ Len(queue) = Len(workload) + 1 /\ Len(workload) \in Nat
             /\ \A n \in 1 .. Len(queue) : Tame(queue[n].job)
  <1> DEFINE x == [name |-> log[k].name, job |-> log[k].value]
             queue == Append(workload, x)
  <1>1. x \in Entry /\ Tame(x.job)
    BY LogFacts DEF Entry, Typed, Calm
  <1>2. workload \in Seq(Entry) /\ Len(workload) \in Nat
    BY LenProperties DEF Typed, SchedulerFits
  <1> HIDE DEF x
  <1>3. /\ queue \in Seq(Entry) /\ Len(queue) = Len(workload) + 1
        /\ \A n \in 1 .. Len(workload) : queue[n] = workload[n]
        /\ queue[Len(workload) + 1] = x
    BY <1>1, <1>2, AppendProperties
  <1> HIDE DEF queue
  <1>4. \A n \in 1 .. Len(queue) : n \in 1 .. Len(workload) \/ n = Len(workload) + 1
    BY <1>2, <1>3
  <1>5. \A n \in 1 .. Len(queue) : Tame(queue[n].job)
    BY <1>1, <1>3, <1>4 DEF Calm
  <1> QED
    BY <1>2, <1>3, <1>5 DEF queue, x

LEMMA ScheduleCalm ==
  ASSUME Typed, Calm, Schedule
  PROVE  Calm'
  <1>1. UNCHANGED <<submitted, beat, retries, beats>>
    BY DEF Schedule, ScheduleOnJobEvent, ScheduleOnClusterEvent, flowVars, beatVars
  <1>2. \E queue \in Seq(Entry) : DecideHead(queue) /\ \A n \in 1 .. Len(queue) : Tame(queue[n].job)
    <2>1. CASE ScheduleOnJobEvent
      <3>1. PICK k \in NextEvent({i \in (schedulerAt + 1) .. Len(log) : SchedulerWants(log[i])}) :
              DecideHead(Append(workload, [name |-> log[k].name, job |-> log[k].value]))
        BY <2>1 DEF ScheduleOnJobEvent
      <3>2. k \in 1 .. Len(log)
        BY <3>1, LogFacts DEF NextEvent, Typed, SchedulerFits
      <3> QED
        BY <3>1, <3>2, AppendTame
    <2>2. CASE ScheduleOnClusterEvent
      BY <2>2 DEF ScheduleOnClusterEvent, Typed, SchedulerFits, Calm
    <2> QED
      BY <2>1, <2>2 DEF Schedule
  <1>3. /\ \A i \in 1 .. Len(log') : Tame(log'[i].value)
        /\ \A i \in Jobs : Stored(i)' => Tame(jobs'[i])
        /\ \A n \in 1 .. Len(workload') : Tame(workload'[n].job)
    BY <1>2, DecideHeadCalm
  <1> QED
    BY <1>1, <1>3 DEF Calm, ViewTame, Tame, IsEvicted, Running

LEMMA QuietCalm ==
  ASSUME Typed, Calm, UNCHANGED <<apiVars, submitted, beat, retries, beats>>,
         workload' = workload \/ workload' = << >>
  PROVE  Calm'
  <1>1. \A n \in 1 .. Len(workload') : Tame(workload'[n].job)
    BY DEF Calm
  <1> QED
    BY <1>1 DEF Calm, ViewTame, Tame, IsEvicted, Running, apiVars, Stored

LEMMA SubmitCalm ==
  ASSUME Typed, Calm, NEW c \in Clusters, Submit(c) \/ SubmitRaises(c)
  PROVE  Calm'
  <1>1. PICK k \in 1 .. Len(log), job \in JobValue :
          /\ log[k].value \in JobValue
          /\ submitted' = [submitted EXCEPT ![c] = [name |-> log[k].name, job |-> job]]
          /\ \/ job.replicas = log[k].value.replicas
             \/ job = WithReplicas(log[k].value, c, "FAILED", log[k].value.replicas[c].count)
    BY SubmitMoves
  <1>2. Tame(log[k].value)
    BY DEF Calm
  <1>3. Tame(job)
    <2>1. CASE job.replicas = log[k].value.replicas
      BY <1>2, <2>1 DEF Tame, IsEvicted
    <2>2. CASE job = WithReplicas(log[k].value, c, "FAILED", log[k].value.replicas[c].count)
      <3>1. log[k].value.replicas[c].count \in Nat /\ "FAILED" \in TaskStates
        BY <1>1 DEF JobValue, ReplicaStatus, TaskStates
      <3> QED
        BY <1>1, <1>2, <2>2, <3>1, ReplicasWritten DEF Tame
    <2> QED
      BY <1>1, <2>1, <2>2
  <1>4. \A d \in Clusters : submitted'[d] # Idle => Tame(submitted'[d].job)
    BY <1>1, <1>3 DEF Typed, FlowFits, Calm
  <1>5. UNCHANGED <<apiVars, workload, beat, retries, beats>>
    BY DEF Submit, SubmitRaises, schedulerVars, beatVars
  <1> QED
    BY <1>4, <1>5 DEF Calm, ViewTame, Tame, IsEvicted, Running, apiVars, Stored

LEMMA WriteBackCalm ==
  ASSUME Typed, Calm, NEW c \in Clusters, WriteBack(c)
  PROVE  Calm'
  <1>1. /\ submitted[c] # Idle /\ submitted' = [submitted EXCEPT ![c] = Idle]
        /\ IF Stored(submitted[c].name) THEN PutJob(submitted[c].name, submitted[c].job)
           ELSE UNCHANGED apiVars
        /\ UNCHANGED <<workload, beat, retries, beats>>
    BY DEF WriteBack, schedulerVars, beatVars
  <1>2. submitted[c].name \in Jobs /\ submitted[c].job \in JobValue /\ Tame(submitted[c].job)
    BY <1>1 DEF Typed, FlowFits, Entry, Calm
  <1>3. /\ \A i \in 1 .. Len(log') : Tame(log'[i].value)
        /\ \A i \in Jobs : Stored(i)' => Tame(jobs'[i])
    <2>1. CASE Stored(submitted[c].name)
      BY <1>1, <1>2, <2>1, TamePut DEF Typed
    <2>2. CASE ~Stored(submitted[c].name)
      BY <1>1, <2>2 DEF apiVars, Calm, Stored
    <2> QED
      BY <2>1, <2>2
  <1>4. \A d \in Clusters : submitted'[d] # Idle => Tame(submitted'[d].job)
    BY <1>1 DEF Typed, FlowFits, Calm
  <1> QED
    BY <1>1, <1>3, <1>4 DEF Calm, ViewTame, Tame, IsEvicted, Running

(* A heartbeat moves one job controller.                                   *)
LEMMA BeatMovedCalm ==
  ASSUME Typed, Calm, NEW c \in Clusters, beats' \in Nat, beats <= beats',
         \A d \in Clusters : d # c => beat'[d] = beat[d] /\ retries'[d] = retries[d],
         ViewTame(beat'[c]), retries'[c] + Running(beat'[c]) <= beats'
  PROVE  \A d \in Clusters : ViewTame(beat'[d]) /\ retries'[d] + Running(beat'[d]) <= beats'
  <1> SUFFICES ASSUME NEW d \in Clusters, d # c
               PROVE  ViewTame(beat[d]) /\ retries[d] + Running(beat[d]) <= beats'
    OBVIOUS
  <1>1. retries[d] + Running(beat[d]) \in Nat /\ beats \in Nat
    BY DEF Typed, BeatFits, BoundsFit, Running
  <1> QED
    BY <1>1 DEF Calm

LEMMA EndBeatCalm ==
  ASSUME Typed, Calm, MaxBeats <= RetryLimit, NEW c \in Clusters, NEW counter \in Nat,
         EndBeat(c, counter), beats' \in 0 .. MaxBeats, beats <= beats', counter <= beats'
  PROVE  \A d \in Clusters : ViewTame(beat'[d]) /\ retries'[d] + Running(beat'[d]) <= beats'
  <1>1. MaxBeats \in Nat /\ RetryLimit \in Nat /\ beats' \in Nat /\ counter <= RetryLimit
    BY JobFlowAssumption
  <1>2. /\ \A d \in Clusters : d # c => beat'[d] = beat[d] /\ retries'[d] = retries[d]
        /\ retries'[c] = counter /\ beat'[c] = Idle
    BY <1>1, EndBeatMoves
  <1>3. ViewTame(Idle) /\ Running(Idle) = 0
    BY DEF ViewTame, Idle, Running
  <1> QED
    BY <1>1, <1>2, <1>3, BeatMovedCalm

LEMMA HeartbeatCalm ==
  ASSUME Typed, Calm, MaxBeats <= RetryLimit, NEW c \in Clusters, Heartbeat(c)
  PROVE  Calm'
  <1>1. /\ beats \in 0 .. MaxBeats /\ MaxBeats \in Nat
        /\ retries[c] \in Nat /\ retries[c] + 1 \in Nat
        /\ retries[c] + Running(beat[c]) <= beats /\ ViewTame(beat[c])
    BY JobFlowAssumption DEF Typed, BoundsFit, BeatFits, Calm
  <1>2. ASSUME UNCHANGED <<apiVars, schedulerVars, flowVars>>,
               \A d \in Clusters : ViewTame(beat'[d]) /\ retries'[d] + Running(beat'[d]) <= beats'
        PROVE  Calm'
    BY <1>2 DEF Calm, ViewTame, Tame, IsEvicted, Running, apiVars, Stored, schedulerVars, flowVars
  <1>3. CASE BeatLists(c)
    <2> DEFINE b == [stage |-> "listed", found |-> Listed(c)]
    <2>1. beat' = [beat EXCEPT ![c] = b] /\ beats' = beats + 1 /\ retries' = retries /\ beat[c] = Idle
      BY <1>3 DEF BeatLists, Goto
    <2>2. beat'[c] = b /\ \A d \in Clusters : d # c => beat'[d] = beat[d]
      BY <2>1 DEF Typed, BeatFits
    <2>3. ViewTame(b) /\ Running(b) = 1 /\ Running(Idle) = 0
      BY DEF ViewTame, Running, Idle
    <2> HIDE DEF b
    <2>4. \A d \in Clusters : ViewTame(beat'[d]) /\ retries'[d] + Running(beat'[d]) <= beats'
      BY <1>1, <2>1, <2>2, <2>3, BeatMovedCalm
    <2> QED
      BY <1>2, <1>3, <2>4 DEF BeatLists
  <1>4. CASE BeatListRaises(c)
    <2>1. EndBeat(c, retries[c] + 1) /\ beats' = beats + 1 /\ beats < MaxBeats /\ beat[c] = Idle
      BY <1>4 DEF BeatListRaises
    <2>2. Running(Idle) = 0
      BY DEF Running, Idle
    <2>3. beats' \in 0 .. MaxBeats /\ beats <= beats' /\ retries[c] + 1 <= beats'
      BY <1>1, <2>1, <2>2
    <2> QED
      BY <1>1, <1>2, <1>4, <2>1, <2>3, EndBeatCalm DEF BeatListRaises
  <1>5. CASE BeatCopies(c)
    <2>1. /\ \A d \in Clusters : TodoFits(d, beat'[d])
          /\ \A d \in Clusters : d # c => beat'[d] = beat[d]
          /\ beat'[c].stage = "updating" /\ beat[c].stage = "listed"
          /\ UNCHANGED <<apiVars, schedulerVars, flowVars, retries, beats>>
      BY <1>5, BeatCopiesMoves DEF BeatCopies
    <2>2. PICK k \in 0 .. Len(log) : beat'[c].view = StoreAt(k)
      BY <1>5, BeatCopiesMoves
    <2>3. ASSUME NEW j \in beat'[c].todo PROVE Tame(beat'[c].view[j])
      <3>1. j \in PlacedHere(c, StoreAt(k))
        BY <2>1, <2>2 DEF TodoFits
      <3>2. j \in Jobs /\ StoreAt(k)[j] # NoJob
        BY <3>1 DEF PlacedHere
      <3>3. PICK i \in 1 .. Len(log) : log[i].value = StoreAt(k)[j]
        BY <3>2, StoreAtAnnounced DEF Typed
      <3>4. Tame(log[i].value)
        BY DEF Calm
      <3> QED
        BY <2>2, <3>3, <3>4
    <2>4. ViewTame(beat'[c]) /\ Running(beat'[c]) = 1 /\ Running(beat[c]) = 1
      BY <2>1, <2>3 DEF ViewTame, Running
    <2>5. \A d \in Clusters : ViewTame(beat'[d]) /\ retries'[d] + Running(beat'[d]) <= beats'
      BY <1>1, <2>1, <2>4, BeatMovedCalm
    <2> QED
      BY <1>2, <2>1, <2>5
  <1>6. CASE BeatEnds(c)
    <2>1. EndBeat(c, retries[c]) /\ UNCHANGED beats /\ beat[c].stage = "updating"
      BY <1>6 DEF BeatEnds
    <2>2. retries[c] <= beats' /\ beats' \in 0 .. MaxBeats /\ beats <= beats'
      BY <1>1, <2>1 DEF Running
    <2> QED
      BY <1>1, <1>2, <1>6, <2>1, <2>2, EndBeatCalm DEF BeatEnds
  <1>7. ~CleanupEnds(c) /\ \A j \in Jobs : ~CleanupEvicts(c, j)
    BY <1>1 DEF CleanupEnds, CleanupEvicts, ViewTame
  <1>8. ASSUME NEW j \in Jobs, BeatUpdates(c, j)
        PROVE  Calm'
    <2>1. beat[c].stage = "updating" /\ j \in beat[c].todo
          /\ UNCHANGED <<schedulerVars, flowVars, beats>>
      BY <1>8 DEF BeatUpdates
    <2>2. Running(beat[c]) = 1
      BY <2>1 DEF Running
    <2>3. CASE Stored(j)
      <3> DEFINE old == beat[c].view[j]
                 count == beat[c].found[j]
                 state == "RUNNING"
                 v == WithReplicas(old, c, state, count)
      <3>1. PutJob(j, v) /\ UNCHANGED retries
            /\ beat' = [beat EXCEPT ![c].todo = beat[c].todo \ {j}]
        BY <1>8, <2>3 DEF BeatUpdates
      <3>2. v \in JobValue /\ old \in JobValue /\ Tame(old)
        BY <1>1, <2>1, BeatWrites DEF ViewTame
      <3>3. count \in Nat /\ state \in TaskStates /\ state # "EVICTED"
        BY <2>1, WorkingStage DEF Working, TaskCounts, TaskStates
      <3> HIDE DEF old, count, state
      <3>4. Tame(v)
        BY <3>2, <3>3, ReplicasWritten DEF Tame
      <3> HIDE DEF v
      <3>5. /\ \A i \in 1 .. Len(log') : Tame(log'[i].value)
            /\ \A i \in Jobs : Stored(i)' => Tame(jobs'[i])
        BY <3>1, <3>2, <3>4, TamePut DEF Typed
      <3>6. /\ \A d \in Clusters : d # c => beat'[d] = beat[d]
            /\ beat'[c].stage = "updating" /\ beat'[c].view = beat[c].view
            /\ beat'[c].todo = beat[c].todo \ {j}
        BY <2>1, <3>1, LessToDo
      <3>7. ViewTame(beat'[c]) /\ Running(beat'[c]) = 1
        BY <1>1, <2>1, <3>6 DEF ViewTame, Running
      <3>8. \A d \in Clusters : ViewTame(beat'[d]) /\ retries'[d] + Running(beat'[d]) <= beats'
        <4>1. retries' = retries /\ beats' = beats /\ beats' \in Nat /\ beats <= beats'
          BY <1>1, <2>1, <3>1
        <4>2. retries'[c] + Running(beat'[c]) <= beats'
          BY <1>1, <2>2, <3>7, <4>1
        <4> QED
          BY <3>6, <3>7, <4>1, <4>2, BeatMovedCalm
      <3>9. \A n \in 1 .. Len(workload') : Tame(workload'[n].job)
        BY <2>1 DEF Calm, schedulerVars
      <3>10. \A d \in Clusters : submitted'[d] # Idle => Tame(submitted'[d].job)
        BY <2>1 DEF Calm, flowVars
      <3> QED
        BY <3>5, <3>8, <3>9, <3>10 DEF Calm, ViewTame, Tame, IsEvicted, Running
    <2>4. CASE ~Stored(j)
      <3>1. EndBeat(c, retries[c] + 1) /\ UNCHANGED apiVars
        BY <1>8, <2>4 DEF BeatUpdates
      <3>2. retries[c] + 1 <= beats' /\ beats' \in 0 .. MaxBeats /\ beats <= beats'
        BY <1>1, <2>1, <2>2
      <3> QED
        BY <1>1, <1>2, <2>1, <3>1, <3>2, EndBeatCalm
    <2> QED
      BY <2>3, <2>4
  <1> QED
    BY <1>3, <1>4, <1>5, <1>6, <1>7, <1>8 DEF Heartbeat

LEMMA InitCalm == Init => Calm
  <1> SUFFICES ASSUME Init PROVE Calm
    OBVIOUS
  <1>1. log = << >> /\ workload = << >> /\ Len(log) = 0 /\ Len(workload) = 0
        /\ jobs = [j \in Jobs |-> NoJob]
    BY DEF Init, Store!Init
  <1> QED
    BY <1>1 DEF Init, Calm, ViewTame, Running, Idle, Stored

LEMMA NextCalm ==
  ASSUME Typed, Calm, MaxBeats <= RetryLimit, [Next]_vars
  PROVE  Calm'
  <1>1. CASE UNCHANGED vars
    BY <1>1, QuietCalm DEF vars, schedulerVars, flowVars, beatVars
  <1>2. ASSUME NEW j \in Jobs, CreateJob(j) \/ DeleteJob(j) PROVE Calm'
    BY <1>2, UserCalm
  <1>3. CASE Schedule \/ SchedulerRestarts
    <2>1. SchedulerRestarts => Calm'
      BY QuietCalm DEF SchedulerRestarts, flowVars, beatVars
    <2> QED
      BY <1>3, <2>1, ScheduleCalm
  <1>4. ASSUME NEW c \in Clusters,
               \/ ClusterIsAdded(c) \/ ClusterBecomesReady(c)
               \/ Flow(c) \/ Heartbeat(c)
               \/ \E j \in Jobs : TasksVanish(c, j)
        PROVE  Calm'
    <2>1. ASSUME \/ ClusterIsAdded(c) \/ ClusterBecomesReady(c)
                 \/ RemoveFromCluster(c) \/ RemoveRaises(c)
                 \/ \E j \in Jobs : TasksVanish(c, j)
          PROVE  Calm'
      BY <2>1, QuietCalm DEF ClusterIsAdded, ClusterBecomesReady, RemoveFromCluster, RemoveRaises,
                             TasksVanish, schedulerVars, flowVars, beatVars
    <2> QED
      BY <1>4, <2>1, SubmitCalm, WriteBackCalm, HeartbeatCalm DEF Flow
  <1> QED
    BY <1>1, <1>2, <1>3, <1>4 DEF Next

-----------------------------------------------------------------------------
(* The slots in use.  lab[i] is the slot of event i, and pend[c] that of   *)
(* the event a flow controller is about to write.                          *)
Held(c) == submitted[c] # Idle
Taken(lab, pend, l) == \/ \E i \in 1 .. Len(lab) : lab[i] = l
                       \/ \E c \in Clusters : Held(c) /\ pend[c] = l

\* The update with which c answers the one that has slot m.
Answer(m, c) == [root |-> m.root, path |-> Append(m.path, c)]

\* The updates that none but the clusters with a job id have answered.
AnsweredBy(ids) == {m \in Updates : \A i \in 1 .. Len(m.path) : m.path[i] \in ids}

\* c has taken the event that has slot m.
Seen(lab, c, m) == \E k \in 1 .. Len(lab) : k <= flowAt[c] /\ lab[k] = m

\* An event fits its slot.
FitsSlot(e, l) == /\ e.type = "UPDATE" => l \in AnsweredBy(e.value.ids)
                  /\ e.type = "ADD" => \E x \in Creations : l = First("add", x)

Pending == [Clusters -> Slots \cup {Idle}]

Tree(lab, pend) ==
  /\ Len(lab) = Len(log)
  /\ \A i, k \in 1 .. Len(lab) : lab[i] = lab[k] => i = k
  /\ \A c \in Clusters : Held(c) => \A i \in 1 .. Len(lab) : lab[i] # pend[c]
  /\ \A c, d \in Clusters : Held(c) /\ Held(d) /\ pend[c] = pend[d] => c = d
  /\ \A m \in Updates, c \in Clusters : Taken(lab, pend, Answer(m, c)) => Seen(lab, c, m)
  /\ \A i \in 1 .. Len(lab) : FitsSlot(log[i], lab[i])
  /\ \A c \in Clusters : Held(c) => pend[c] \in AnsweredBy(submitted[c].job.ids)

LEMMA SlotFacts ==
  /\ Updates \subseteq Slots
  /\ \A x \in Creations : First("add", x) \in Slots /\ First("delete", x) \in Slots
  /\ \A x \in Creations, ids \in SUBSET Clusters : First("decision", x) \in AnsweredBy(ids)
  /\ \A n \in 1 .. MaxFailures, ids \in SUBSET Clusters : First("failure", n) \in AnsweredBy(ids)
  /\ \A n \in 1 .. MaxBeats, j \in Jobs, ids \in SUBSET Clusters :
       First("beat", <<n, j>>) \in AnsweredBy(ids)
  /\ \A ids \in SUBSET Clusters : AnsweredBy(ids) \subseteq Updates
  <1>1. << >> \in Paths /\ Len(<< >>) = 0
    BY PathsAreSequences
  <1>2. \A l : l.path = << >> => \A ids : \A i \in 1 .. Len(l.path) : l.path[i] \in ids
    BY <1>1
  <1>3. /\ \A x \in Creations : First("decision", x) \in Updates
        /\ \A n \in 1 .. MaxFailures : First("failure", n) \in Updates
        /\ \A n \in 1 .. MaxBeats, j \in Jobs : First("beat", <<n, j>>) \in Updates
    BY <1>1 DEF Updates, Origins, First
  <1>4. \A kind, x : First(kind, x).path = << >>
    BY DEF First
  <1> QED
    BY <1>2, <1>3, <1>4 DEF AnsweredBy, Slots

LEMMA FirstIsDistinct ==
  ASSUME NEW a, NEW b, NEW x, NEW y, First(a, x) = First(b, y)
  PROVE  a = b /\ x = y
  <1>1. First(a, x).root = <<a, x>> /\ First(b, y).root = <<b, y>>
    BY DEF First
  <1> QED
    BY <1>1

LEMMA AnswerFacts ==
  ASSUME NEW m \in Updates, NEW c \in Clusters
  PROVE  /\ \A kind, x : First(kind, x) # Answer(m, c)
         /\ \A n \in Updates, d \in Clusters : Answer(m, c) = Answer(n, d) => m = n /\ c = d
         /\ \A ids \in SUBSET Clusters : m \in AnsweredBy(ids) /\ c \notin ids
              => Answer(m, c) \in AnsweredBy(ids \cup {c})
  <1>1. m = [root |-> m.root, path |-> m.path] /\ m.root \in Origins /\ m.path \in Paths
    BY DEF Updates
  <1>2. m.path \in Seq(Clusters) /\ Len(m.path) \in Nat
    BY <1>1, PathsAreSequences, LenProperties
  <1>3. /\ Append(m.path, c) \in Seq(Clusters) /\ Append(m.path, c) # << >>
        /\ Len(Append(m.path, c)) = Len(m.path) + 1
        /\ \A i \in 1 .. Len(m.path) : Append(m.path, c)[i] = m.path[i]
        /\ Append(m.path, c)[Len(m.path) + 1] = c
    BY <1>2, AppendProperties
  <1>4. Answer(m, c).root = m.root /\ Answer(m, c).path = Append(m.path, c)
    BY DEF Answer
  <1>5. \A kind, x : First(kind, x) # Answer(m, c)
    <2>1. \A kind, x : First(kind, x).path = << >>
      BY DEF First
    <2> QED
      BY <1>3, <1>4, <2>1
  <1>6. ASSUME NEW n \in Updates, NEW d \in Clusters, Answer(m, c) = Answer(n, d)
        PROVE  m = n /\ c = d
    <2>1. n = [root |-> n.root, path |-> n.path] /\ n.path \in Seq(Clusters)
      BY PathsAreSequences DEF Updates
    <2>2. n.root = m.root /\ Append(n.path, d) = Append(m.path, c)
      BY <1>6 DEF Answer
    <2>3. n.path = m.path /\ d = c
      BY <1>2, <2>1, <2>2, AppendInjective
    <2> QED
      BY <1>1, <2>1, <2>2, <2>3
  <1>7. ASSUME NEW ids \in SUBSET Clusters, m \in AnsweredBy(ids), c \notin ids
        PROVE  Answer(m, c) \in AnsweredBy(ids \cup {c})
    <2>1. \A i \in 1 .. Len(m.path) : m.path[i] \in ids
      BY <1>7 DEF AnsweredBy
    <2>2. Append(m.path, c) \in Paths
      BY <1>1, <1>7, <2>1, PathGrows
    <2>3. Answer(m, c) \in Updates
      BY <1>1, <2>2 DEF Answer, Updates
    <2>4. \A i \in 1 .. Len(Append(m.path, c)) : Append(m.path, c)[i] \in ids \cup {c}
      <3>1. \A i \in 1 .. Len(Append(m.path, c)) : i \in 1 .. Len(m.path) \/ i = Len(m.path) + 1
        BY <1>2, <1>3
      <3> QED
        BY <1>3, <2>1, <3>1
    <2> QED
      BY <1>4, <2>3, <2>4 DEF AnsweredBy
  <1> QED
    BY <1>5, <1>6, <1>7

(* A slot that is in use is a slot.                                        *)
LEMMA TakenSlots ==
  ASSUME NEW lab \in Seq(Slots), NEW pend, NEW l, Tree(lab, pend), Typed, Taken(lab, pend, l)
  PROVE  l \in Slots
  <1>1. CASE \E i \in 1 .. Len(lab) : lab[i] = l
    BY <1>1, ElementOfSeq
  <1>2. CASE \E c \in Clusters : Held(c) /\ pend[c] = l
    BY <1>2, SlotFacts DEF Tree, AnsweredBy
  <1> QED
    BY <1>1, <1>2 DEF Taken

(* An event is written, from the hand of a controller or not.              *)
LEMMA TreeWritten ==
  ASSUME NEW lab \in Seq(Slots), NEW pend \in Pending, Tree(lab, pend), NEW l \in Slots, NEW e,
         Grown, Len(log') = Len(log) + 1, log'[Len(log) + 1] = e, flowAt' = flowAt,
         \A i \in 1 .. Len(lab) : lab[i] # l,
         \A c \in Clusters : Held(c)' => /\ Held(c) /\ submitted'[c] = submitted[c]
                                         /\ pend[c] # l,
         \A m \in Updates, c \in Clusters : l = Answer(m, c) => Seen(lab, c, m),
         FitsSlot(e, l)
  PROVE  /\ Append(lab, l) \in Seq(Slots) /\ Len(Append(lab, l)) = Len(lab) + 1
         /\ \A i \in 1 .. Len(lab) : Append(lab, l)[i] = lab[i]
         /\ Tree(Append(lab, l), pend)'
         /\ \A m : Taken(Append(lab, l), pend, m)' => Taken(lab, pend, m) \/ m = l
  <1> DEFINE lab2 == Append(lab, l)
  <1>1. /\ lab2 \in Seq(Slots) /\ Len(lab2) = Len(lab) + 1 /\ Len(lab) \in Nat
        /\ \A i \in 1 .. Len(lab) : lab2[i] = lab[i]
        /\ lab2[Len(lab) + 1] = l
    BY AppendProperties, LenProperties
  <1> HIDE DEF lab2
  <1>2. \A i \in 1 .. Len(lab2) : i \in 1 .. Len(lab) \/ i = Len(lab) + 1
    BY <1>1
  <1>3. \A i \in 1 .. Len(lab) : i \in 1 .. Len(lab2)
    BY <1>1
  <1>4. \A m : Taken(lab2, pend, m)' => Taken(lab, pend, m) \/ m = l
    BY <1>1, <1>2 DEF Taken
  <1>5. Len(lab2) = Len(log')
    BY <1>1 DEF Tree
  <1>6. \A i, k \in 1 .. Len(lab2) : lab2[i] = lab2[k] => i = k
    BY <1>1, <1>2 DEF Tree
  <1>7. \A c \in Clusters : Held(c)' => \A i \in 1 .. Len(lab2) : lab2[i] # pend[c]
    BY <1>1, <1>2 DEF Tree
  <1>8. \A c, d \in Clusters : Held(c)' /\ Held(d)' /\ pend[c] = pend[d] => c = d
    BY DEF Tree
  <1>9. \A m \in Updates, c \in Clusters : Seen(lab, c, m) => Seen(lab2, c, m)'
    BY <1>1, <1>3 DEF Seen
  <1>10. \A m \in Updates, c \in Clusters : Taken(lab2, pend, Answer(m, c))' => Seen(lab2, c, m)'
    <2> SUFFICES ASSUME NEW m \in Updates, NEW c \in Clusters, Taken(lab2, pend, Answer(m, c))'
                 PROVE  Seen(lab, c, m)
      BY <1>9
    <2>1. Taken(lab, pend, Answer(m, c)) \/ Answer(m, c) = l
      BY <1>4
    <2> QED
      BY <2>1 DEF Tree
  <1>11. \A i \in 1 .. Len(lab2) : FitsSlot(log'[i], lab2[i])
    <2>1. Len(lab) = Len(log) /\ \A i \in 1 .. Len(lab) : FitsSlot(log[i], lab[i])
      BY DEF Tree
    <2> QED
      BY <1>1, <1>2, <2>1 DEF Grown
  <1>12. \A c \in Clusters : Held(c)' => pend[c] \in AnsweredBy(submitted'[c].job.ids)
    BY DEF Tree
  <1>13. Tree(lab2, pend)'
    BY <1>5, <1>6, <1>7, <1>8, <1>10, <1>11, <1>12 DEF Tree, FitsSlot
  <1> QED
    BY <1>1, <1>4, <1>13 DEF lab2

(* A controller takes an event, and holds what it is to write.             *)
LEMMA TreeHeld ==
  ASSUME NEW lab \in Seq(Slots), NEW pend \in Pending, Tree(lab, pend), NEW l \in Slots,
         NEW c \in Clusters, ~Taken(lab, pend, l), log' = log,
         \A d \in Clusters : d # c => submitted'[d] = submitted[d] /\ flowAt'[d] = flowAt[d],
         flowAt[c] \in Nat, flowAt'[c] \in Nat, flowAt[c] <= flowAt'[c],
         \A m \in Updates, d \in Clusters : l = Answer(m, d) => d = c /\ Seen(lab, c, m)',
         l \in AnsweredBy(submitted'[c].job.ids)
  PROVE  /\ [pend EXCEPT ![c] = l] \in Pending
         /\ Tree(lab, [pend EXCEPT ![c] = l])'
         /\ \A m : Taken(lab, [pend EXCEPT ![c] = l], m)' => Taken(lab, pend, m) \/ m = l
  <1> DEFINE pend2 == [pend EXCEPT ![c] = l]
  <1>1. pend2 \in Pending /\ pend2[c] = l /\ \A d \in Clusters : d # c => pend2[d] = pend[d]
    BY DEF Pending
  <1> HIDE DEF pend2
  <1>2. \A m : Taken(lab, pend2, m)' => Taken(lab, pend, m) \/ m = l
    BY <1>1 DEF Taken, Held
  <1>3. \A d \in Clusters : Held(d)' => \A i \in 1 .. Len(lab) : lab[i] # pend2[d]
    BY <1>1 DEF Tree, Held, Taken
  <1>4. \A d, e \in Clusters : Held(d)' /\ Held(e)' /\ pend2[d] = pend2[e] => d = e
    BY <1>1 DEF Tree, Held, Taken
  <1>5. \A m \in Updates, d \in Clusters : Seen(lab, d, m) => Seen(lab, d, m)'
    BY LenProperties DEF Seen
  <1>6. \A m \in Updates, d \in Clusters : Taken(lab, pend2, Answer(m, d))' => Seen(lab, d, m)'
    <2> SUFFICES ASSUME NEW m \in Updates, NEW d \in Clusters, Taken(lab, pend2, Answer(m, d))'
                 PROVE  Seen(lab, d, m)'
      OBVIOUS
    <2>1. Taken(lab, pend, Answer(m, d)) \/ Answer(m, d) = l
      BY <1>2
    <2> QED
      BY <1>5, <2>1 DEF Tree
  <1>7. \A d \in Clusters : Held(d)' => pend2[d] \in AnsweredBy(submitted'[d].job.ids)
    BY <1>1 DEF Tree, Held
  <1>8. Tree(lab, pend2)'
    BY <1>3, <1>4, <1>6, <1>7 DEF Tree, FitsSlot
  <1> QED
    BY <1>1, <1>2, <1>8 DEF pend2

(* Nothing is written.                                                     *)
LEMMA TreeKept ==
  ASSUME NEW lab \in Seq(Slots), NEW pend \in Pending, Tree(lab, pend), log' = log,
         \A c \in Clusters : Held(c)' => Held(c) /\ submitted'[c] = submitted[c],
         \A c \in Clusters : flowAt[c] \in Nat /\ flowAt'[c] \in Nat /\ flowAt[c] <= flowAt'[c]
  PROVE  /\ Tree(lab, pend)'
         /\ \A m : Taken(lab, pend, m)' => Taken(lab, pend, m)
  <1>1. \A m : Taken(lab, pend, m)' => Taken(lab, pend, m)
    BY DEF Taken
  <1>2. \A m \in Updates, c \in Clusters : Seen(lab, c, m) => Seen(lab, c, m)'
    BY LenProperties DEF Seen
  <1> QED
    BY <1>1, <1>2 DEF Tree, FitsSlot

-----------------------------------------------------------------------------
(* What is behind us when a slot is in use.  turn[c] is the number of the  *)
(* heartbeat that c's job controller is in.                                *)
Active(c) == beat[c].stage \in {"listed", "updating"}

Behind(lab, turn, l) ==
  /\ \A j \in Jobs, n \in Nat : l = First("add", <<j, n>>) => n <= created[j]
  /\ \A j \in Jobs, n \in Nat : l = First("delete", <<j, n>>)
       => n <= created[j] /\ (Stored(j) => n < created[j])
  /\ \A x \in Creations : l = First("decision", x)
       => \E i \in 1 .. Len(lab) : i <= schedulerAt /\ lab[i] = First("add", x)
  /\ \A n \in Nat : l = First("failure", n) => n <= failures
  /\ \A n \in Nat, j \in Jobs : l = First("beat", <<n, j>>)
       => /\ n <= beats
          /\ \A c \in Clusters : Active(c) /\ turn[c] = n
               => beat[c].stage = "updating" /\ j \notin beat[c].todo

Turns == [Clusters -> Nat]
TurnsFit(turn) ==
  /\ \A c \in Clusters : Active(c) => turn[c] \in 1 .. beats
  /\ \A c, d \in Clusters : Active(c) /\ Active(d) /\ turn[c] = turn[d] => c = d

\* queue: the creations whose decisions the workload queue is to bring.
QueueWaits(lab, pend, queue) ==
  /\ Len(queue) = Len(workload)
  /\ \A i, k \in 1 .. Len(queue) : queue[i] = queue[k] => i = k
  /\ \A n \in 1 .. Len(queue) :
       /\ ~Taken(lab, pend, First("decision", queue[n]))
       /\ \E i \in 1 .. Len(lab) : i <= schedulerAt /\ lab[i] = First("add", queue[n])

Spent(lab, pend, turn) ==
  /\ \A l \in Slots : Taken(lab, pend, l) => Behind(lab, turn, l)
  /\ \A j \in Jobs : Stored(j) => created[j] >= 1
  /\ TurnsFit(turn)

(* Counters only grow, names only go away or are created anew, and a       *)
(* heartbeat in progress is one that was, with no more to do, or has a     *)
(* number of its own.                                                      *)
Onward(turn, turn2) ==
  /\ \A j \in Jobs : /\ created[j] \in Nat /\ created'[j] \in Nat /\ created[j] <= created'[j]
                     /\ Stored(j)' => Stored(j) \/ created[j] < created'[j]
  /\ \A n \in {schedulerAt, schedulerAt', failures, failures', beats, beats'} : n \in Nat
  /\ schedulerAt <= schedulerAt' /\ failures <= failures' /\ beats <= beats'
  /\ \A c \in Clusters : Active(c)' =>
       \/ turn2[c] = beats + 1 /\ beats' = beats + 1
          /\ \A d \in Clusters : d # c => beat'[d] = beat[d] /\ turn2[d] = turn[d]
       \/ /\ Active(c) /\ turn2[c] = turn[c]
          /\ beat[c].stage = "updating"
               => beat'[c].stage = "updating" /\ beat'[c].todo \subseteq beat[c].todo

LEMMA BehindStays ==
  ASSUME NEW lab \in Seq(Slots), NEW lab2 \in Seq(Slots), NEW turn \in Turns, NEW turn2 \in Turns,
         NEW l, Onward(turn, turn2), Behind(lab, turn, l),
         Len(lab) <= Len(lab2), \A i \in 1 .. Len(lab) : lab2[i] = lab[i]
  PROVE  Behind(lab2, turn2, l)'
  <1>1. \A j \in Jobs, n \in Nat : l = First("add", <<j, n>>) => n <= created'[j]
    BY DEF Onward, Behind
  <1>2. \A j \in Jobs, n \in Nat : l = First("delete", <<j, n>>)
          => n <= created'[j] /\ (Stored(j)' => n < created'[j])
    <2> SUFFICES ASSUME NEW j \in Jobs, NEW n \in Nat, l = First("delete", <<j, n>>)
                 PROVE  n <= created'[j] /\ (Stored(j)' => n < created'[j])
      OBVIOUS
    <2>1. n <= created[j] /\ (Stored(j) => n < created[j])
      BY DEF Behind
    <2> QED
      BY <2>1 DEF Onward
  <1>3. \A x \in Creations : l = First("decision", x)
          => \E i \in 1 .. Len(lab2) : i <= schedulerAt' /\ lab2[i] = First("add", x)
    <2> SUFFICES ASSUME NEW x \in Creations, l = First("decision", x)
                 PROVE  \E i \in 1 .. Len(lab2) : i <= schedulerAt' /\ lab2[i] = First("add", x)
      OBVIOUS
    <2>1. PICK i \in 1 .. Len(lab) : i <= schedulerAt /\ lab[i] = First("add", x)
      BY DEF Behind
    <2>2. Len(lab) \in Nat /\ Len(lab2) \in Nat /\ i \in Nat
      BY LenProperties
    <2>3. i \in 1 .. Len(lab2) /\ i <= schedulerAt'
      BY <2>1, <2>2 DEF Onward
    <2> QED
      BY <2>1, <2>3
  <1>4. \A n \in Nat : l = First("failure", n) => n <= failures'
    BY DEF Onward, Behind
  <1>5. ASSUME NEW n \in Nat, NEW j \in Jobs, l = First("beat", <<n, j>>)
        PROVE  /\ n <= beats'
               /\ \A c \in Clusters : Active(c)' /\ turn2[c] = n
                    => beat'[c].stage = "updating" /\ j \notin beat'[c].todo
    <2>1. /\ n <= beats
          /\ \A c \in Clusters : Active(c) /\ turn[c] = n
               => beat[c].stage = "updating" /\ j \notin beat[c].todo
      BY <1>5 DEF Behind
    <2> QED
      BY <2>1 DEF Onward
  <1> QED
    BY <1>1, <1>2, <1>3, <1>4, <1>5 DEF Behind

LEMMA TurnsKept ==
  ASSUME NEW turn \in Turns, NEW turn2 \in Turns, Onward(turn, turn2), TurnsFit(turn)
  PROVE  TurnsFit(turn2)'
  <1>1. ASSUME NEW c \in Clusters, Active(c)' PROVE turn2[c] \in 1 .. beats'
    BY <1>1 DEF Onward, TurnsFit
  <1>2. ASSUME NEW c \in Clusters, NEW d \in Clusters, Active(c)', Active(d)', turn2[c] = turn2[d]
        PROVE  c = d
    <2> SUFFICES ASSUME c # d PROVE FALSE
      OBVIOUS
    <2>1. ASSUME NEW x \in Clusters, NEW y \in Clusters, x # y, Active(y)', turn2[x] = turn2[y],
                 turn2[x] = beats + 1,
                 \A z \in Clusters : z # x => beat'[z] = beat[z] /\ turn2[z] = turn[z]
          PROVE  FALSE
      <3>1. Active(y) /\ turn2[y] = turn[y]
        BY <2>1 DEF Active
      <3>2. turn[y] \in 1 .. beats /\ beats \in Nat
        BY <3>1 DEF TurnsFit, Onward
      <3>3. turn[y] # beats + 1
        BY <3>2
      <3> QED
        BY <2>1, <3>1, <3>3
    <2>2. /\ Active(c) /\ turn2[c] = turn[c]
          /\ Active(d) /\ turn2[d] = turn[d]
      BY <1>2, <2>1 DEF Onward
    <2> QED
      BY <1>2, <2>2 DEF TurnsFit
  <1> QED
    BY <1>1, <1>2 DEF TurnsFit

(* One more slot may come into use, if what it stands for is behind us.    *)
LEMMA SpentKept ==
  ASSUME NEW lab \in Seq(Slots), NEW lab2 \in Seq(Slots), NEW turn \in Turns, NEW turn2 \in Turns,
         NEW pend \in Pending, NEW pend2 \in Pending, NEW l, Onward(turn, turn2),
         Spent(lab, pend, turn),
         Len(lab) <= Len(lab2), \A i \in 1 .. Len(lab) : lab2[i] = lab[i],
         \A m : Taken(lab2, pend2, m)' => Taken(lab, pend, m) \/ m = l,
         Taken(lab, pend, l) \/ Behind(lab2, turn2, l)',
         \A j \in Jobs : Stored(j)' => created'[j] >= 1
  PROVE  Spent(lab2, pend2, turn2)'
  <1>1. ASSUME NEW m \in Slots, Taken(lab2, pend2, m)' PROVE Behind(lab2, turn2, m)'
    <2>1. CASE Taken(lab, pend, m)
      <3>1. Behind(lab, turn, m)
        BY <2>1 DEF Spent
      <3> QED
        BY <3>1, BehindStays
    <2>2. CASE m = l /\ ~Taken(lab, pend, m)
      BY <2>2
    <2> QED
      BY <1>1, <2>1, <2>2
  <1>2. TurnsFit(turn2)'
    BY TurnsKept DEF Spent
  <1> QED
    BY <1>1, <1>2 DEF Spent

(* The queue is not touched, and the slot that comes into use is no        *)
(* decision it waits for.                                                  *)
LEMMA WaitKept ==
  ASSUME NEW lab \in Seq(Slots), NEW lab2 \in Seq(Slots), NEW pend, NEW pend2, NEW l,
         NEW queue \in Seq(Creations), QueueWaits(lab, pend, queue), workload' = workload,
         schedulerAt \in Nat, schedulerAt' \in Nat, schedulerAt <= schedulerAt',
         Len(lab) <= Len(lab2), \A i \in 1 .. Len(lab) : lab2[i] = lab[i],
         \A m : Taken(lab2, pend2, m)' => Taken(lab, pend, m) \/ m = l,
         Taken(lab, pend, l) \/ \A x \in Creations : l # First("decision", x)
  PROVE  QueueWaits(lab2, pend2, queue)'
  <1>1. ASSUME NEW n \in 1 .. Len(queue)
        PROVE  /\ ~Taken(lab2, pend2, First("decision", queue[n]))'
               /\ \E i \in 1 .. Len(lab2) : i <= schedulerAt' /\ lab2[i] = First("add", queue[n])
    <2>1. queue[n] \in Creations
      BY ElementOfSeq
    <2>2. /\ ~Taken(lab, pend, First("decision", queue[n]))
          /\ \E i \in 1 .. Len(lab) : i <= schedulerAt /\ lab[i] = First("add", queue[n])
      BY DEF QueueWaits
    <2>3. ~Taken(lab2, pend2, First("decision", queue[n]))'
      BY <2>1, <2>2
    <2>4. PICK i \in 1 .. Len(lab) : i <= schedulerAt /\ lab[i] = First("add", queue[n])
      BY <2>2
    <2>5. i \in 1 .. Len(lab2) /\ i <= schedulerAt'
      BY <2>4, LenProperties
    <2> QED
      BY <2>3, <2>4, <2>5
  <1> QED
    BY <1>1 DEF QueueWaits

-----------------------------------------------------------------------------
Labelled ==
  \E lab \in Seq(Slots), pend \in Pending, turn \in Turns, queue \in Seq(Creations) :
    Tree(lab, pend) /\ Spent(lab, pend, turn) /\ QueueWaits(lab, pend, queue)

LEMMA CountersNat ==
  ASSUME Typed
  PROVE  schedulerAt \in Nat /\ failures \in Nat /\ beats \in Nat
  BY DEF Typed, SchedulerFits, BoundsFit

LEMMA OnwardQuiet ==
  ASSUME Typed, NEW turn, UNCHANGED <<created, beat, beats>>,
         \A j \in Jobs : Stored(j)' => Stored(j),
         schedulerAt' \in Nat, schedulerAt <= schedulerAt',
         failures' \in Nat, failures <= failures'
  PROVE  Onward(turn, turn)
  <1>1. /\ \A j \in Jobs : created[j] \in Nat
        /\ schedulerAt \in Nat /\ failures \in Nat /\ beats \in Nat
    BY DEF Typed, BoundsFit, SchedulerFits
  <1> QED
    BY <1>1 DEF Onward, Active

LEMMA CreateLabelled ==
  ASSUME Typed, Labelled, NEW j \in Jobs, CreateJob(j)
  PROVE  Labelled'
  <1>1. PICK lab \in Seq(Slots), pend \in Pending, turn \in Turns, queue \in Seq(Creations) :
          Tree(lab, pend) /\ Spent(lab, pend, turn) /\ QueueWaits(lab, pend, queue)
    BY DEF Labelled
  <1>0. PICK n : n = created[j] + 1
    OBVIOUS
  <1> DEFINE e == [type |-> "ADD", name |-> j, value |-> NewJob]
             l == First("add", <<j, n>>)
             lab2 == Append(lab, l)
  <1>2. /\ Grown /\ Len(log') = Len(log) + 1 /\ log'[Len(log) + 1] = e
        /\ jobs' = [jobs EXCEPT ![j] = NewJob]
        /\ created[j] < MaxCreates /\ created' = [created EXCEPT ![j] = n]
    BY <1>0, CreateAnnounces
  <1>3. UNCHANGED <<schedulerAt, workload, flowAt, submitted, beat, beats, failures>>
    BY DEF CreateJob, schedulerVars, flowVars, beatVars
  <1>4. n \in 1 .. MaxCreates /\ created[j] \in Nat /\ n \in Nat /\ MaxCreates \in Nat
        /\ created'[j] = n /\ \A i \in Jobs : i # j => created'[i] = created[i]
    BY <1>0, <1>2, JobFlowAssumption DEF Typed, BoundsFit
  <1>5. <<j, n>> \in Creations
    BY <1>4 DEF Creations
  <1>6. l \in Slots /\ FitsSlot(e, l)
    BY <1>5, SlotFacts DEF FitsSlot
  <1>7. ~Taken(lab, pend, l)
    BY <1>0, <1>1, <1>4, <1>6 DEF Spent, Behind
  <1>8. \A m \in Updates, c \in Clusters : l # Answer(m, c)
    BY AnswerFacts
  <1>9. Onward(turn, turn)
    <2>1. \A i \in Jobs : /\ created[i] \in Nat /\ created'[i] \in Nat /\ created[i] <= created'[i]
                          /\ Stored(i)' => Stored(i) \/ created[i] < created'[i]
      BY <1>0, <1>2, <1>4 DEF Typed, BoundsFit, StoreFits, Stored
    <2>2. schedulerAt \in Nat /\ failures \in Nat /\ beats \in Nat
      BY DEF Typed, BoundsFit, SchedulerFits
    <2> QED
      BY <1>3, <2>1, <2>2 DEF Onward, Active
  <1>10. Behind(lab2, turn, l)'
    <2> HIDE DEF lab2
    <2>1. \A i \in Jobs, k \in Nat : l = First("add", <<i, k>>) => i = j /\ k = n
      BY FirstIsDistinct
    <2>2. \A a, x : l = First(a, x) => a = "add"
      BY FirstIsDistinct
    <2> HIDE DEF l
    <2> QED
      BY <1>4, <2>1, <2>2 DEF Behind
  <1> HIDE DEF e, l
  <1>11. /\ lab2 \in Seq(Slots) /\ Len(lab2) = Len(lab) + 1
         /\ \A i \in 1 .. Len(lab) : lab2[i] = lab[i]
         /\ Tree(lab2, pend)'
         /\ \A m : Taken(lab2, pend, m)' => Taken(lab, pend, m) \/ m = l
    BY <1>1, <1>2, <1>3, <1>6, <1>7, <1>8, TreeWritten DEF Taken, Held
  <1>12. Len(lab) <= Len(lab2)
    BY <1>11, LenProperties
  <1> HIDE DEF lab2
  <1>13. \A i \in Jobs : Stored(i)' => created'[i] >= 1
    BY <1>1, <1>2, <1>4 DEF Spent, Typed, StoreFits, Stored
  <1>14. Spent(lab2, pend, turn)'
    BY <1>1, <1>9, <1>10, <1>11, <1>12, <1>13, SpentKept
  <1>15. QueueWaits(lab2, pend, queue)'
    <2>1. \A x \in Creations : l # First("decision", x)
      BY FirstIsDistinct DEF l
    <2> QED
      BY <1>1, <1>3, <1>9, <1>11, <1>12, <2>1, WaitKept DEF Onward
  <1> QED
    BY <1>11, <1>14, <1>15 DEF Labelled

LEMMA DeleteLabelled ==
  ASSUME Typed, Labelled, NEW j \in Jobs, DeleteJob(j)
  PROVE  Labelled'
  <1>1. PICK lab \in Seq(Slots), pend \in Pending, turn \in Turns, queue \in Seq(Creations) :
          Tree(lab, pend) /\ Spent(lab, pend, turn) /\ QueueWaits(lab, pend, queue)
    BY DEF Labelled
  <1>0. PICK n : n = created[j]
    OBVIOUS
  <1> DEFINE e == [type |-> "DELETE", name |-> j, value |-> jobs[j]]
             l == First("delete", <<j, n>>)
             lab2 == Append(lab, l)
  <1>2. /\ Grown /\ Len(log') = Len(log) + 1 /\ log'[Len(log) + 1] = e
        /\ Stored(j) /\ jobs' = [jobs EXCEPT ![j] = NoJob] /\ created' = created
    BY DeleteAnnounces DEF Stored
  <1>3. UNCHANGED <<schedulerAt, workload, flowAt, submitted, beat, beats, failures>>
    BY DEF DeleteJob, schedulerVars, flowVars, beatVars
  <1>4. n \in 1 .. MaxCreates /\ n \in Nat /\ MaxCreates \in Nat
    BY <1>0, <1>1, <1>2, JobFlowAssumption DEF Typed, BoundsFit, Spent
  <1>5. <<j, n>> \in Creations
    BY <1>4 DEF Creations
  <1>6. l \in Slots /\ FitsSlot(e, l)
    BY <1>5, SlotFacts DEF FitsSlot
  <1>7. ~Taken(lab, pend, l)
    BY <1>0, <1>1, <1>2, <1>4, <1>6 DEF Spent, Behind
  <1>8. \A m \in Updates, c \in Clusters : l # Answer(m, c)
    BY AnswerFacts
  <1>9. ~Stored(j)' /\ \A i \in Jobs : Stored(i)' => Stored(i)
    <2> HIDE DEF e, l, lab2
    <2>1. jobs' = [i \in Jobs |-> IF i = j THEN NoJob ELSE jobs[i]]
      BY <1>2 DEF Typed, StoreFits
    <2>2. ~Stored(j)'
      BY <2>1 DEF Stored
    <2>3. ASSUME NEW i \in Jobs, Stored(i)' PROVE Stored(i)
      BY <2>1, <2>3 DEF Stored
    <2> QED
      BY <2>2, <2>3
  <1>10. Onward(turn, turn)
    <2> HIDE DEF e, l, lab2
    <2>1. /\ UNCHANGED <<created, beat, beats>>
          /\ schedulerAt' = schedulerAt /\ failures' = failures
      BY <1>2, <1>3
    <2> QED
      BY <1>9, <2>1, CountersNat, OnwardQuiet
  <1>11. Behind(lab2, turn, l)'
    <2> HIDE DEF lab2
    <2>1. \A i \in Jobs, k \in Nat : l = First("delete", <<i, k>>) => i = j /\ k = n
      BY FirstIsDistinct
    <2>2. \A a, x : l = First(a, x) => a = "delete"
      BY FirstIsDistinct
    <2>3. created'[j] = n
      BY <1>0, <1>2
    <2> HIDE DEF l
    <2> QED
      BY <1>4, <1>9, <2>1, <2>2, <2>3 DEF Behind
  <1> HIDE DEF e, l
  <1>12. /\ lab2 \in Seq(Slots) /\ Len(lab2) = Len(lab) + 1
         /\ \A i \in 1 .. Len(lab) : lab2[i] = lab[i]
         /\ Tree(lab2, pend)'
         /\ \A m : Taken(lab2, pend, m)' => Taken(lab, pend, m) \/ m = l
    BY <1>1, <1>2, <1>3, <1>6, <1>7, <1>8, TreeWritten DEF Taken, Held
  <1>13. Len(lab) <= Len(lab2)
    BY <1>12, LenProperties
  <1> HIDE DEF lab2
  <1>14. \A i \in Jobs : Stored(i)' => created'[i] >= 1
    BY <1>1, <1>2, <1>9 DEF Spent
  <1>15. Spent(lab2, pend, turn)'
    BY <1>1, <1>10, <1>11, <1>12, <1>13, <1>14, SpentKept
  <1>16. QueueWaits(lab2, pend, queue)'
    <2>1. \A x \in Creations : l # First("decision", x)
      BY FirstIsDistinct DEF l
    <2> QED
      BY <1>1, <1>3, <1>10, <1>12, <1>13, <2>1, WaitKept DEF Onward
  <1> QED
    BY <1>12, <1>15, <1>16 DEF Labelled

(* No event is written, and nothing is taken into a controller's hand.     *)
LEMMA QuietTree ==
  ASSUME Typed, NEW lab \in Seq(Slots), NEW pend \in Pending, NEW turn \in Turns, NEW turn2 \in Turns,
         Tree(lab, pend), Spent(lab, pend, turn), Onward(turn, turn2), UNCHANGED <<apiVars, created>>,
         \A c \in Clusters : Held(c)' => Held(c) /\ submitted'[c] = submitted[c],
         \A c \in Clusters : flowAt[c] <= flowAt'[c] /\ flowAt'[c] \in Nat
  PROVE  /\ Tree(lab, pend)' /\ Spent(lab, pend, turn2)'
         /\ \A m : Taken(lab, pend, m)' => Taken(lab, pend, m)
  <1>1. log' = log /\ jobs' = jobs
    BY DEF apiVars
  <1>2. \A c \in Clusters : flowAt[c] \in Nat
    BY DEF Typed, FlowFits
  <1>3. /\ Tree(lab, pend)'
        /\ \A m : Taken(lab, pend, m)' => Taken(lab, pend, m)
    BY <1>1, <1>2, TreeKept
  <1>4. \A m \in Slots : Taken(lab, pend, m)' => Behind(lab, turn2, m)'
    BY <1>3, LenProperties, BehindStays DEF Spent
  <1>5. \A i \in Jobs : Stored(i)' => created'[i] >= 1
    BY <1>1 DEF Spent, Stored
  <1>6. TurnsFit(turn2)'
    BY TurnsKept DEF Spent
  <1>7. Spent(lab, pend, turn2)'
    BY <1>4, <1>5, <1>6 DEF Spent
  <1> QED
    BY <1>3, <1>7

LEMMA QuietLabelled ==
  ASSUME Typed, Labelled, UNCHANGED <<apiVars, created, submitted, beat, beats>>,
         \A c \in Clusters : flowAt[c] <= flowAt'[c] /\ flowAt'[c] \in Nat,
         failures' \in Nat, failures <= failures', schedulerAt' \in Nat, schedulerAt <= schedulerAt',
         workload' = workload \/ workload' = << >>
  PROVE  Labelled'
  <1>1. PICK lab \in Seq(Slots), pend \in Pending, turn \in Turns, queue \in Seq(Creations) :
          Tree(lab, pend) /\ Spent(lab, pend, turn) /\ QueueWaits(lab, pend, queue)
    BY DEF Labelled
  <1>2. Onward(turn, turn)
    BY OnwardQuiet DEF Stored, apiVars
  <1>3. /\ Tree(lab, pend)' /\ Spent(lab, pend, turn)'
        /\ \A m : Taken(lab, pend, m)' => Taken(lab, pend, m)
    BY <1>1, <1>2, QuietTree DEF Held
  <1>4. CASE workload' = workload
    <2>1. Len(lab) <= Len(lab)
      BY LenProperties
    <2>2. \A m : Taken(lab, pend, m)' => Taken(lab, pend, m) \/ m = Idle
      BY <1>3
    <2>3. Taken(lab, pend, Idle) \/ \A x \in Creations : Idle # First("decision", x)
      BY DEF Idle, First
    <2>4. QueueWaits(lab, pend, queue)'
      BY <1>1, <1>2, <1>3, <1>4, <2>1, <2>2, <2>3, WaitKept DEF Onward
    <2> QED
      BY <1>3, <2>4 DEF Labelled
  <1>5. CASE workload' = << >>
    <2>1. << >> \in Seq(Creations) /\ Len(<< >>) = 0
      OBVIOUS
    <2>2. QueueWaits(lab, pend, << >>)'
      BY <1>5, <2>1 DEF QueueWaits
    <2> QED
      BY <1>3, <2>1, <2>2 DEF Labelled
  <1> QED
    BY <1>4, <1>5

LEMMA SubmitLabelled ==
  ASSUME Typed, Labelled, NEW c \in Clusters, Submit(c)
  PROVE  Labelled'
  <1>1. PICK lab \in Seq(Slots), pend \in Pending, turn \in Turns, queue \in Seq(Creations) :
          Tree(lab, pend) /\ Spent(lab, pend, turn) /\ QueueWaits(lab, pend, queue)
    BY DEF Labelled
  <1>2. PICK k \in (flowAt[c] + 1) .. Len(log) :
          /\ log[k].type = "UPDATE" /\ TakeFlowEvent(c, k)
          /\ submitted' = [submitted EXCEPT ![c] = [name |-> log[k].name,
                             job |-> [log[k].value EXCEPT !.ids = log[k].value.ids \cup {c}]]]
    BY DEF Submit
  <1>3. submitted[c] = Idle
        /\ UNCHANGED <<apiVars, created, schedulerAt, workload, beat, beats, failures>>
    BY DEF Submit, schedulerVars, beatVars
  <1>4. PICK m : m = lab[k]
    OBVIOUS
  <1> DEFINE ids == log[k].value.ids
             l == Answer(m, c)
             pend2 == [pend EXCEPT ![c] = l]
  <1>5. /\ k \in 1 .. Len(log) /\ Len(lab) = Len(log) /\ flowAt[c] < k
        /\ flowAt' = [flowAt EXCEPT ![c] = k]
        /\ flowAt[c] \in Nat /\ flowAt'[c] = k /\ k \in Nat
    BY <1>1, <1>2, TakenTyped, LogFacts DEF TakeFlowEvent, Typed, FlowFits, Tree
  <1>6. ids \in SUBSET Clusters /\ c \notin ids /\ log[k].value \in JobValue
    BY <1>2, <1>5, LogFacts DEF Typed, TakeFlowEvent, NextEvent, FlowWants, JobValue
  <1>7. m \in AnsweredBy(ids) /\ m \in Updates
    BY <1>1, <1>2, <1>4, <1>5, <1>6, SlotFacts DEF Tree, FitsSlot
  <1>8. submitted'[c].job.ids = ids \cup {c} /\ submitted'[c] # Idle
        /\ \A d \in Clusters : d # c => submitted'[d] = submitted[d] /\ flowAt'[d] = flowAt[d]
    BY <1>2, <1>5, <1>6 DEF Typed, FlowFits, Idle, JobValue
  <1>9. l \in AnsweredBy(submitted'[c].job.ids) /\ l \in Updates
    <2>1. l \in AnsweredBy(ids \cup {c})
      BY <1>6, <1>7, AnswerFacts
    <2> QED
      BY <1>6, <1>8, <2>1, SlotFacts
  <1>10. ~Taken(lab, pend, l)
    <2> SUFFICES ASSUME Taken(lab, pend, l) PROVE FALSE
      OBVIOUS
    <2>1. Seen(lab, c, m)
      BY <1>1, <1>7 DEF Tree
    <2>2. PICK i \in 1 .. Len(lab) : i <= flowAt[c] /\ lab[i] = m
      BY <2>1 DEF Seen
    <2>3. i = k
      BY <1>1, <1>4, <1>5, <2>2 DEF Tree
    <2> QED
      BY <1>5, <2>2, <2>3
  <1>11. \A n \in Updates, d \in Clusters : l = Answer(n, d) => d = c /\ Seen(lab, c, n)'
    <2>1. \A n \in Updates, d \in Clusters : l = Answer(n, d) => n = m /\ d = c
      BY <1>7, AnswerFacts
    <2>2. Seen(lab, c, m)'
      BY <1>4, <1>5 DEF Seen
    <2> QED
      BY <2>1, <2>2
  <1>12. \A a, x : First(a, x) # l
    BY <1>7, AnswerFacts
  <1>13. l \in Slots
    BY <1>9, SlotFacts
  <1> HIDE DEF l
  <1>14. /\ pend2 \in Pending /\ Tree(lab, pend2)'
         /\ \A s : Taken(lab, pend2, s)' => Taken(lab, pend, s) \/ s = l
    <2>1. log' = log /\ flowAt[c] <= flowAt'[c]
      BY <1>3, <1>5 DEF apiVars
    <2> QED
      BY <1>1, <1>5, <1>8, <1>9, <1>10, <1>11, <1>13, <2>1, TreeHeld
  <1> HIDE DEF pend2
  <1>15. Onward(turn, turn)
    BY <1>3, CountersNat, OnwardQuiet DEF Stored, apiVars
  <1>16. Behind(lab, turn, l)'
    BY <1>12 DEF Behind
  <1>17. \A j \in Jobs : Stored(j)' => created'[j] >= 1
    BY <1>1, <1>3 DEF Spent, Stored, apiVars
  <1>18. Spent(lab, pend2, turn)'
    BY <1>1, <1>14, <1>15, <1>16, <1>17, LenProperties, SpentKept
  <1>19. QueueWaits(lab, pend2, queue)'
    <2>1. /\ schedulerAt \in Nat /\ schedulerAt' \in Nat /\ schedulerAt <= schedulerAt'
          /\ workload' = workload
      BY <1>3, <1>15 DEF Onward
    <2>2. Len(lab) <= Len(lab)
      BY LenProperties
    <2>3. \A x \in Creations : l # First("decision", x)
      BY <1>12
    <2> QED
      BY <1>1, <1>14, <2>1, <2>2, <2>3, WaitKept
  <1> QED
    BY <1>14, <1>18, <1>19 DEF Labelled

LEMMA SubmitRaisesLabelled ==
  ASSUME Typed, Labelled, Manager # "ray", NEW c \in Clusters, SubmitRaises(c)
  PROVE  Labelled'
  <1>1. PICK lab \in Seq(Slots), pend \in Pending, turn \in Turns, queue \in Seq(Creations) :
          Tree(lab, pend) /\ Spent(lab, pend, turn) /\ QueueWaits(lab, pend, queue)
    BY DEF Labelled
  <1>2. PICK k \in (flowAt[c] + 1) .. Len(log) :
          /\ TakeFlowEvent(c, k) /\ failures < MaxFailures /\ failures' = failures + 1
          /\ submitted' = [submitted EXCEPT ![c] = [name |-> log[k].name,
               job |-> WithReplicas(log[k].value, c, "FAILED", log[k].value.replicas[c].count)]]
    BY DEF SubmitRaises, SubmitRefused
  <1>3. submitted[c] = Idle
        /\ UNCHANGED <<apiVars, created, schedulerAt, workload, beat, beats>>
    BY DEF SubmitRaises, schedulerVars, beatVars
  <1>4. PICK n : n = failures + 1
    OBVIOUS
  <1> DEFINE l == First("failure", n)
             pend2 == [pend EXCEPT ![c] = l]
  <1>5. n \in 1 .. MaxFailures /\ n \in Nat /\ failures \in Nat /\ failures' = n /\ failures < n
    BY <1>2, <1>4, JobFlowAssumption DEF Typed, BoundsFit
  <1>6. /\ k \in 1 .. Len(log) /\ flowAt[c] < k
        /\ flowAt' = [flowAt EXCEPT ![c] = k]
        /\ flowAt[c] \in Nat /\ flowAt'[c] = k /\ k \in Nat
    BY <1>2, TakenTyped, LogFacts DEF TakeFlowEvent, Typed, FlowFits
  <1>7. submitted'[c].job.ids \in SUBSET Clusters /\ submitted'[c] # Idle
        /\ \A d \in Clusters : d # c => submitted'[d] = submitted[d] /\ flowAt'[d] = flowAt[d]
    <2>1. log[k].value \in JobValue
      BY <1>6, LogFacts DEF Typed
    <2> QED
      BY <1>2, <1>6, <2>1 DEF Typed, FlowFits, Idle, JobValue, WithReplicas
  <1>8. l \in AnsweredBy(submitted'[c].job.ids) /\ l \in Slots
    BY <1>5, <1>7, SlotFacts
  <1>9. ~Taken(lab, pend, l)
    BY <1>1, <1>5, <1>8 DEF Spent, Behind
  <1>10. \A m \in Updates, d \in Clusters : l # Answer(m, d)
    BY AnswerFacts
  <1>11. \A a, x : l = First(a, x) => a = "failure" /\ x = n
    BY FirstIsDistinct
  <1> HIDE DEF l
  <1>12. /\ pend2 \in Pending /\ Tree(lab, pend2)'
         /\ \A s : Taken(lab, pend2, s)' => Taken(lab, pend, s) \/ s = l
    <2>1. log' = log /\ flowAt[c] <= flowAt'[c]
      BY <1>3, <1>6 DEF apiVars
    <2> QED
      BY <1>1, <1>6, <1>7, <1>8, <1>9, <1>10, <2>1, TreeHeld
  <1> HIDE DEF pend2
  <1>13. Onward(turn, turn)
    BY <1>3, <1>5, CountersNat, OnwardQuiet DEF Stored, apiVars
  <1>14. Behind(lab, turn, l)'
    BY <1>5, <1>11 DEF Behind
  <1>15. \A j \in Jobs : Stored(j)' => created'[j] >= 1
    BY <1>1, <1>3 DEF Spent, Stored, apiVars
  <1>16. Spent(lab, pend2, turn)'
    BY <1>1, <1>12, <1>13, <1>14, <1>15, LenProperties, SpentKept
  <1>17. QueueWaits(lab, pend2, queue)'
    <2>1. /\ schedulerAt \in Nat /\ schedulerAt' \in Nat /\ schedulerAt <= schedulerAt'
          /\ workload' = workload
      BY <1>3, <1>13 DEF Onward
    <2>2. Len(lab) <= Len(lab)
      BY LenProperties
    <2>3. \A x \in Creations : l # First("decision", x)
      BY <1>11
    <2> QED
      BY <1>1, <1>12, <2>1, <2>2, <2>3, WaitKept
  <1> QED
    BY <1>12, <1>16, <1>17 DEF Labelled

LEMMA WriteBackLabelled ==
  ASSUME Typed, Labelled, NEW c \in Clusters, WriteBack(c)
  PROVE  Labelled'
  <1>1. PICK lab \in Seq(Slots), pend \in Pending, turn \in Turns, queue \in Seq(Creations) :
          Tree(lab, pend) /\ Spent(lab, pend, turn) /\ QueueWaits(lab, pend, queue)
    BY DEF Labelled
  <1>2. /\ Held(c) /\ submitted' = [submitted EXCEPT ![c] = Idle]
        /\ IF Stored(submitted[c].name) THEN PutJob(submitted[c].name, submitted[c].job)
           ELSE UNCHANGED apiVars
        /\ UNCHANGED <<created, schedulerAt, workload, flowAt, beat, beats, failures>>
    BY DEF WriteBack, Held, schedulerVars, beatVars
  <1>3. submitted[c].name \in Jobs /\ submitted[c].job \in JobValue
    BY <1>2 DEF Typed, FlowFits, Entry, Held
  <1>4. \A d \in Clusters : Held(d)' => d # c /\ Held(d) /\ submitted'[d] = submitted[d]
    BY <1>2 DEF Typed, FlowFits, Held
  <1>5. CASE Stored(submitted[c].name)
    <2> DEFINE e == [type |-> "UPDATE", name |-> submitted[c].name, value |-> submitted[c].job]
               l == pend[c]
               lab2 == Append(lab, l)
    <2>1. /\ Grown /\ jobs' = [jobs EXCEPT ![submitted[c].name] = submitted[c].job]
          /\ Len(log') = Len(log) + 1 /\ log'[Len(log) + 1] = e
      BY <1>2, <1>3, <1>5, PutGrows DEF Typed
    <2>2. l \in AnsweredBy(submitted[c].job.ids) /\ submitted[c].job.ids \in SUBSET Clusters
      BY <1>1, <1>2, <1>3 DEF Tree, JobValue
    <2>3. l \in Slots /\ FitsSlot(e, l)
      BY <2>2, SlotFacts DEF FitsSlot
    <2>4. Taken(lab, pend, l)
      BY <1>2 DEF Taken
    <2>5. \A m \in Updates, d \in Clusters : l = Answer(m, d) => Seen(lab, d, m)
      BY <1>1, <2>4 DEF Tree
    <2>6. /\ \A i \in 1 .. Len(lab) : lab[i] # l
          /\ \A d \in Clusters : Held(d) /\ d # c => pend[d] # l
      BY <1>1, <1>2 DEF Tree
    <2> HIDE DEF l, e
    <2>7. /\ lab2 \in Seq(Slots) /\ Len(lab2) = Len(lab) + 1
          /\ \A i \in 1 .. Len(lab) : lab2[i] = lab[i]
          /\ Tree(lab2, pend)'
          /\ \A m : Taken(lab2, pend, m)' => Taken(lab, pend, m) \/ m = l
      BY <1>1, <1>2, <1>4, <2>1, <2>3, <2>5, <2>6, TreeWritten
    <2>8. Len(lab) <= Len(lab2)
      BY <2>7, LenProperties
    <2> HIDE DEF lab2
    <2>9. \A j \in Jobs : Stored(j)' => Stored(j)
      BY <1>3, <1>5, <2>1 DEF Typed, StoreFits, Stored
    <2>10. Onward(turn, turn)
      BY <1>2, <2>9, CountersNat, OnwardQuiet
    <2>11. \A j \in Jobs : Stored(j)' => created'[j] >= 1
      BY <1>1, <1>2, <2>9 DEF Spent
    <2>12. Spent(lab2, pend, turn)'
      BY <1>1, <2>4, <2>7, <2>8, <2>10, <2>11, SpentKept
    <2>13. QueueWaits(lab2, pend, queue)'
      BY <1>1, <1>2, <2>4, <2>7, <2>8, <2>10, WaitKept DEF Onward
    <2> QED
      BY <2>7, <2>12, <2>13 DEF Labelled
  <1>6. CASE ~Stored(submitted[c].name)
    <2>1. UNCHANGED apiVars
      BY <1>2, <1>6
    <2>2. Onward(turn, turn)
      BY <1>2, <2>1, CountersNat, OnwardQuiet DEF Stored, apiVars
    <2>3. /\ Tree(lab, pend)' /\ Spent(lab, pend, turn)'
          /\ \A m : Taken(lab, pend, m)' => Taken(lab, pend, m)
      BY <1>1, <1>2, <1>4, <2>1, <2>2, QuietTree DEF Typed, FlowFits
    <2>4. QueueWaits(lab, pend, queue)'
      BY <1>1, <1>2, <2>3 DEF QueueWaits
    <2> QED
      BY <2>3, <2>4 DEF Labelled
  <1> QED
    BY <1>5, <1>6

(* The head of the queue is decided, or tried again.                       *)
LEMMA DecideHeadLabelled ==
  ASSUME Typed, NEW lab \in Seq(Slots), NEW pend \in Pending, NEW turn \in Turns,
         Tree(lab, pend), Spent(lab, pend, turn),
         NEW entries \in Seq(Entry), NEW queue \in Seq(Creations), DecideHead(entries),
         UNCHANGED <<created, flowAt, submitted, beat, beats, failures>>,
         schedulerAt' \in Nat, schedulerAt <= schedulerAt',
         Len(queue) = Len(entries), \A i, k \in 1 .. Len(queue) : queue[i] = queue[k] => i = k,
         \A n \in 1 .. Len(queue) :
           /\ ~Taken(lab, pend, First("decision", queue[n]))
           /\ \E i \in 1 .. Len(lab) : i <= schedulerAt' /\ lab[i] = First("add", queue[n])
  PROVE  Labelled'
  <1>1. CASE UNCHANGED apiVars /\ Len(workload') = Len(entries)
    <2>1. Onward(turn, turn)
      BY <1>1, CountersNat, OnwardQuiet DEF Stored, apiVars
    <2>2. \A c \in Clusters : flowAt[c] <= flowAt'[c] /\ flowAt'[c] \in Nat
      BY DEF Typed, FlowFits
    <2>3. /\ Tree(lab, pend)' /\ Spent(lab, pend, turn)'
          /\ \A m : Taken(lab, pend, m)' => Taken(lab, pend, m)
      BY <1>1, <2>1, <2>2, QuietTree DEF Held
    <2>4. QueueWaits(lab, pend, queue)'
      BY <1>1, <2>3 DEF QueueWaits
    <2> QED
      BY <2>3, <2>4 DEF Labelled
  <1>2. ASSUME entries # << >>, Stored(Head(entries).name),
               NEW job \in JobValue, PutJob(Head(entries).name, job), workload' = Tail(entries)
        PROVE  Labelled'
    <2>1. /\ Head(entries).name \in Jobs /\ Len(entries) \in Nat /\ 1 \in 1 .. Len(entries)
          /\ Len(workload') = Len(entries) - 1
      <3>1. /\ Head(entries) \in Entry /\ Len(entries) \in Nat /\ 1 \in 1 .. Len(entries)
            /\ Len(Tail(entries)) = Len(entries) - 1
        BY <1>2, TailIs, HeadTailProperties
      <3> QED
        BY <1>2, <3>1 DEF Entry
    <2>2. /\ Len(queue) \in Nat /\ queue # << >> /\ 1 \in 1 .. Len(queue)
          /\ queue[1] \in Creations
      BY <2>1, LenProperties, ElementOfSeq
    <2>3. /\ Tail(queue) \in Seq(Creations) /\ Len(Tail(queue)) = Len(queue) - 1
          /\ \A n \in 1 .. Len(Tail(queue)) : Tail(queue)[n] = queue[n + 1]
      BY <2>2, HeadTailProperties
    <2>4. \A n \in 1 .. Len(Tail(queue)) : n + 1 \in 1 .. Len(queue) /\ n + 1 # 1
      BY <2>2, <2>3
    <2> DEFINE rest == Tail(queue)
               l == First("decision", queue[1])
               e == [type |-> "UPDATE", name |-> Head(entries).name, value |-> job]
               lab2 == Append(lab, l)
    <2>5. /\ Grown /\ jobs' = [jobs EXCEPT ![Head(entries).name] = job]
          /\ Len(log') = Len(log) + 1 /\ log'[Len(log) + 1] = e
      BY <1>2, <2>1, PutGrows DEF Typed
    <2>6. l \in Slots /\ FitsSlot(e, l)
      <3>1. job.ids \in SUBSET Clusters
        BY DEF JobValue
      <3>2. l \in AnsweredBy(job.ids)
        BY <2>2, <3>1, SlotFacts
      <3> QED
        BY <3>1, <3>2, SlotFacts DEF FitsSlot
    <2>7. ~Taken(lab, pend, l)
      BY <2>2
    <2>8. \A m \in Updates, c \in Clusters : l # Answer(m, c)
      BY AnswerFacts
    <2>9. \A a, x : l = First(a, x) => a = "decision" /\ x = queue[1]
      BY FirstIsDistinct
    <2>10. \A n \in 1 .. Len(rest) : l # First("decision", rest[n])
      BY <2>2, <2>3, <2>4, <2>9
    <2>11. PICK i \in 1 .. Len(lab) : i <= schedulerAt' /\ lab[i] = First("add", queue[1])
      BY <2>2
    <2> HIDE DEF l, e
    <2>12. /\ lab2 \in Seq(Slots) /\ Len(lab2) = Len(lab) + 1
           /\ \A k \in 1 .. Len(lab) : lab2[k] = lab[k]
           /\ Tree(lab2, pend)'
           /\ \A m : Taken(lab2, pend, m)' => Taken(lab, pend, m) \/ m = l
      <3>1. \A k \in 1 .. Len(lab) : lab[k] # l
        BY <2>7 DEF Taken
      <3>2. \A c \in Clusters : Held(c)' => Held(c) /\ submitted'[c] = submitted[c] /\ pend[c] # l
        BY <2>7 DEF Taken, Held
      <3>3. flowAt' = flowAt
        OBVIOUS
      <3> QED
        BY <2>5, <2>6, <2>8, <3>1, <3>2, <3>3, TreeWritten
    <2>13. Len(lab) \in Nat /\ Len(lab) <= Len(lab2) /\ \A k \in 1 .. Len(lab) : k \in 1 .. Len(lab2)
      BY <2>12, LenProperties
    <2> HIDE DEF lab2, rest
    <2>14. \A j \in Jobs : Stored(j)' => Stored(j)
      BY <1>2, <2>1, <2>5 DEF Typed, StoreFits, Stored
    <2>15. Onward(turn, turn)
      BY <2>14, CountersNat, OnwardQuiet
    <2>16. Behind(lab2, turn, l)'
      BY <2>9, <2>11, <2>12, <2>13 DEF Behind
    <2>17. \A j \in Jobs : Stored(j)' => created'[j] >= 1
      BY <2>14 DEF Spent
    <2>18. Spent(lab2, pend, turn)'
      BY <2>12, <2>13, <2>15, <2>16, <2>17, SpentKept
    <2>19. Len(rest) = Len(workload') /\ \A m, k \in 1 .. Len(rest) : rest[m] = rest[k] => m = k
      <3> SUFFICES ASSUME NEW m \in 1 .. Len(rest), NEW k \in 1 .. Len(rest), rest[m] = rest[k]
                   PROVE  m = k
        BY <2>1, <2>3 DEF rest
      <3>1. m + 1 = k + 1
        BY <2>3, <2>4 DEF rest
      <3> QED
        BY <3>1
    <2>20. ASSUME NEW n \in 1 .. Len(rest)
           PROVE  /\ ~Taken(lab2, pend, First("decision", rest[n]))'
                  /\ \E k \in 1 .. Len(lab2) : k <= schedulerAt' /\ lab2[k] = First("add", rest[n])
      <3>1. n + 1 \in 1 .. Len(queue) /\ rest[n] = queue[n + 1]
        BY <2>3, <2>4 DEF rest
      <3>2. ~Taken(lab, pend, First("decision", rest[n]))
        BY <3>1
      <3>3. ~Taken(lab2, pend, First("decision", rest[n]))'
        BY <2>10, <2>12, <3>2
      <3>4. PICK k \in 1 .. Len(lab) : k <= schedulerAt' /\ lab[k] = First("add", rest[n])
        BY <3>1
      <3> QED
        BY <2>12, <2>13, <3>3, <3>4
    <2>21. QueueWaits(lab2, pend, rest)'
      BY <2>19, <2>20 DEF QueueWaits
    <2> QED
      BY <2>3, <2>12, <2>18, <2>21 DEF Labelled, rest
  <1>3. CASE entries = << >>
    BY <1>1, <1>3 DEF DecideHead
  <1>4. CASE entries # << >>
    <2>1. Head(entries).job \in JobValue /\ entries[1] \in Entry /\ 1 \in 1 .. Len(entries)
      <3>1. /\ Head(entries) \in Entry /\ Head(entries) = entries[1]
            /\ 1 \in 1 .. Len(entries)
        BY <1>4, TailIs, HeadTailProperties
      <3> QED
        BY <3>1 DEF Entry
    <2>2. PICK job \in Decisions(Head(entries).job) :
            IF Stored(Head(entries).name)
            THEN PutJob(Head(entries).name, job) /\ workload' = Tail(entries)
            ELSE workload' = [entries EXCEPT ![1].job = job] /\ UNCHANGED apiVars
      BY <1>4 DEF DecideHead
    <2>3. job \in JobValue
      BY <2>1, DecisionsTyped
    <2>4. CASE Stored(Head(entries).name)
      BY <1>2, <1>4, <2>2, <2>3, <2>4
    <2>5. CASE ~Stored(Head(entries).name)
      <3> DEFINE decided == [entries[1] EXCEPT !.job = job]
      <3>1. decided \in Entry
        BY <2>1, <2>3 DEF Entry
      <3>2. workload' = [entries EXCEPT ![1] = decided] /\ UNCHANGED apiVars
        BY <2>2, <2>5
      <3> HIDE DEF decided
      <3>3. Len(workload') = Len(entries)
        BY <2>1, <3>1, <3>2, ExceptSeq
      <3> QED
        BY <1>1, <3>2, <3>3
    <2> QED
      BY <2>4, <2>5
  <1> QED
    BY <1>3, <1>4

LEMMA ClusterEventLabelled ==
  ASSUME Typed, Labelled, ScheduleOnClusterEvent
  PROVE  Labelled'
  <1>1. PICK lab \in Seq(Slots), pend \in Pending, turn \in Turns, queue \in Seq(Creations) :
          Tree(lab, pend) /\ Spent(lab, pend, turn) /\ QueueWaits(lab, pend, queue)
    BY DEF Labelled
  <1>2. /\ DecideHead(workload) /\ workload \in Seq(Entry)
        /\ UNCHANGED <<created, schedulerAt, flowAt, submitted, beat, beats, failures>>
        /\ schedulerAt \in Nat
    BY DEF ScheduleOnClusterEvent, flowVars, beatVars, Typed, SchedulerFits
  <1> QED
    BY <1>1, <1>2, DecideHeadLabelled DEF QueueWaits

LEMMA JobEventLabelled ==
  ASSUME Typed, Calm, Labelled, ScheduleOnJobEvent
  PROVE  Labelled'
  <1>1. PICK lab \in Seq(Slots), pend \in Pending, turn \in Turns, queue \in Seq(Creations) :
          Tree(lab, pend) /\ Spent(lab, pend, turn) /\ QueueWaits(lab, pend, queue)
    BY DEF Labelled
  <1>2. PICK k \in (schedulerAt + 1) .. Len(log) :
          /\ SchedulerWants(log[k]) /\ schedulerAt' = k
          /\ DecideHead(Append(workload, [name |-> log[k].name, job |-> log[k].value]))
    BY DEF ScheduleOnJobEvent, NextEvent
  <1>3. UNCHANGED <<created, flowAt, submitted, beat, beats, failures>>
    BY DEF ScheduleOnJobEvent, flowVars, beatVars
  <1>4. /\ k \in 1 .. Len(log) /\ k \in Nat /\ schedulerAt \in Nat /\ schedulerAt < k
        /\ Len(lab) = Len(log)
    BY <1>1, <1>2, LogFacts DEF Typed, SchedulerFits, Tree
  <1>5. log[k].type = "ADD"
    BY <1>2, <1>4 DEF SchedulerWants, Calm, Tame
  <1>6. PICK x \in Creations : lab[k] = First("add", x)
    BY <1>1, <1>4, <1>5 DEF Tree, FitsSlot
  <1>7. \A i \in 1 .. Len(lab) : ~(i <= schedulerAt /\ lab[i] = First("add", x))
    BY <1>1, <1>4, <1>6 DEF Tree
  <1>8. ~Taken(lab, pend, First("decision", x))
    <2>1. First("decision", x) \in Slots
      BY SlotFacts
    <2> QED
      BY <1>1, <1>7, <2>1 DEF Spent, Behind
  <1> DEFINE entries == Append(workload, [name |-> log[k].name, job |-> log[k].value])
             queue2 == Append(queue, x)
  <1>9. entries \in Seq(Entry) /\ Len(entries) = Len(workload) + 1 /\ Len(workload) \in Nat
    BY <1>4, AppendTame
  <1>10. /\ queue2 \in Seq(Creations) /\ Len(queue2) = Len(queue) + 1 /\ Len(queue) \in Nat
         /\ \A n \in 1 .. Len(queue) : queue2[n] = queue[n]
         /\ queue2[Len(queue) + 1] = x
    BY AppendProperties, LenProperties
  <1> HIDE DEF queue2, entries
  <1>11. \A n \in 1 .. Len(queue2) : n \in 1 .. Len(queue) \/ n = Len(queue) + 1
    BY <1>10
  <1>12. \A n \in 1 .. Len(queue) : queue[n] # x
    BY <1>1, <1>7 DEF QueueWaits
  <1>13. \A i, n \in 1 .. Len(queue2) : queue2[i] = queue2[n] => i = n
    BY <1>1, <1>10, <1>11, <1>12 DEF QueueWaits
  <1>14. ASSUME NEW n \in 1 .. Len(queue2)
         PROVE  /\ ~Taken(lab, pend, First("decision", queue2[n]))
                /\ \E i \in 1 .. Len(lab) : i <= schedulerAt' /\ lab[i] = First("add", queue2[n])
    <2>1. CASE n \in 1 .. Len(queue)
      <3>1. /\ ~Taken(lab, pend, First("decision", queue[n]))
            /\ \E i \in 1 .. Len(lab) : i <= schedulerAt /\ lab[i] = First("add", queue[n])
        BY <1>1, <2>1 DEF QueueWaits
      <3>2. \A i \in 1 .. Len(lab) : i <= schedulerAt => i <= schedulerAt'
        BY <1>2, <1>4
      <3> QED
        BY <1>10, <2>1, <3>1, <3>2
    <2>2. CASE n = Len(queue) + 1
      BY <1>2, <1>4, <1>6, <1>8, <1>10, <2>2
    <2> QED
      BY <1>11, <2>1, <2>2
  <1>15. Len(queue2) = Len(entries)
    BY <1>1, <1>9, <1>10 DEF QueueWaits
  <1>16. schedulerAt' \in Nat /\ schedulerAt <= schedulerAt' /\ DecideHead(entries)
    BY <1>2, <1>4 DEF entries
  <1> QED
    BY <1>1, <1>3, <1>9, <1>10, <1>13, <1>14, <1>15, <1>16, DecideHeadLabelled

LEMMA OnwardBeat ==
  ASSUME Typed, NEW turn, NEW c \in Clusters, UNCHANGED <<created, schedulerAt>>,
         \A j \in Jobs : Stored(j)' => Stored(j),
         failures' \in Nat, failures <= failures', beats' \in Nat, beats <= beats',
         \A d \in Clusters : d # c => beat'[d] = beat[d],
         Active(c)' => /\ Active(c)
                       /\ beat[c].stage = "updating"
                            => beat'[c].stage = "updating" /\ beat'[c].todo \subseteq beat[c].todo
  PROVE  Onward(turn, turn)
  <1>1. /\ \A j \in Jobs : created[j] \in Nat
        /\ schedulerAt \in Nat /\ failures \in Nat /\ beats \in Nat
    BY DEF Typed, BoundsFit, SchedulerFits
  <1>2. \A d \in Clusters : Active(d)' =>
          /\ Active(d)
          /\ beat[d].stage = "updating"
               => beat'[d].stage = "updating" /\ beat'[d].todo \subseteq beat[d].todo
    BY DEF Active
  <1> QED
    BY <1>1, <1>2 DEF Onward

(* A heartbeat goes on without a write.                                    *)
LEMMA BeatGoesOn ==
  ASSUME Typed, NEW lab \in Seq(Slots), NEW pend \in Pending, NEW turn \in Turns, NEW turn2 \in Turns,
         NEW queue \in Seq(Creations),
         Tree(lab, pend), Spent(lab, pend, turn), QueueWaits(lab, pend, queue),
         UNCHANGED <<apiVars, created, schedulerVars, flowVars>>, Onward(turn, turn2)
  PROVE  Labelled'
  <1>1. submitted' = submitted /\ flowAt' = flowAt /\ workload' = workload
        /\ schedulerAt' = schedulerAt
    BY DEF schedulerVars, flowVars
  <1>2. \A c \in Clusters : flowAt[c] <= flowAt'[c] /\ flowAt'[c] \in Nat
    BY <1>1 DEF Typed, FlowFits
  <1>3. /\ Tree(lab, pend)' /\ Spent(lab, pend, turn2)'
        /\ \A m : Taken(lab, pend, m)' => Taken(lab, pend, m)
    BY <1>1, <1>2, QuietTree DEF Held
  <1>4. QueueWaits(lab, pend, queue)'
    BY <1>1, <1>3 DEF QueueWaits
  <1> QED
    BY <1>3, <1>4 DEF Labelled

LEMMA HeartbeatLabelled ==
  ASSUME Typed, Calm, Labelled, MaxBeats <= RetryLimit, NEW c \in Clusters, Heartbeat(c)
  PROVE  Labelled'
  <1>1. PICK lab \in Seq(Slots), pend \in Pending, turn \in Turns, queue \in Seq(Creations) :
          Tree(lab, pend) /\ Spent(lab, pend, turn) /\ QueueWaits(lab, pend, queue)
    BY DEF Labelled
  <1>2. /\ beats \in 0 .. MaxBeats /\ MaxBeats \in Nat /\ RetryLimit \in Nat /\ beats \in Nat
        /\ failures \in Nat
        /\ retries[c] \in Nat /\ retries[c] + 1 \in Nat
        /\ retries[c] + Running(beat[c]) <= beats /\ ViewTame(beat[c])
    BY JobFlowAssumption DEF Typed, BoundsFit, BeatFits, Calm
  <1>3. ASSUME NEW counter \in Nat, EndBeat(c, counter), counter <= RetryLimit,
               UNCHANGED <<apiVars, created, schedulerVars, flowVars>>,
               beats' \in Nat, beats <= beats', failures' \in Nat, failures <= failures'
        PROVE  Labelled'
    <2>1. beat'[c] = Idle /\ \A d \in Clusters : d # c => beat'[d] = beat[d]
      BY <1>3, EndBeatMoves
    <2>2. ~Active(c)'
      BY <2>1 DEF Active, Idle
    <2>3. Onward(turn, turn)
      BY <1>3, <2>1, <2>2, OnwardBeat DEF Stored, apiVars, schedulerVars
    <2> QED
      BY <1>1, <1>3, <2>3, BeatGoesOn
  <1>4. CASE BeatLists(c)
    <2>1. PICK n : n = beats + 1
      OBVIOUS
    <2> DEFINE b == [stage |-> "listed", found |-> Listed(c)]
               turn2 == [turn EXCEPT ![c] = n]
    <2>2. beat' = [beat EXCEPT ![c] = b] /\ beats' = n
          /\ UNCHANGED <<apiVars, created, schedulerVars, flowVars, failures>>
      BY <1>4, <2>1 DEF BeatLists, Goto
    <2>3. \A d \in Clusters : d # c => beat'[d] = beat[d]
      BY <2>2 DEF Typed, BeatFits
    <2>4. turn2 \in Turns /\ turn2[c] = n /\ \A d \in Clusters : d # c => turn2[d] = turn[d]
      BY <1>2, <2>1 DEF Turns
    <2> HIDE DEF turn2
    <2>5. Onward(turn, turn2)
      <3>1. /\ \A j \in Jobs : created[j] \in Nat
            /\ schedulerAt \in Nat
        BY DEF Typed, BoundsFit, SchedulerFits
      <3>2. /\ \A j \in Jobs : /\ created[j] \in Nat /\ created'[j] \in Nat
                               /\ created[j] <= created'[j]
                               /\ Stored(j)' => Stored(j) \/ created[j] < created'[j]
        BY <2>2, <3>1 DEF Stored, apiVars
      <3>3. /\ schedulerAt' = schedulerAt /\ failures' = failures
            /\ beats' \in Nat /\ beats <= beats'
        BY <1>2, <2>1, <2>2 DEF schedulerVars
      <3>4. \A d \in Clusters : d # c /\ Active(d)' =>
              /\ Active(d) /\ turn2[d] = turn[d] /\ beat'[d] = beat[d]
        BY <2>3, <2>4 DEF Active
      <3> QED
        BY <1>2, <2>1, <2>2, <2>3, <2>4, <3>1, <3>2, <3>3, <3>4 DEF Onward
    <2> QED
      BY <1>1, <2>2, <2>4, <2>5, BeatGoesOn
  <1>5. CASE BeatListRaises(c)
    <2>1. /\ EndBeat(c, retries[c] + 1) /\ beats' = beats + 1 /\ beats < MaxBeats /\ beat[c] = Idle
          /\ failures' = failures + 1
          /\ UNCHANGED <<apiVars, created, schedulerVars, flowVars>>
      BY <1>5 DEF BeatListRaises
    <2>2. Running(Idle) = 0
      BY DEF Running, Idle
    <2>3. beats' \in Nat /\ beats <= beats' /\ retries[c] + 1 <= RetryLimit
          /\ failures' \in Nat /\ failures <= failures'
      BY <1>2, <2>1, <2>2
    <2> QED
      BY <1>2, <1>3, <2>1, <2>3
  <1>6. CASE BeatCopies(c)
    <2>1. /\ \A d \in Clusters : d # c => beat'[d] = beat[d]
          /\ beat[c].stage = "listed"
          /\ UNCHANGED <<apiVars, created, schedulerVars, flowVars, beats, failures>>
      BY <1>6, BeatCopiesMoves DEF BeatCopies
    <2>2. Active(c) /\ beat[c].stage # "updating"
      BY <2>1 DEF Active
    <2>3. /\ created' = created /\ schedulerAt' = schedulerAt /\ failures' = failures
          /\ beats' = beats /\ \A j \in Jobs : Stored(j)' => Stored(j)
      BY <2>1 DEF Stored, apiVars, schedulerVars
    <2>4. Onward(turn, turn)
      <3>1. /\ failures' \in Nat /\ failures <= failures' /\ beats' \in Nat /\ beats <= beats'
            /\ \A d \in Clusters : d # c => beat'[d] = beat[d]
        BY <1>2, <2>1, <2>3
      <3> QED
        BY <2>2, <2>3, <3>1, OnwardBeat
    <2> QED
      BY <1>1, <2>1, <2>4, BeatGoesOn
  <1>7. CASE BeatEnds(c)
    <2>1. EndBeat(c, retries[c]) /\ beat[c].stage = "updating"
          /\ UNCHANGED <<apiVars, created, schedulerVars, flowVars, beats, failures>>
      BY <1>7 DEF BeatEnds
    <2>2. retries[c] <= RetryLimit
      BY <1>2, <2>1 DEF Running
    <2> QED
      BY <1>2, <1>3, <2>1, <2>2
  <1>8. ~CleanupEnds(c) /\ \A j \in Jobs : ~CleanupEvicts(c, j)
    BY <1>2 DEF CleanupEnds, CleanupEvicts, ViewTame
  <1>9. ASSUME NEW j \in Jobs, BeatUpdates(c, j)
        PROVE  Labelled'
    <2>1. beat[c].stage = "updating" /\ j \in beat[c].todo
          /\ UNCHANGED <<created, schedulerVars, flowVars, beats, failures>>
      BY <1>9 DEF BeatUpdates
    <2>2. CASE ~Stored(j)
      <3>1. EndBeat(c, retries[c] + 1) /\ UNCHANGED apiVars
        BY <1>9, <2>2 DEF BeatUpdates
      <3>2. retries[c] + 1 <= RetryLimit
        BY <1>2, <2>1 DEF Running
      <3> QED
        BY <1>2, <1>3, <2>1, <3>1, <3>2
    <2>3. CASE Stored(j)
      <3> DEFINE v == WithReplicas(beat[c].view[j], c, "RUNNING", beat[c].found[j])
                 e == [type |-> "UPDATE", name |-> j, value |-> v]
                 l == First("beat", <<turn[c], j>>)
                 lab2 == Append(lab, l)
      <3>1. v \in JobValue
        BY <2>1, BeatWrites
      <3>2. PutJob(j, v) /\ beat' = [beat EXCEPT ![c].todo = beat[c].todo \ {j}]
        BY <1>9, <2>3 DEF BeatUpdates
      <3> HIDE DEF v
      <3>3. /\ Grown /\ jobs' = [jobs EXCEPT ![j] = v]
            /\ Len(log') = Len(log) + 1 /\ log'[Len(log) + 1] = e
        BY <3>1, <3>2, PutGrows DEF Typed
      <3>4. Active(c) /\ turn[c] \in 1 .. beats /\ turn[c] \in 1 .. MaxBeats /\ turn[c] \in Nat
        BY <1>1, <1>2, <2>1 DEF Active, Spent, TurnsFit
      <3>5. l \in Slots /\ FitsSlot(e, l)
        <4>1. v.ids \in SUBSET Clusters
          BY <3>1 DEF JobValue
        <4>2. l \in AnsweredBy(v.ids)
          BY <3>4, <4>1, SlotFacts
        <4> QED
          BY <4>1, <4>2, SlotFacts DEF FitsSlot
      <3>6. ~Taken(lab, pend, l)
        BY <1>1, <2>1, <3>4, <3>5 DEF Spent, Behind
      <3>7. \A m \in Updates, d \in Clusters : l # Answer(m, d)
        BY AnswerFacts
      <3>8. \A a, x : l = First(a, x) => a = "beat" /\ x = <<turn[c], j>>
        BY FirstIsDistinct
      <3> HIDE DEF l, e
      <3>9. /\ lab2 \in Seq(Slots) /\ Len(lab2) = Len(lab) + 1
            /\ \A i \in 1 .. Len(lab) : lab2[i] = lab[i]
            /\ Tree(lab2, pend)'
            /\ \A m : Taken(lab2, pend, m)' => Taken(lab, pend, m) \/ m = l
        <4>1. \A i \in 1 .. Len(lab) : lab[i] # l
          BY <3>6 DEF Taken
        <4>2. \A d \in Clusters : Held(d)' => Held(d) /\ submitted'[d] = submitted[d] /\ pend[d] # l
          BY <2>1, <3>6 DEF Taken, Held, flowVars
        <4>3. flowAt' = flowAt
          BY <2>1 DEF flowVars
        <4> QED
          BY <1>1, <3>3, <3>5, <3>7, <4>1, <4>2, <4>3, TreeWritten
      <3>10. Len(lab) <= Len(lab2)
        BY <3>9, LenProperties
      <3> HIDE DEF lab2
      <3>11. /\ \A d \in Clusters : d # c => beat'[d] = beat[d]
             /\ beat'[c].stage = "updating" /\ beat'[c].todo = beat[c].todo \ {j}
        BY <2>1, <3>2, LessToDo
      <3>12. \A i \in Jobs : Stored(i)' => Stored(i)
        BY <2>3, <3>3 DEF Typed, StoreFits, Stored
      <3>13. schedulerAt' = schedulerAt /\ workload' = workload
        BY <2>1 DEF schedulerVars
      <3>14. Onward(turn, turn)
        <4>1. beat'[c].stage = "updating" /\ beat'[c].todo \subseteq beat[c].todo
          BY <3>11
        <4>2. created' = created /\ beats' = beats /\ failures' = failures
          BY <2>1
        <4>3. /\ failures' \in Nat /\ failures <= failures' /\ beats' \in Nat /\ beats <= beats'
              /\ schedulerAt' = schedulerAt /\ created' = created
          BY <1>2, <3>13, <4>2
        <4>4. \A d \in Clusters : d # c => beat'[d] = beat[d]
          BY <3>11
        <4> QED
          BY <3>4, <3>12, <4>1, <4>3, <4>4, OnwardBeat
      <3>15. Behind(lab2, turn, l)'
        <4>1. \A d \in Clusters : Active(d)' /\ turn[d] = turn[c] => d = c
          <5>1. \A d \in Clusters : Active(d)' => Active(d)
            BY <3>4, <3>11 DEF Active
          <5> QED
            BY <1>1, <3>4, <5>1 DEF Spent, TurnsFit
        <4>2. \A n \in Nat, i \in Jobs : l = First("beat", <<n, i>>) => n = turn[c] /\ i = j
          <5> TAKE n \in Nat, i \in Jobs
          <5>1. l = First("beat", <<n, i>>) => <<n, i>> = <<turn[c], j>>
            BY <3>8
          <5> QED
            BY <5>1
        <4>3. turn[c] <= beats'
          BY <1>2, <2>1, <3>4
        <4>4. j \notin beat'[c].todo /\ beat'[c].stage = "updating"
          BY <3>11
        <4> QED
          BY <3>8, <4>1, <4>2, <4>3, <4>4 DEF Behind
      <3>16. \A i \in Jobs : Stored(i)' => created'[i] >= 1
        BY <1>1, <2>1, <3>12 DEF Spent
      <3>17. Spent(lab2, pend, turn)'
        BY <1>1, <3>9, <3>10, <3>14, <3>15, <3>16, SpentKept
      <3>18. QueueWaits(lab2, pend, queue)'
        <4>1. \A x \in Creations : l # First("decision", x)
          BY <3>8
        <4>2. schedulerAt \in Nat /\ schedulerAt' \in Nat /\ schedulerAt <= schedulerAt'
          BY <3>13 DEF Typed, SchedulerFits
        <4> QED
          BY <1>1, <3>9, <3>10, <3>13, <4>1, <4>2, WaitKept
      <3> QED
        BY <3>9, <3>17, <3>18 DEF Labelled
    <2> QED
      BY <2>2, <2>3
  <1> QED
    BY <1>4, <1>5, <1>6, <1>7, <1>8, <1>9 DEF Heartbeat

LEMMA InitLabelled == Init => Labelled
  <1> SUFFICES ASSUME Init PROVE Labelled
    OBVIOUS
  <1> DEFINE pend == [c \in Clusters |-> Idle]
             turn == [c \in Clusters |-> 0]
  <1>1. /\ pend \in Pending /\ turn \in Turns
        /\ << >> \in Seq(Slots) /\ << >> \in Seq(Creations) /\ Len(<< >>) = 0
    BY DEF Pending, Turns
  <1>2. /\ log = << >> /\ workload = << >>
        /\ \A c \in Clusters : ~Held(c) /\ ~Active(c)
        /\ \A j \in Jobs : ~Stored(j)
    BY DEF Init, Store!Init, Held, Active, Idle, Stored
  <1>3. \A l : ~Taken(<< >>, pend, l)
    BY <1>1, <1>2 DEF Taken
  <1> HIDE DEF pend, turn
  <1>4. Tree(<< >>, pend)
    BY <1>1, <1>2, <1>3 DEF Tree
  <1>5. Spent(<< >>, pend, turn)
    BY <1>2, <1>3 DEF Spent, TurnsFit
  <1>6. QueueWaits(<< >>, pend, << >>)
    BY <1>1, <1>2 DEF QueueWaits
  <1> QED
    BY <1>1, <1>4, <1>5, <1>6 DEF Labelled

LEMMA NextLabelled ==
  ASSUME Typed, Calm, Labelled, Manager # "ray", MaxBeats <= RetryLimit, [Next]_vars
  PROVE  Labelled'
  <1>1. /\ schedulerAt \in Nat /\ failures \in Nat /\ Len(log) \in Nat /\ schedulerAt <= Len(log)
        /\ \A c \in Clusters : flowAt[c] \in Nat
    BY LogFacts DEF Typed, SchedulerFits, BoundsFit, FlowFits
  <1>2. CASE UNCHANGED vars
    BY <1>1, <1>2, QuietLabelled DEF vars, schedulerVars, flowVars, beatVars
  <1>3. ASSUME NEW j \in Jobs, CreateJob(j) \/ DeleteJob(j) PROVE Labelled'
    BY <1>3, CreateLabelled, DeleteLabelled
  <1>4. CASE Schedule
    BY <1>4, JobEventLabelled, ClusterEventLabelled DEF Schedule
  <1>5. CASE SchedulerRestarts
    BY <1>1, <1>5, QuietLabelled DEF SchedulerRestarts, flowVars, beatVars
  <1>6. ASSUME NEW c \in Clusters,
               \/ ClusterIsAdded(c) \/ ClusterBecomesReady(c)
               \/ \E j \in Jobs : TasksVanish(c, j)
        PROVE  Labelled'
    BY <1>1, <1>6, QuietLabelled DEF ClusterIsAdded, ClusterBecomesReady, TasksVanish,
                                     schedulerVars, flowVars, beatVars
  <1>7. ASSUME NEW c \in Clusters, RemoveFromCluster(c) \/ RemoveRaises(c)
        PROVE  Labelled'
    <2>1. PICK k \in (flowAt[c] + 1) .. Len(log) : flowAt' = [flowAt EXCEPT ![c] = k]
      BY <1>7 DEF RemoveFromCluster, RemoveRaises, TakeFlowEvent
    <2>2. \A d \in Clusters : flowAt[d] <= flowAt'[d] /\ flowAt'[d] \in Nat
      BY <1>1, <2>1 DEF Typed, FlowFits
    <2>3. UNCHANGED <<apiVars, created, submitted, beat, beats, schedulerAt, workload>>
      BY <1>7 DEF RemoveFromCluster, RemoveRaises, schedulerVars, beatVars
    <2>4. failures' \in Nat /\ failures <= failures'
      BY <1>1, <1>7 DEF RemoveFromCluster, RemoveRaises
    <2> QED
      BY <1>1, <2>2, <2>3, <2>4, QuietLabelled
  <1>8. ASSUME NEW c \in Clusters, Flow(c) \/ Heartbeat(c) PROVE Labelled'
    BY <1>7, <1>8, SubmitLabelled, SubmitRaisesLabelled, WriteBackLabelled, HeartbeatLabelled DEF Flow
  <1> QED
    BY <1>2, <1>3, <1>4, <1>5, <1>6, <1>8 DEF Next

LEMMA LabelledMeansBounded ==
  ASSUME Labelled, IsFiniteSet(Jobs)
  PROVE  Len(log) <= Cardinality(Slots)
  <1>1. PICK lab \in Seq(Slots), pend \in Pending : Tree(lab, pend)
    BY DEF Labelled
  <1>2. lab \in Injection(1 .. Len(lab), Slots) /\ Len(lab) \in Nat /\ Len(lab) = Len(log)
    BY <1>1, LenProperties, ElementOfSeq DEF Injection, IsInjective, Tree
  <1>3. Cardinality(1 .. Len(lab)) <= Cardinality(Slots)
    BY <1>2, SlotsFinite, FS_Injection
  <1>4. Cardinality(1 .. Len(lab)) = Len(lab)
    BY <1>2, CardinalityTo
  <1> QED
    BY <1>2, <1>3, <1>4

LEMMA SettledKept ==
  ASSUME Manager # "ray", MaxBeats <= RetryLimit
  PROVE  Spec => [](Typed /\ Calm /\ Labelled)
  <1> DEFINE Inv == Typed /\ Calm /\ Labelled
  <1>1. Init => Inv
    BY InitTyped, InitCalm, InitLabelled
  <1>2. Inv /\ [Next]_vars => Inv'
    BY NextTyped, NextCalm, NextLabelled
  <1> QED
    BY <1>1, <1>2, PTL DEF Spec

(* However the writes of the controllers overwrite each other's job ids,   *)
(* all of them together write no more events than there are slots: one for *)
(* every creation and deletion, and for every decision, raised submission  *)
(* and heartbeat's report of a job one for each order in which some of the *)
(* clusters can answer it.  No restart of the scheduler, deletion or lost  *)
(* task adds to them.                                                      *)
THEOREM WritesAreNumbered == ASSUME IsFiniteSet(Jobs), Manager # "ray", MaxBeats <= RetryLimit
                             PROVE  Spec => [](Len(log) <= Cardinality(Slots))
  <1>1. Spec => [](Typed /\ Calm /\ Labelled)
    BY SettledKept
  <1>2. Labelled => Len(log) <= Cardinality(Slots)
    BY LabelledMeansBounded
  <1> QED
    BY <1>1, <1>2, PTL

(* So the controllers stop answering each other's writes before the log    *)
(* has more than that many events, and the log's bound never keeps one of  *)
(* them from writing.                                                      *)
THEOREM WritesComeToAnEnd == ASSUME IsFiniteSet(Jobs), Manager # "ray", MaxBeats <= RetryLimit,
                                    Cardinality(Slots) < MaxLog
                             PROVE  Spec => []WritesSettle
  <1>1. Spec => [](Typed /\ Calm /\ Labelled)
    BY SettledKept
  <1>2. Typed /\ Labelled => WritesSettle
    <2> SUFFICES ASSUME Typed, Labelled PROVE WritesSettle
      OBVIOUS
    <2>1. Len(log) \in Nat /\ Cardinality(Slots) \in Nat /\ MaxLog \in Nat
      BY LogFacts, SlotsFinite, JobFlowAssumption DEF Typed
    <2>2. Len(log) <= Cardinality(Slots)
      BY LabelledMeansBounded
    <2> QED
      BY <2>1, <2>2 DEF WritesSettle
  <1> QED
    BY <1>1, <1>2, PTL

-----------------------------------------------------------------------------
(* What holds once a controller is at rest: it has nothing in hand, and no *)
(* event ahead that it wants.                                              *)
SchedulerRests == \A k \in (schedulerAt + 1) .. Len(log) : ~SchedulerWants(log[k])
FlowRests(c) == /\ submitted[c] = Idle
                /\ \A k \in (flowAt[c] + 1) .. Len(log) : ~FlowWants(c, log[k])

(* A step that writes a job announces what it has written.                 *)
Puts(j) == /\ Len(log') = Len(log) + 1 /\ jobs'[j] \in JobValue
           /\ log'[Len(log) + 1] = [type |-> "UPDATE", name |-> j, value |-> jobs'[j]]

LEMMA PutPuts ==
  ASSUME Typed, NEW j \in Jobs, NEW v \in JobValue, PutJob(j, v)
  PROVE  /\ Grown /\ Puts(j) /\ jobs'[j] = v
         /\ \A i \in Jobs : i # j => jobs'[i] = jobs[i]
  <1>1. /\ Grown /\ jobs' = [jobs EXCEPT ![j] = v]
        /\ Len(log') = Len(log) + 1
        /\ log'[Len(log) + 1] = [type |-> "UPDATE", name |-> j, value |-> v]
    BY PutGrows DEF Typed
  <1>2. jobs'[j] = v /\ \A i \in Jobs : i # j => jobs'[i] = jobs[i]
    BY <1>1 DEF Typed, StoreFits
  <1> QED
    BY <1>1, <1>2 DEF Puts

(* All changes of the store are creations, deletions and puts.             *)
Written == \/ UNCHANGED apiVars
           \/ \E j \in Jobs : CreateJob(j) \/ DeleteJob(j)
           \/ \E j \in Jobs, v \in JobValue : PutJob(j, v)

LEMMA DecideHeadWrites ==
  ASSUME Typed, NEW queue \in Seq(Entry), DecideHead(queue)
  PROVE  Written
  <1>1. CASE queue = << >>
    BY <1>1 DEF DecideHead, Written
  <1>2. CASE queue # << >>
    <2>1. Head(queue) \in Entry
      BY <1>2, HeadTailProperties
    <2>2. PICK job \in Decisions(Head(queue).job) :
            IF Stored(Head(queue).name) THEN PutJob(Head(queue).name, job) ELSE UNCHANGED apiVars
      BY <1>2 DEF DecideHead
    <2>3. Head(queue).name \in Jobs /\ job \in JobValue
      BY <2>1, DecisionsTyped DEF Entry
    <2> QED
      BY <2>2, <2>3 DEF Written
  <1> QED
    BY <1>1, <1>2

LEMMA ScheduleQueue ==
  ASSUME Typed, Schedule
  PROVE  \E queue \in Seq(Entry) :
           /\ DecideHead(queue)
           /\ \/ queue = workload /\ schedulerAt' = schedulerAt
              \/ \E k \in NextEvent({i \in (schedulerAt + 1) .. Len(log) : SchedulerWants(log[i])}) :
                   /\ k \in 1 .. Len(log) /\ schedulerAt' = k
                   /\ Len(queue) = Len(workload) + 1
                   /\ queue[Len(queue)] = [name |-> log[k].name, job |-> log[k].value]
                   /\ \A n \in 1 .. Len(workload) : queue[n] = workload[n]
  <1>1. workload \in Seq(Entry) /\ Len(workload) \in Nat
    BY LenProperties DEF Typed, SchedulerFits
  <1>2. CASE ScheduleOnJobEvent
    <2>1. PICK k \in NextEvent({i \in (schedulerAt + 1) .. Len(log) : SchedulerWants(log[i])}) :
            /\ schedulerAt' = k
            /\ DecideHead(Append(workload, [name |-> log[k].name, job |-> log[k].value]))
      BY <1>2 DEF ScheduleOnJobEvent
    <2>2. k \in 1 .. Len(log)
      BY <2>1, LogFacts DEF NextEvent, Typed, SchedulerFits
    <2> DEFINE x == [name |-> log[k].name, job |-> log[k].value]
               queue == Append(workload, x)
    <2>3. x \in Entry
      BY <2>2, LogFacts DEF Entry, Typed
    <2>4. DecideHead(queue)
      BY <2>1
    <2> HIDE DEF x
    <2>5. /\ queue \in Seq(Entry) /\ Len(queue) = Len(workload) + 1
          /\ \A n \in 1 .. Len(workload) : queue[n] = workload[n]
          /\ queue[Len(queue)] = x
      BY <1>1, <2>3, AppendProperties
    <2> HIDE DEF queue
    <2> QED
      BY <2>1, <2>2, <2>4, <2>5 DEF x
  <1>3. CASE ScheduleOnClusterEvent
    BY <1>1, <1>3 DEF ScheduleOnClusterEvent
  <1> QED
    BY <1>2, <1>3 DEF Schedule

LEMMA HeartbeatWrites ==
  ASSUME Typed, NEW c \in Clusters, Heartbeat(c)
  PROVE  \/ UNCHANGED apiVars
         \/ \E j \in Jobs, v \in JobValue : PutJob(j, v) /\ c \in PlacedOn(v)
              /\ beat[c].stage \in {"updating", "cleanup"} /\ j \in beat[c].todo
              /\ v.phase = beat[c].view[j].phase /\ PlacedOn(v) = PlacedOn(beat[c].view[j])
              /\ v.ids = beat[c].view[j].ids
  <1>1. ASSUME NEW j \in Jobs, BeatUpdates(c, j) \/ CleanupEvicts(c, j), ~UNCHANGED apiVars
        PROVE  \E v \in JobValue : PutJob(j, v) /\ c \in PlacedOn(v)
              /\ beat[c].stage \in {"updating", "cleanup"} /\ j \in beat[c].todo
              /\ v.phase = beat[c].view[j].phase /\ PlacedOn(v) = PlacedOn(beat[c].view[j])
              /\ v.ids = beat[c].view[j].ids
    <2>1. beat[c].stage \in {"updating", "cleanup"} /\ j \in beat[c].todo
      BY <1>1 DEF BeatUpdates, CleanupEvicts
    <2>2. beat[c].view[j] \in JobValue /\ c \in PlacedOn(beat[c].view[j])
      BY <2>1, BeatWrites
    <2>3. \/ PutJob(j, WithReplicas(beat[c].view[j], c, "RUNNING", beat[c].found[j]))
          \/ PutJob(j, WithReplicas(beat[c].view[j], c, "EVICTED", beat[c].view[j].replicas[c].count))
      BY <1>1 DEF BeatUpdates, CleanupEvicts
    <2>4. beat[c].found[j] \in Nat /\ beat[c].view[j].replicas[c].count \in Nat
      BY <2>1, <2>2, WorkingStage DEF Working, TaskCounts, JobValue, ReplicaStatus
    <2>5. ASSUME NEW state \in TaskStates, NEW n \in Nat, state # "NONE",
                 PutJob(j, WithReplicas(beat[c].view[j], c, state, n))
          PROVE  \E v \in JobValue : /\ PutJob(j, v) /\ c \in PlacedOn(v)
                                     /\ v.phase = beat[c].view[j].phase
                                     /\ v.ids = beat[c].view[j].ids
                                     /\ PlacedOn(v) = PlacedOn(beat[c].view[j])
      <3> DEFINE v == WithReplicas(beat[c].view[j], c, state, n)
      <3>1. /\ v \in JobValue /\ v.phase = beat[c].view[j].phase /\ v.ids = beat[c].view[j].ids
            /\ PlacedOn(v) = PlacedOn(beat[c].view[j]) \cup {c}
        BY <2>2, <2>5, ReplicasWritten
      <3> HIDE DEF v
      <3>2. PlacedOn(v) = PlacedOn(beat[c].view[j]) /\ c \in PlacedOn(v)
        BY <2>2, <3>1
      <3>3. PutJob(j, v)
        BY <2>5 DEF v
      <3> QED
        BY <3>1, <3>2, <3>3
    <2>6. "RUNNING" \in TaskStates /\ "EVICTED" \in TaskStates
      BY DEF TaskStates
    <2> QED
      BY <2>1, <2>3, <2>4, <2>5, <2>6
  <1> QED
    BY <1>1 DEF Heartbeat, BeatLists, BeatListRaises, BeatCopies, BeatEnds, CleanupEnds

LEMMA StepWritten ==
  ASSUME Typed, [Next]_vars
  PROVE  Written
  <1>1. CASE Schedule
    BY <1>1, ScheduleQueue, DecideHeadWrites
  <1>2. ASSUME NEW c \in Clusters, WriteBack(c) PROVE Written
    <2>1. submitted[c].name \in Jobs /\ submitted[c].job \in JobValue
      BY <1>2 DEF WriteBack, Typed, FlowFits, Entry
    <2> QED
      BY <1>2, <2>1 DEF WriteBack, Written
  <1>3. ASSUME NEW c \in Clusters, Heartbeat(c) PROVE Written
    BY <1>3, HeartbeatWrites DEF Written
  <1> QED
    BY <1>1, <1>2, <1>3
    DEF Next, Flow, Written, Submit, SubmitRaises, RemoveFromCluster, RemoveRaises, TasksVanish,
        ClusterIsAdded, ClusterBecomesReady, SchedulerRestarts, vars

LEMMA StepWrites ==
  ASSUME Typed, [Next]_vars
  PROVE  /\ Grown
         /\ \A j \in Jobs : \/ jobs'[j] = jobs[j] \/ jobs'[j] = NoJob \/ jobs'[j] = NewJob
                            \/ Puts(j)
  <1>1. CASE UNCHANGED apiVars
    BY <1>1, NotWritten DEF apiVars, Typed
  <1>2. ASSUME NEW j \in Jobs, CreateJob(j) \/ DeleteJob(j)
        PROVE  /\ Grown
               /\ \A i \in Jobs : jobs'[i] = jobs[i] \/ jobs'[i] = NoJob \/ jobs'[i] = NewJob
    <2>1. Grown /\ (jobs' = [jobs EXCEPT ![j] = NewJob] \/ jobs' = [jobs EXCEPT ![j] = NoJob])
      BY <1>2, CreateAnnounces, DeleteAnnounces
    <2> QED
      BY <2>1 DEF Typed, StoreFits
  <1>3. ASSUME NEW j \in Jobs, NEW v \in JobValue, PutJob(j, v)
        PROVE  Grown /\ \A i \in Jobs : jobs'[i] = jobs[i] \/ Puts(i)
    BY <1>3, PutPuts
  <1> QED
    BY <1>1, <1>2, <1>3, StepWritten DEF Written

(* A flow controller keeps its place, writes back what it holds, or takes  *)
(* an event, and holds the job if that was an update.                      *)
LEMMA FlowMoves ==
  ASSUME Typed, [Next]_vars, NEW c \in Clusters
  PROVE  \/ flowAt'[c] = flowAt[c] /\ submitted'[c] = submitted[c]
         \/ /\ flowAt'[c] = flowAt[c] /\ Held(c)
            /\ Stored(submitted[c].name) => Puts(submitted[c].name)
            /\ ~Stored(submitted[c].name) => jobs' = jobs
         \/ /\ ~Held(c) /\ jobs' = jobs
            /\ \E k \in 1 .. Len(log) :
                 /\ flowAt'[c] = k /\ TakeFlowEvent(c, k)
                 /\ log[k].type = "UPDATE" => submitted'[c] # Idle /\ submitted'[c].name = log[k].name
  <1>1. CASE UNCHANGED <<flowAt, submitted>>
    BY <1>1
  <1>2. ASSUME NEW d \in Clusters, Submit(d) \/ SubmitRaises(d),
               ~(flowAt'[c] = flowAt[c] /\ submitted'[c] = submitted[c])
        PROVE  /\ ~Held(c) /\ jobs' = jobs
               /\ \E k \in 1 .. Len(log) :
                    /\ flowAt'[c] = k /\ TakeFlowEvent(c, k)
                    /\ submitted'[c] # Idle /\ submitted'[c].name = log[k].name
    <2>1. PICK k \in (flowAt[d] + 1) .. Len(log) :
            /\ log[k].type = "UPDATE" /\ TakeFlowEvent(d, k)
            /\ \E job : submitted' = [submitted EXCEPT ![d] = [name |-> log[k].name, job |-> job]]
      BY <1>2 DEF Submit, SubmitRaises
    <2>2. submitted[d] = Idle /\ jobs' = jobs
      BY <1>2 DEF Submit, SubmitRaises, apiVars
    <2>3. PICK job : submitted' = [submitted EXCEPT ![d] = [name |-> log[k].name, job |-> job]]
      BY <2>1
    <2>4. d = c
      BY <1>2, <2>1, <2>3 DEF TakeFlowEvent, Typed, FlowFits
    <2>5. k \in 1 .. Len(log) /\ flowAt'[c] = k
      BY <2>1, <2>4, TakenTyped DEF TakeFlowEvent, Typed, FlowFits
    <2>6. submitted'[c] = [name |-> log[k].name, job |-> job]
      BY <2>3, <2>4 DEF Typed, FlowFits
    <2>7. \A x, y : [name |-> x, job |-> y] # Idle /\ [name |-> x, job |-> y].name = x
      BY DEF Idle
    <2>8. submitted'[c] # Idle /\ submitted'[c].name = log[k].name
      BY <2>6, <2>7
    <2> QED
      BY <2>1, <2>2, <2>4, <2>5, <2>8 DEF Held
  <1>3. ASSUME NEW d \in Clusters, WriteBack(d), ~(submitted'[c] = submitted[c])
        PROVE  /\ flowAt'[c] = flowAt[c] /\ Held(c)
               /\ Stored(submitted[c].name) => Puts(submitted[c].name)
               /\ ~Stored(submitted[c].name) => jobs' = jobs
    <2>1. d = c /\ flowAt' = flowAt
      BY <1>3 DEF WriteBack, Typed, FlowFits
    <2>2. submitted[c].name \in Jobs /\ submitted[c].job \in JobValue /\ Held(c)
      BY <1>3, <2>1 DEF WriteBack, Typed, FlowFits, Entry, Held
    <2> QED
      BY <1>3, <2>1, <2>2, PutPuts DEF WriteBack, apiVars
  <1>4. ASSUME NEW d \in Clusters, RemoveFromCluster(d) \/ RemoveRaises(d),
               ~(flowAt'[c] = flowAt[c])
        PROVE  /\ ~Held(c) /\ jobs' = jobs
               /\ \E k \in 1 .. Len(log) :
                    flowAt'[c] = k /\ TakeFlowEvent(c, k) /\ log[k].type # "UPDATE"
    <2>1. PICK k \in (flowAt[d] + 1) .. Len(log) : log[k].type = "DELETE" /\ TakeFlowEvent(d, k)
      BY <1>4 DEF RemoveFromCluster, RemoveRaises
    <2>2. submitted[d] = Idle /\ jobs' = jobs
      BY <1>4 DEF RemoveFromCluster, RemoveRaises, apiVars
    <2>3. d = c
      BY <1>4, <2>1 DEF TakeFlowEvent, Typed, FlowFits
    <2>4. k \in 1 .. Len(log) /\ flowAt'[c] = k
      BY <2>1, <2>3, TakenTyped DEF TakeFlowEvent, Typed, FlowFits
    <2> QED
      BY <2>1, <2>2, <2>3, <2>4 DEF Held
  <1>5. ASSUME NEW d \in Clusters, RemoveFromCluster(d) \/ RemoveRaises(d)
        PROVE  submitted' = submitted
    BY <1>5 DEF RemoveFromCluster, RemoveRaises
  <1>6. ASSUME NEW d \in Clusters, WriteBack(d)
        PROVE  flowAt' = flowAt
    BY <1>6 DEF WriteBack
  <1>7. \/ UNCHANGED <<flowAt, submitted>>
        \/ \E d \in Clusters : Flow(d)
    <2>1. ASSUME NEW d \in Clusters, Heartbeat(d) PROVE UNCHANGED <<flowAt, submitted>>
      BY <2>1 DEF Heartbeat, BeatLists, BeatListRaises, BeatCopies, BeatEnds, CleanupEnds,
                  BeatUpdates, CleanupEvicts, flowVars
    <2> QED
      BY <2>1 DEF Next, vars, flowVars, CreateJob, DeleteJob, Schedule, ScheduleOnJobEvent,
                  ScheduleOnClusterEvent, SchedulerRestarts, ClusterIsAdded, ClusterBecomesReady,
                  TasksVanish
  <1>8. ASSUME NEW d \in Clusters, RemoveFromCluster(d) \/ RemoveRaises(d),
               ~(flowAt'[c] = flowAt[c] /\ submitted'[c] = submitted[c])
        PROVE  /\ ~Held(c) /\ jobs' = jobs
               /\ \E k \in 1 .. Len(log) :
                    flowAt'[c] = k /\ TakeFlowEvent(c, k) /\ log[k].type # "UPDATE"
    BY <1>4, <1>5, <1>8
  <1> QED
    BY <1>1, <1>2, <1>3, <1>6, <1>7, <1>8 DEF Flow

(* The job id of a cluster that a stored job is placed on and has none for *)
(* is still to come: the flow controller is to write the job back, or will *)
(* come upon an update that it wants.                                      *)
IdIsComing(j, c) ==
  \/ Held(c) /\ submitted[c].name = j
  \/ \E i \in (flowAt[c] + 1) .. Len(log) : IsUpdate(i, j) /\ FlowWants(c, log[i])

IdsAreComing ==
  \A j \in Jobs, c \in Clusters :
    Stored(j) /\ c \in PlacedOn(jobs[j]) /\ c \notin jobs[j].ids => IdIsComing(j, c)

LEMMA NextIdsAreComing ==
  ASSUME Typed, IdsAreComing, [Next]_vars
  PROVE  IdsAreComing'
  <1> SUFFICES ASSUME NEW j \in Jobs, NEW c \in Clusters,
                      Stored(j)', c \in PlacedOn(jobs'[j]), c \notin jobs'[j].ids
               PROVE  IdIsComing(j, c)'
    BY DEF IdsAreComing, PlacedOn
  <1>1. /\ Grown /\ Len(log) \in Nat /\ flowAt[c] \in 0 .. Len(log)
        /\ jobs'[j] = jobs[j] \/ Puts(j)
    <2>1. PlacedOn(NewJob) = {} /\ jobs'[j] # NoJob
      BY NewJobTyped DEF Stored
    <2> QED
      BY <2>1, StepWrites DEF Typed, FlowFits, Grown
  <1>2. flowAt'[c] \in 0 .. Len(log)
    BY <1>1, FlowMoves
  <1>3. CASE Puts(j)
    <2>1. /\ Len(log) + 1 \in (flowAt'[c] + 1) .. Len(log')
          /\ log'[Len(log) + 1].type = "UPDATE" /\ log'[Len(log) + 1].name = j
          /\ log'[Len(log) + 1].value = jobs'[j]
      BY <1>1, <1>2, <1>3 DEF Puts
    <2>2. FlowWants(c, log'[Len(log) + 1])
      BY <2>1 DEF FlowWants
    <2> QED
      BY <2>1, <2>2 DEF IdIsComing, IsUpdate, FlowWants
  <1>4. CASE jobs'[j] = jobs[j] /\ ~Puts(j)
    <2>1. Stored(j) /\ IdIsComing(j, c)
      BY <1>4 DEF IdsAreComing, Stored
    <2>2. ASSUME NEW i \in (flowAt'[c] + 1) .. Len(log), IsUpdate(i, j), FlowWants(c, log[i])
          PROVE  IdIsComing(j, c)'
      <3>1. /\ i \in 1 .. Len(log) /\ i \in (flowAt'[c] + 1) .. Len(log')
            /\ log'[i] = log[i]
        BY <1>1, <1>2 DEF Grown
      <3>2. log'[i].type = "UPDATE" /\ log'[i].name = j /\ FlowWants(c, log'[i])
        BY <2>2, <3>1 DEF IsUpdate
      <3> QED
        BY <3>1, <3>2 DEF IdIsComing, IsUpdate, FlowWants
    <2>3. CASE flowAt'[c] = flowAt[c] /\ submitted'[c] = submitted[c]
      BY <2>1, <2>2, <2>3 DEF IdIsComing, Held
    <2>4. CASE /\ flowAt'[c] = flowAt[c] /\ Held(c)
               /\ Stored(submitted[c].name) => Puts(submitted[c].name)
      BY <1>4, <2>1, <2>2, <2>4 DEF IdIsComing
    <2>5. ASSUME ~Held(c), NEW k \in 1 .. Len(log), flowAt'[c] = k, TakeFlowEvent(c, k),
                 log[k].type = "UPDATE" => submitted'[c] # Idle /\ submitted'[c].name = log[k].name
          PROVE  IdIsComing(j, c)'
      <3>1. PICK i \in (flowAt[c] + 1) .. Len(log) : IsUpdate(i, j) /\ FlowWants(c, log[i])
        BY <2>1, <2>5 DEF IdIsComing
      <3>2. k <= i
        BY <2>5, <3>1 DEF TakeFlowEvent, NextEvent
      <3>3. CASE k = i
        BY <2>5, <3>1, <3>3 DEF IsUpdate, IdIsComing, Held
      <3>4. CASE k # i
        <4>1. i \in (flowAt'[c] + 1) .. Len(log)
          BY <1>1, <2>5, <3>1, <3>2, <3>4
        <4> QED
          BY <2>2, <3>1, <4>1
      <3> QED
        BY <3>3, <3>4
    <2> QED
      BY <2>3, <2>4, <2>5, FlowMoves
  <1> QED
    BY <1>1, <1>3, <1>4

(* Whatever the writes of the others take back: a cluster that a stored    *)
(* job is placed on has its job id there when its flow controller is at    *)
(* rest.                                                                   *)
JobIdsArrive ==
  \A j \in Jobs, c \in Clusters :
    Stored(j) /\ c \in PlacedOn(jobs[j]) /\ FlowRests(c) => c \in jobs[j].ids

(* However the controllers overwrite each other, whichever calls fail, and *)
(* with every cluster manager: a flow controller has nothing left to do    *)
(* only when the jobs placed on its cluster have its job id.               *)
THEOREM JobIdsAreNotLost == Spec => []JobIdsArrive
  <1>1. Init => Typed /\ IdsAreComing
    <2>1. Init => IdsAreComing
      BY DEF Init, Store!Init, IdsAreComing, Stored
    <2> QED
      BY <2>1, InitTyped
  <1>2. Typed /\ IdsAreComing /\ [Next]_vars => (Typed /\ IdsAreComing)'
    BY NextTyped, NextIdsAreComing
  <1>3. Typed /\ IdsAreComing => JobIdsArrive
    BY DEF IdsAreComing, IdIsComing, JobIdsArrive, FlowRests, Held
  <1> QED
    BY <1>1, <1>2, <1>3, PTL DEF Spec

(* What a heartbeat is to write comes from a view it had, or the log.      *)
LEMMA BeatViews ==
  ASSUME Typed, [Next]_vars, NEW c \in Clusters,
         beat'[c].stage \in {"updating", "cleanup"}, NEW j \in beat'[c].todo
  PROVE  /\ j \in Jobs
         /\ \/ /\ beat[c].stage = beat'[c].stage /\ j \in beat[c].todo
               /\ beat'[c].view[j] = beat[c].view[j] /\ beat'[c].found[j] = beat[c].found[j]
            \/ /\ \E i \in 1 .. Len(log) : /\ log[i].name = j /\ log[i].type # "DELETE"
                                           /\ log[i].value = beat'[c].view[j]
               /\ beat'[c].stage = "updating" =>
                    beat[c].stage = "listed" /\ beat'[c].found = beat[c].found
  <1>1. Typed'
    BY NextTyped
  <1>2. j \in Jobs /\ j \in PlacedHere(c, beat'[c].view)
    <2>1. beat'[c].todo \subseteq {i \in Jobs : /\ beat'[c].view[i] # NoJob
                                               /\ c \in PlacedOn(beat'[c].view[i])}
      BY <1>1 DEF Typed, BeatFits, TodoFits, PlacedHere, PlacedOn
    <2> QED
      BY <2>1 DEF PlacedHere
  <1>3. beat'[c].view[j] # NoJob
    BY <1>2 DEF PlacedHere
  <1>4. CASE beat'[c] = beat[c]
    BY <1>2, <1>4
  <1>5. ASSUME NEW k \in 0 .. Len(log), beat'[c].view = StoreAt(k)
        PROVE  \E i \in 1 .. Len(log) : /\ log[i].name = j /\ log[i].type # "DELETE"
                                        /\ log[i].value = beat'[c].view[j]
    BY <1>2, <1>3, <1>5, StoreAtAnnounced DEF Typed
  <1>6. ASSUME NEW d \in Clusters, NEW counter \in Nat, EndBeat(d, counter), beat'[c] # beat[c]
        PROVE  /\ \E i \in 1 .. Len(log) : /\ log[i].name = j /\ log[i].type # "DELETE"
                                           /\ log[i].value = beat'[c].view[j]
               /\ beat'[c].stage = "cleanup"
    <2>1. d = c
      BY <1>6, EndBeatMoves
    <2>2. counter > RetryLimit
      <3>1. Idle.stage = "idle"
        BY DEF Idle
      <3> QED
        BY <1>6, <2>1, <3>1 DEF EndBeat, Goto, Typed, BeatFits
    <2>3. PICK k \in cacheAt[c] .. Len(log) :
            Goto(c, [stage |-> "cleanup", found |-> NoTasks, view |-> StoreAt(k),
                     todo |-> PlacedHere(c, StoreAt(k))])
      BY <1>6, <2>1, <2>2 DEF EndBeat
    <2>4. k \in 0 .. Len(log)
      BY LogFacts DEF Typed, BeatFits
    <2>5. beat'[c] = [stage |-> "cleanup", found |-> NoTasks, view |-> StoreAt(k),
                      todo |-> PlacedHere(c, StoreAt(k))]
      BY <2>3 DEF Goto, Typed, BeatFits
    <2>6. beat'[c].view = StoreAt(k) /\ beat'[c].stage = "cleanup"
      BY <2>5
    <2> QED
      BY <1>5, <2>4, <2>6
  <1>7. \/ beat' = beat \/ \E d \in Clusters : Heartbeat(d)
    BY DEF Next, vars, beatVars, CreateJob, DeleteJob, Schedule, ScheduleOnJobEvent,
           ScheduleOnClusterEvent, SchedulerRestarts, ClusterIsAdded, ClusterBecomesReady,
           TasksVanish, Flow, Submit, SubmitRaises, WriteBack, RemoveFromCluster, RemoveRaises
  <1>8. ASSUME NEW d \in Clusters, Heartbeat(d), beat'[c] # beat[c]
        PROVE  \/ /\ beat[c].stage = beat'[c].stage /\ j \in beat[c].todo
                  /\ beat'[c].view[j] = beat[c].view[j] /\ beat'[c].found[j] = beat[c].found[j]
               \/ /\ \E i \in 1 .. Len(log) : /\ log[i].name = j /\ log[i].type # "DELETE"
                                              /\ log[i].value = beat'[c].view[j]
                  /\ beat'[c].stage = "updating" =>
                       beat[c].stage = "listed" /\ beat'[c].found = beat[c].found
    <2>1. retries[d] \in Nat /\ retries[d] + 1 \in Nat
      BY DEF Typed, BeatFits
    <2>2. CASE BeatLists(d)
      <3>1. beat' = [beat EXCEPT ![d] = [stage |-> "listed", found |-> Listed(d)]]
        BY <2>2 DEF BeatLists, Goto
      <3>2. beat'[c].stage = "listed"
        BY <1>8, <3>1 DEF Typed, BeatFits
      <3> QED
        BY <3>2
    <2>3. CASE BeatListRaises(d) \/ BeatEnds(d)
      BY <1>6, <1>8, <2>1, <2>3 DEF BeatListRaises, BeatEnds
    <2>4. CASE BeatCopies(d)
      BY <1>5, <1>8, <2>4, BeatCopiesMoves DEF BeatCopies
    <2>5. CASE CleanupEnds(d)
      <3>1. beat' = [beat EXCEPT ![d] = Idle]
        BY <2>5 DEF CleanupEnds, Goto
      <3>2. beat'[c].stage = "idle"
        BY <1>8, <3>1 DEF Typed, BeatFits, Idle
      <3> QED
        BY <3>2
    <2>6. ASSUME NEW i \in Jobs, beat' = [beat EXCEPT ![d].todo = @ \ {i}],
                 beat[d].stage \in {"updating", "cleanup"}
          PROVE  /\ beat[c].stage = beat'[c].stage /\ j \in beat[c].todo
                 /\ beat'[c].view[j] = beat[c].view[j] /\ beat'[c].found[j] = beat[c].found[j]
      <3>1. /\ d = c
            /\ beat'[c].stage = beat[c].stage /\ beat'[c].view = beat[c].view
            /\ beat'[c].found = beat[c].found /\ beat'[c].todo = beat[c].todo \ {i}
        BY <1>8, <2>6, LessToDo
      <3> QED
        BY <3>1
    <2>7. ASSUME NEW i \in Jobs, BeatUpdates(d, i) \/ CleanupEvicts(d, i), ~Stored(i)
          PROVE  \/ EndBeat(d, retries[d] + 1)
                 \/ beat' = [beat EXCEPT ![d] = [stage |-> "dead"]]
      BY <2>7 DEF BeatUpdates, CleanupEvicts, Goto
    <2>8. ASSUME beat' = [beat EXCEPT ![d] = [stage |-> "dead"]] PROVE FALSE
      <3>1. beat'[c].stage = "dead"
        BY <1>8, <2>8 DEF Typed, BeatFits
      <3> QED
        BY <3>1
    <2>9. ASSUME NEW i \in Jobs, BeatUpdates(d, i) \/ CleanupEvicts(d, i), Stored(i)
          PROVE  /\ beat' = [beat EXCEPT ![d].todo = @ \ {i}]
                 /\ beat[d].stage \in {"updating", "cleanup"}
      BY <2>9 DEF BeatUpdates, CleanupEvicts
    <2>10. ASSUME NEW i \in Jobs, BeatUpdates(d, i) \/ CleanupEvicts(d, i), ~Stored(i)
           PROVE  /\ \E h \in 1 .. Len(log) : /\ log[h].name = j /\ log[h].type # "DELETE"
                                              /\ log[h].value = beat'[c].view[j]
                  /\ beat'[c].stage = "cleanup"
      BY <1>6, <1>8, <2>1, <2>7, <2>8, <2>10
    <2> QED
      BY <1>8, <2>2, <2>3, <2>4, <2>5, <2>6, <2>9, <2>10 DEF Heartbeat
  <1> QED
    BY <1>2, <1>4, <1>7, <1>8

(* A job that nobody has decided is placed nowhere, in the log, the store, *)
(* and what is to be written back.                                         *)
PlacedIsDecided(v) == v.phase = "INIT" => PlacedOn(v) = {}

InitIsUnplaced ==
  /\ \A i \in 1 .. Len(log) : PlacedIsDecided(log[i].value)
  /\ \A j \in Jobs : Stored(j) => PlacedIsDecided(jobs[j])
  /\ \A c \in Clusters : Held(c) => submitted[c].job.phase # "INIT"
  /\ \A c \in Clusters : beat[c].stage \in {"updating", "cleanup"} =>
       \A j \in beat[c].todo : beat[c].view[j].phase # "INIT"

\* Whatever replaces a job is decided.
LEMMA StepDecides ==
  ASSUME Typed, InitIsUnplaced, [Next]_vars
  PROVE  \/ UNCHANGED apiVars
         \/ \E j \in Jobs : CreateJob(j) \/ DeleteJob(j)
         \/ \E j \in Jobs, v \in JobValue : PutJob(j, v) /\ v.phase # "INIT"
  <1>1. ASSUME Schedule, ~UNCHANGED apiVars
        PROVE  \E j \in Jobs, v \in JobValue : PutJob(j, v) /\ v.phase # "INIT"
    <2>1. PICK queue \in Seq(Entry) : DecideHead(queue)
      BY <1>1, ScheduleQueue
    <2>2. queue # << >>
      BY <1>1, <2>1 DEF DecideHead
    <2>3. PICK job \in Decisions(Head(queue).job) : PutJob(Head(queue).name, job)
      BY <1>1, <2>1, <2>2 DEF DecideHead
    <2>4. Head(queue) \in Entry
      BY <2>2, HeadTailProperties
    <2>5. Head(queue).name \in Jobs /\ Head(queue).job \in JobValue
      BY <2>4 DEF Entry
    <2>6. job \in JobValue /\ job.phase # "INIT"
      BY <2>5, DecisionsTyped
    <2> QED
      BY <2>3, <2>5, <2>6
  <1>2. ASSUME NEW c \in Clusters, WriteBack(c), ~UNCHANGED apiVars
        PROVE  \E j \in Jobs, v \in JobValue : PutJob(j, v) /\ v.phase # "INIT"
    BY <1>2 DEF WriteBack, Typed, FlowFits, Entry, Held, InitIsUnplaced
  <1>3. ASSUME NEW c \in Clusters, Heartbeat(c), ~UNCHANGED apiVars
        PROVE  \E j \in Jobs, v \in JobValue : PutJob(j, v) /\ v.phase # "INIT"
    BY <1>3, HeartbeatWrites DEF InitIsUnplaced
  <1> QED
    BY <1>1, <1>2, <1>3
    DEF Next, Flow, Submit, SubmitRaises, RemoveFromCluster, RemoveRaises, TasksVanish,
        ClusterIsAdded, ClusterBecomesReady, SchedulerRestarts, vars

LEMMA PutsDecided ==
  ASSUME Typed, InitIsUnplaced, [Next]_vars, NEW j \in Jobs, Puts(j)
  PROVE  jobs'[j].phase # "INIT"
  <1>1. CASE UNCHANGED apiVars
    BY <1>1, LogFacts DEF apiVars, Puts, Typed
  <1>2. ASSUME NEW i \in Jobs, CreateJob(i) \/ DeleteJob(i) PROVE FALSE
    <2>1. \/ log'[Len(log) + 1] = [type |-> "ADD", name |-> i, value |-> NewJob]
          \/ log'[Len(log) + 1] = [type |-> "DELETE", name |-> i, value |-> jobs[i]]
      BY <1>2, CreateAnnounces, DeleteAnnounces
    <2>2. log'[Len(log) + 1].type # "UPDATE"
      BY <2>1
    <2> QED
      BY <2>2 DEF Puts
  <1>3. ASSUME NEW i \in Jobs, NEW v \in JobValue, PutJob(i, v), v.phase # "INIT"
        PROVE  jobs'[j].phase # "INIT"
    <2>1. Puts(i) /\ jobs'[i] = v
      BY <1>3, PutPuts
    <2>2. i = j
      <3>1. log'[Len(log) + 1].name = i /\ log'[Len(log) + 1].name = j
        BY <2>1 DEF Puts
      <3> QED
        BY <3>1
    <2> QED
      BY <1>3, <2>1, <2>2
  <1> QED
    BY <1>1, <1>2, <1>3, StepDecides

LEMMA NextInitIsUnplaced ==
  ASSUME Typed, InitIsUnplaced, [Next]_vars
  PROVE  InitIsUnplaced'
  <1>1. /\ \A i \in 1 .. Len(log') : PlacedIsDecided(log'[i].value)
        /\ \A j \in Jobs : Stored(j)' => PlacedIsDecided(jobs'[j])
    <2>1. CASE UNCHANGED apiVars
      BY <2>1 DEF apiVars, InitIsUnplaced, Stored
    <2>2. ASSUME NEW j \in Jobs, NEW e, NEW v, Grown, Len(log') = Len(log) + 1,
                 log'[Len(log) + 1] = e, jobs' = [jobs EXCEPT ![j] = v],
                 PlacedIsDecided(e.value), v # NoJob => PlacedIsDecided(v)
          PROVE  /\ \A i \in 1 .. Len(log') : PlacedIsDecided(log'[i].value)
                 /\ \A i \in Jobs : Stored(i)' => PlacedIsDecided(jobs'[i])
      <3>1. \A i \in 1 .. Len(log') : i \in 1 .. Len(log) \/ i = Len(log) + 1
        BY <2>2 DEF Grown
      <3>2. \A i \in Jobs : jobs'[i] = IF i = j THEN v ELSE jobs[i]
        BY <2>2 DEF Typed, StoreFits
      <3> QED
        BY <2>2, <3>1, <3>2 DEF Grown, InitIsUnplaced, Stored
    <2>3. ASSUME NEW j \in Jobs, CreateJob(j)
          PROVE  /\ \A i \in 1 .. Len(log') : PlacedIsDecided(log'[i].value)
                 /\ \A i \in Jobs : Stored(i)' => PlacedIsDecided(jobs'[i])
      <3> DEFINE e == [type |-> "ADD", name |-> j, value |-> NewJob]
      <3>1. e.value = NewJob /\ PlacedIsDecided(NewJob)
        BY NewJobTyped DEF PlacedIsDecided
      <3>2. /\ Grown /\ Len(log') = Len(log) + 1 /\ log'[Len(log) + 1] = e
            /\ jobs' = [jobs EXCEPT ![j] = NewJob]
        BY <2>3, CreateAnnounces
      <3> HIDE DEF e
      <3> QED
        BY <2>2, <3>1, <3>2
    <2>4. ASSUME NEW j \in Jobs, DeleteJob(j)
          PROVE  /\ \A i \in 1 .. Len(log') : PlacedIsDecided(log'[i].value)
                 /\ \A i \in Jobs : Stored(i)' => PlacedIsDecided(jobs'[i])
      <3> DEFINE e == [type |-> "DELETE", name |-> j, value |-> jobs[j]]
      <3>1. /\ Grown /\ Len(log') = Len(log) + 1 /\ log'[Len(log) + 1] = e
            /\ jobs[j] # NoJob /\ jobs' = [jobs EXCEPT ![j] = NoJob]
        BY <2>4, DeleteAnnounces
      <3>2. e.value = jobs[j] /\ PlacedIsDecided(jobs[j])
        BY <3>1 DEF InitIsUnplaced, Stored
      <3> HIDE DEF e
      <3> QED
        BY <2>2, <3>1, <3>2
    <2>5. ASSUME NEW j \in Jobs, NEW v \in JobValue, PutJob(j, v), v.phase # "INIT"
          PROVE  /\ \A i \in 1 .. Len(log') : PlacedIsDecided(log'[i].value)
                 /\ \A i \in Jobs : Stored(i)' => PlacedIsDecided(jobs'[i])
      <3> DEFINE e == [type |-> "UPDATE", name |-> j, value |-> v]
      <3>1. /\ Grown /\ Len(log') = Len(log) + 1 /\ log'[Len(log) + 1] = e
            /\ jobs' = [jobs EXCEPT ![j] = v]
        BY <2>5, PutGrows DEF Typed
      <3>2. e.value = v /\ PlacedIsDecided(v)
        BY <2>5 DEF PlacedIsDecided
      <3> HIDE DEF e
      <3> QED
        BY <2>2, <3>1, <3>2
    <2> QED
      BY <2>1, <2>3, <2>4, <2>5, StepDecides
  <1>2. ASSUME NEW c \in Clusters, Held(c)' PROVE submitted'[c].job.phase # "INIT"
    <2>1. CASE submitted'[c] = submitted[c]
      BY <1>2, <2>1 DEF Held, InitIsUnplaced
    <2>2. ASSUME NEW d \in Clusters, Submit(d) \/ SubmitRaises(d), submitted'[c] # submitted[c]
          PROVE  submitted'[c].job.phase # "INIT"
      <3>1. PICK k \in 1 .. Len(log), job \in JobValue :
              /\ d \in PlacedOn(log[k].value) /\ job.phase = log[k].value.phase
              /\ submitted' = [submitted EXCEPT ![d] = [name |-> log[k].name, job |-> job]]
        BY <2>2, SubmitMoves
      <3>2. log[k].value.phase # "INIT"
        BY <3>1 DEF InitIsUnplaced, PlacedIsDecided
      <3>3. submitted'[c] = [name |-> log[k].name, job |-> job]
        BY <2>2, <3>1 DEF Typed, FlowFits
      <3> QED
        BY <3>1, <3>2, <3>3
    <2>3. ASSUME NEW d \in Clusters, WriteBack(d) PROVE submitted'[c] = submitted[c]
      BY <1>2, <2>3 DEF WriteBack, Held, Typed, FlowFits
    <2>4. submitted' = submitted \/ \E d \in Clusters : Submit(d) \/ SubmitRaises(d) \/ WriteBack(d)
      <3>1. ASSUME NEW d \in Clusters, Heartbeat(d) PROVE submitted' = submitted
        BY <3>1 DEF Heartbeat, BeatLists, BeatListRaises, BeatCopies, BeatEnds, CleanupEnds,
                    BeatUpdates, CleanupEvicts, flowVars
      <3> QED
        BY <3>1 DEF Next, vars, flowVars, CreateJob, DeleteJob, Schedule, ScheduleOnJobEvent,
                    ScheduleOnClusterEvent, SchedulerRestarts, ClusterIsAdded, ClusterBecomesReady,
                    TasksVanish, Flow, RemoveFromCluster, RemoveRaises
    <2> QED
      BY <2>1, <2>2, <2>3, <2>4
  <1>3. ASSUME NEW c \in Clusters, beat'[c].stage \in {"updating", "cleanup"}, NEW j \in beat'[c].todo
        PROVE  beat'[c].view[j].phase # "INIT"
    <2>1. CASE beat[c].stage = beat'[c].stage /\ j \in beat[c].todo /\ beat'[c].view[j] = beat[c].view[j]
      BY <1>3, <2>1 DEF InitIsUnplaced
    <2>2. ASSUME NEW i \in 1 .. Len(log), log[i].value = beat'[c].view[j]
          PROVE  beat'[c].view[j].phase # "INIT"
      <3>1. c \in PlacedOn(beat'[c].view[j])
        <4>1. BeatFits'
          BY NextTyped DEF Typed
        <4>2. beat'[c].todo \subseteq {h \in Jobs : c \in PlacedOn(beat'[c].view[h])}
          BY <1>3, <4>1 DEF BeatFits, TodoFits, PlacedHere, PlacedOn
        <4> QED
          BY <1>3, <4>2
      <3> QED
        BY <2>2, <3>1 DEF InitIsUnplaced, PlacedIsDecided
    <2> QED
      BY <1>3, <2>1, <2>2, BeatViews
  <1> QED
    BY <1>1, <1>2, <1>3 DEF InitIsUnplaced, PlacedIsDecided, PlacedOn

(* What asks for a decision of the scheduler is in its queue, or will come *)
(* up.                                                                     *)
Undecided(v) == v.phase = "INIT" \/ IsEvicted(v)
InQueue(queue, j) == \E n \in 1 .. Len(queue) : queue[n].name = j
ComesUp(j, at) == \E k \in (at + 1) .. Len(log) : log[k].name = j /\ SchedulerWants(log[k])

DecisionsAreComing ==
  \A j \in Jobs : Stored(j) /\ Undecided(jobs[j]) =>
                    InQueue(workload, j) \/ ComesUp(j, schedulerAt)

LEMMA UndecidedAnnounced ==
  ASSUME Typed, InitIsUnplaced, [Next]_vars, NEW j \in Jobs,
         Stored(j)', Undecided(jobs'[j])
  PROVE  \/ jobs'[j] = jobs[j] /\ ~Puts(j)
         \/ /\ Len(log') = Len(log) + 1
            /\ log'[Len(log) + 1].name = j /\ SchedulerWants(log'[Len(log) + 1])
  <1>1. CASE Puts(j)
    <2>1. IsEvicted(jobs'[j])
      BY <1>1, PutsDecided DEF Undecided
    <2>2. /\ Len(log') = Len(log) + 1
          /\ log'[Len(log) + 1].name = j /\ log'[Len(log) + 1].type = "UPDATE"
          /\ log'[Len(log) + 1].value = jobs'[j]
      BY <1>1 DEF Puts
    <2> QED
      BY <2>1, <2>2 DEF SchedulerWants
  <1>2. CASE UNCHANGED apiVars
    BY <1>1, <1>2 DEF apiVars
  <1>3. ASSUME NEW i \in Jobs, CreateJob(i)
        PROVE  \/ jobs'[j] = jobs[j]
               \/ /\ Len(log') = Len(log) + 1
                  /\ log'[Len(log) + 1].name = j /\ SchedulerWants(log'[Len(log) + 1])
    <2>1. /\ Len(log') = Len(log) + 1
          /\ log'[Len(log) + 1] = [type |-> "ADD", name |-> i, value |-> NewJob]
          /\ jobs' = [jobs EXCEPT ![i] = NewJob]
      BY <1>3, CreateAnnounces
    <2>2. /\ log'[Len(log) + 1].type = "ADD" /\ log'[Len(log) + 1].name = i
          /\ log'[Len(log) + 1].value = NewJob
      BY <2>1
    <2>3. SchedulerWants(log'[Len(log) + 1])
      BY <2>2, NewJobTyped DEF SchedulerWants
    <2> QED
      BY <2>1, <2>2, <2>3 DEF Typed, StoreFits
  <1>4. ASSUME NEW i \in Jobs, DeleteJob(i) PROVE jobs'[j] = jobs[j]
    <2>1. jobs' = [jobs EXCEPT ![i] = NoJob]
      BY <1>4, DeleteAnnounces
    <2> QED
      BY <2>1 DEF Stored, Typed, StoreFits
  <1>5. ASSUME NEW i \in Jobs, NEW v \in JobValue, PutJob(i, v)
        PROVE  jobs'[j] = jobs[j] \/ Puts(j)
    BY <1>5, PutPuts
  <1> QED
    BY <1>1, <1>2, <1>3, <1>4, <1>5, StepDecides

\* The queue after a decision of its head.
LEMMA DecideHeadLists ==
  ASSUME Typed, NEW queue \in Seq(Entry), DecideHead(queue), NEW j \in Jobs,
         InQueue(queue, j)
  PROVE  InQueue(workload', j) \/ Puts(j)
  <1>1. PICK n \in 1 .. Len(queue) : queue[n].name = j
    BY DEF InQueue
  <1>2. queue # << >>
    BY <1>1
  <1>3. /\ Len(queue) \in Nat /\ 1 \in 1 .. Len(queue)
        /\ Head(queue) = queue[1] /\ Tail(queue) \in Seq(Entry)
        /\ Len(Tail(queue)) = Len(queue) - 1
        /\ \A i \in 1 .. Len(Tail(queue)) : Tail(queue)[i] = queue[i + 1]
    BY <1>2, TailIs
  <1>4. PICK job \in Decisions(Head(queue).job) :
          IF Stored(Head(queue).name)
          THEN PutJob(Head(queue).name, job) /\ workload' = Tail(queue)
          ELSE workload' = [queue EXCEPT ![1].job = job] /\ UNCHANGED apiVars
    BY <1>2 DEF DecideHead
  <1>5. queue[1] \in Entry
    BY <1>3, ElementOfSeq
  <1>6. Head(queue).name \in Jobs /\ Head(queue).job \in JobValue
    BY <1>3, <1>5 DEF Entry
  <1>7. job \in JobValue
    BY <1>6, DecisionsTyped
  <1>8. CASE Stored(Head(queue).name)
    <2>1. Puts(Head(queue).name) /\ workload' = Tail(queue)
      BY <1>4, <1>6, <1>7, <1>8, PutPuts
    <2>2. CASE n = 1
      BY <1>1, <1>3, <2>1, <2>2
    <2>3. CASE n # 1
      <3>1. n - 1 \in 1 .. Len(Tail(queue)) /\ Tail(queue)[n - 1] = queue[n]
        BY <1>3, <2>3
      <3> QED
        BY <1>1, <2>1, <3>1 DEF InQueue
    <2> QED
      BY <2>2, <2>3
  <1>9. CASE ~Stored(Head(queue).name)
    <2> DEFINE decided == [queue[1] EXCEPT !.job = job]
    <2>1. decided \in Entry /\ decided.name = queue[1].name
      BY <1>5, <1>7 DEF Entry
    <2>2. workload' = [queue EXCEPT ![1] = decided]
      BY <1>4, <1>9
    <2> HIDE DEF decided
    <2>3. /\ Len(workload') = Len(queue)
          /\ \A i \in 1 .. Len(queue) : workload'[i] = IF i = 1 THEN decided ELSE queue[i]
      BY <1>3, <2>1, <2>2, ExceptSeq
    <2>4. workload'[n].name = j
      BY <1>1, <2>1, <2>3
    <2> QED
      BY <1>1, <2>3, <2>4 DEF InQueue
  <1> QED
    BY <1>8, <1>9

LEMMA NextDecisionsAreComing ==
  ASSUME Typed, InitIsUnplaced, DecisionsAreComing, MaxRestarts = 0, [Next]_vars
  PROVE  DecisionsAreComing'
  <1> SUFFICES ASSUME NEW j \in Jobs, Stored(j)', Undecided(jobs'[j])
               PROVE  InQueue(workload', j) \/ ComesUp(j, schedulerAt)'
    BY DEF DecisionsAreComing, Undecided, InQueue, IsEvicted
  <1>1. /\ Grown /\ Len(log) \in Nat /\ Len(log') \in Nat
        /\ schedulerAt \in 0 .. Len(log)
    BY StepWrites DEF Grown, Typed, SchedulerFits
  <1>2. ~SchedulerRestarts
    BY DEF SchedulerRestarts, Typed, BoundsFit
  <1>3. Schedule \/ UNCHANGED <<workload, schedulerAt>>
    <2>1. ASSUME NEW c \in Clusters, Heartbeat(c) PROVE UNCHANGED <<workload, schedulerAt>>
      BY <2>1 DEF Heartbeat, BeatLists, BeatListRaises, BeatCopies, BeatEnds, CleanupEnds,
                  BeatUpdates, CleanupEvicts, schedulerVars
    <2>2. ASSUME NEW c \in Clusters, Flow(c) PROVE UNCHANGED <<workload, schedulerAt>>
      BY <2>2 DEF Flow, Submit, SubmitRaises, WriteBack, RemoveFromCluster, RemoveRaises, schedulerVars
    <2> QED
      BY <1>2, <2>1, <2>2
      DEF Next, vars, schedulerVars, CreateJob, DeleteJob, ClusterIsAdded, ClusterBecomesReady, TasksVanish
  <1>4. schedulerAt' \in 0 .. Len(log)
    <2>1. CASE UNCHANGED <<workload, schedulerAt>>
      BY <1>1, <2>1
    <2>2. CASE Schedule
      <3>1. schedulerAt' = schedulerAt \/ schedulerAt' \in 1 .. Len(log)
        BY <2>2, ScheduleQueue
      <3> QED
        BY <1>1, <3>1
    <2> QED
      BY <1>3, <2>1, <2>2
  <1>5. CASE /\ Len(log') = Len(log) + 1
             /\ log'[Len(log) + 1].name = j /\ SchedulerWants(log'[Len(log) + 1])
    <2>1. Len(log) + 1 \in (schedulerAt' + 1) .. Len(log')
      BY <1>1, <1>4, <1>5
    <2> QED
      BY <1>5, <2>1 DEF ComesUp, SchedulerWants, IsEvicted, PlacedOn
  <1>6. CASE jobs'[j] = jobs[j] /\ ~Puts(j)
    <2>1. InQueue(workload, j) \/ ComesUp(j, schedulerAt)
      BY <1>6 DEF DecisionsAreComing, Stored
    <2>2. ASSUME NEW k \in 1 .. Len(log), schedulerAt' < k, log[k].name = j, SchedulerWants(log[k])
          PROVE  ComesUp(j, schedulerAt)'
      <3>1. k \in (schedulerAt' + 1) .. Len(log')
        <4>1. Len(log) \in Nat /\ Len(log') \in Nat /\ Len(log) <= Len(log')
          BY <1>1 DEF Grown
        <4>2. PICK at : at = schedulerAt'
          OBVIOUS
        <4>3. at \in Nat /\ at < k
          BY <1>4, <2>2, <4>2
        <4>4. k \in (at + 1) .. Len(log')
          BY <4>1, <4>3
        <4> QED
          BY <4>2, <4>4
      <3>2. log'[k] = log[k]
        BY <1>1, <3>1 DEF Grown
      <3> QED
        BY <2>2, <3>1, <3>2 DEF ComesUp, SchedulerWants, IsEvicted, PlacedOn
    <2>3. ASSUME schedulerAt' = schedulerAt PROVE ComesUp(j, schedulerAt) => ComesUp(j, schedulerAt)'
      <3> SUFFICES ASSUME NEW k \in (schedulerAt + 1) .. Len(log), log[k].name = j, SchedulerWants(log[k])
                   PROVE  ComesUp(j, schedulerAt)'
        BY DEF ComesUp
      <3>1. k \in 1 .. Len(log) /\ schedulerAt' < k
        BY <1>1, <2>3
      <3> QED
        BY <2>2, <3>1
    <2>4. CASE Schedule
      <3>1. PICK queue \in Seq(Entry) :
              /\ DecideHead(queue)
              /\ \/ queue = workload /\ schedulerAt' = schedulerAt
                 \/ \E k \in NextEvent({i \in (schedulerAt + 1) .. Len(log) : SchedulerWants(log[i])}) :
                      /\ k \in 1 .. Len(log) /\ schedulerAt' = k
                      /\ Len(queue) = Len(workload) + 1
                      /\ queue[Len(queue)] = [name |-> log[k].name, job |-> log[k].value]
                      /\ \A n \in 1 .. Len(workload) : queue[n] = workload[n]
        BY <2>4, ScheduleQueue
      <3>2. InQueue(queue, j) => InQueue(workload', j)
        BY <1>6, <3>1, DecideHeadLists
      <3>3. CASE queue = workload /\ schedulerAt' = schedulerAt
        BY <2>1, <2>3, <3>2, <3>3
      <3>4. ASSUME NEW k \in NextEvent({i \in (schedulerAt + 1) .. Len(log) : SchedulerWants(log[i])}),
                   k \in 1 .. Len(log), schedulerAt' = k,
                   Len(queue) = Len(workload) + 1,
                   queue[Len(queue)] = [name |-> log[k].name, job |-> log[k].value],
                   \A n \in 1 .. Len(workload) : queue[n] = workload[n]
            PROVE  InQueue(workload', j) \/ ComesUp(j, schedulerAt)'
        <4>1. Len(workload) \in Nat
          BY LenProperties DEF Typed, SchedulerFits
        <4>2. CASE InQueue(workload, j)
          <5>1. InQueue(queue, j)
            BY <3>4, <4>1, <4>2 DEF InQueue
          <5> QED
            BY <3>2, <5>1
        <4>3. CASE ComesUp(j, schedulerAt)
          <5>1. PICK i \in (schedulerAt + 1) .. Len(log) : log[i].name = j /\ SchedulerWants(log[i])
            BY <4>3 DEF ComesUp
          <5>2. k <= i
            BY <3>4, <5>1 DEF NextEvent
          <5>3. CASE k = i
            <6>1. queue[Len(queue)].name = j /\ Len(queue) \in 1 .. Len(queue)
              BY <3>4, <4>1, <5>1, <5>3
            <6> QED
              BY <3>2, <6>1 DEF InQueue
          <5>4. CASE k # i
            <6>1. i \in 1 .. Len(log) /\ schedulerAt' < i
              BY <1>1, <3>4, <5>1, <5>2, <5>4
            <6> QED
              BY <2>2, <5>1, <6>1
          <5> QED
            BY <5>3, <5>4
        <4> QED
          BY <2>1, <4>2, <4>3
      <3> QED
        BY <3>1, <3>3, <3>4
    <2> QED
      BY <1>3, <2>1, <2>3, <2>4
  <1> QED
    BY <1>5, <1>6, UndecidedAnnounced

(* What is about a job comes after its creation.                           *)
Born == \A j \in Jobs : created[j] = 0 =>
          /\ ~Stored(j) /\ ~InQueue(workload, j)
          /\ \A i \in 1 .. Len(log) : log[i].name # j

LEMMA AfterCreation ==
  ASSUME Typed, Born, NEW j \in Jobs,
         \/ Stored(j) \/ InQueue(workload, j)
         \/ \E i \in 1 .. Len(log) : log[i].name = j
  PROVE  created[j] >= 1
  BY DEF Born, Typed, BoundsFit

(* Who is in the queue was there, or has been announced; the decision that *)
(* the head may hold leaves the job ids.                                   *)
Matches(x, y) == x.name = y.name /\ x.job.ids = y.job.ids
IsIn(x, queue) == \E n \in 1 .. Len(queue) : Matches(queue[n], x)
IsAnnounced(x) == \E i \in 1 .. Len(log) : log[i].name = x.name /\ log[i].value.ids = x.job.ids

LEMMA DecideHeadKeeps ==
  ASSUME Typed, NEW queue \in Seq(Entry), DecideHead(queue), Typed', NEW m \in 1 .. Len(workload')
  PROVE  IsIn(workload'[m], queue)
  <1>1. CASE queue = << >>
    BY <1>1 DEF DecideHead, IsIn, Matches
  <1>2. CASE queue # << >>
    <2>1. /\ Len(queue) \in Nat /\ 1 \in 1 .. Len(queue)
          /\ Head(queue) = queue[1] /\ Len(Tail(queue)) = Len(queue) - 1
          /\ \A n \in 1 .. Len(Tail(queue)) : Tail(queue)[n] = queue[n + 1] /\ n + 1 \in 1 .. Len(queue)
      BY <1>2, TailIs
    <2>2. PICK job \in Decisions(Head(queue).job) :
            workload' = Tail(queue) \/ workload' = [queue EXCEPT ![1].job = job]
      BY <1>2 DEF DecideHead
    <2>3. CASE workload' = Tail(queue)
      BY <2>1, <2>3 DEF IsIn, Matches
    <2>4. CASE workload' = [queue EXCEPT ![1].job = job]
      <3> DEFINE decided == [queue[1] EXCEPT !.job = job]
      <3>1. queue[1] \in Entry /\ DOMAIN queue = 1 .. Len(queue)
        BY <2>1, ElementOfSeq, LenProperties
      <3>2. queue[1].job \in JobValue
        BY <3>1 DEF Entry
      <3>3. job.ids = queue[1].job.ids
        BY <2>1, <2>2, <3>2, DecisionsTyped
      <3>4. decided.name = queue[1].name /\ decided.job = job
        BY <3>1 DEF Entry
      <3>5. workload' = [queue EXCEPT ![1] = decided]
        BY <2>4
      <3> HIDE DEF decided
      <3>6. /\ DOMAIN workload' = DOMAIN queue
            /\ \A n \in 1 .. Len(queue) : workload'[n] = IF n = 1 THEN decided ELSE queue[n]
        BY <2>1, <3>1, <3>5
      <3>7. workload' \in Seq(Entry)
        BY DEF Typed, SchedulerFits
      <3>8. m \in 1 .. Len(queue)
        BY <2>1, <3>1, <3>6, <3>7, LenProperties
      <3> QED
        BY <2>1, <3>3, <3>4, <3>6, <3>8 DEF IsIn, Matches
    <2> QED
      BY <2>2, <2>3, <2>4
  <1> QED
    BY <1>1, <1>2

LEMMA QueueMoves ==
  ASSUME Typed, [Next]_vars, NEW m \in 1 .. Len(workload')
  PROVE  IsIn(workload'[m], workload) \/ IsAnnounced(workload'[m])
  <1>1. CASE Schedule
    <2>1. PICK queue \in Seq(Entry) :
            /\ DecideHead(queue)
            /\ \/ queue = workload
               \/ \E k \in 1 .. Len(log) :
                    /\ Len(queue) = Len(workload) + 1
                    /\ queue[Len(queue)] = [name |-> log[k].name, job |-> log[k].value]
                    /\ \A n \in 1 .. Len(workload) : queue[n] = workload[n]
      BY <1>1, ScheduleQueue
    <2>2. IsIn(workload'[m], queue)
      BY <2>1, NextTyped, DecideHeadKeeps
    <2>3. CASE queue = workload
      BY <2>2, <2>3
    <2>4. ASSUME NEW k \in 1 .. Len(log), Len(queue) = Len(workload) + 1,
                 queue[Len(queue)] = [name |-> log[k].name, job |-> log[k].value],
                 \A n \in 1 .. Len(workload) : queue[n] = workload[n]
          PROVE  IsIn(workload'[m], workload) \/ IsAnnounced(workload'[m])
      <3>1. PICK n \in 1 .. Len(queue) : Matches(queue[n], workload'[m])
        BY <2>2 DEF IsIn
      <3>2. Len(workload) \in Nat
        BY LenProperties DEF Typed, SchedulerFits
      <3>3. CASE n = Len(queue)
        <4>1. queue[n].name = log[k].name /\ queue[n].job = log[k].value
          BY <2>4, <3>3
        <4> QED
          BY <3>1, <4>1 DEF Matches, IsAnnounced
      <3>4. CASE n # Len(queue)
        <4>1. n \in 1 .. Len(workload)
          BY <2>4, <3>2, <3>4
        <4> QED
          BY <2>4, <3>1, <4>1 DEF IsIn
      <3> QED
        BY <3>3, <3>4
    <2> QED
      BY <2>1, <2>3, <2>4
  <1>2. CASE workload' = workload
    BY <1>2 DEF IsIn, Matches
  <1>3. CASE workload' = << >>
    BY <1>3
  <1>4. Schedule \/ workload' = workload \/ workload' = << >>
    <2>1. ASSUME NEW c \in Clusters, Heartbeat(c) PROVE workload' = workload
      BY <2>1 DEF Heartbeat, BeatLists, BeatListRaises, BeatCopies, BeatEnds, CleanupEnds,
                  BeatUpdates, CleanupEvicts, schedulerVars
    <2>2. ASSUME NEW c \in Clusters, Flow(c) PROVE workload' = workload
      BY <2>2 DEF Flow, Submit, SubmitRaises, WriteBack, RemoveFromCluster, RemoveRaises, schedulerVars
    <2> QED
      BY <2>1, <2>2
      DEF Next, vars, schedulerVars, CreateJob, DeleteJob, SchedulerRestarts,
          ClusterIsAdded, ClusterBecomesReady, TasksVanish
  <1> QED
    BY <1>1, <1>2, <1>3, <1>4

LEMMA WorkloadMoves ==
  ASSUME Typed, [Next]_vars, NEW j \in Jobs, InQueue(workload', j)
  PROVE  InQueue(workload, j) \/ \E i \in 1 .. Len(log) : log[i].name = j
  BY QueueMoves DEF InQueue, IsIn, IsAnnounced, Matches

LEMMA CreationsCounted ==
  ASSUME Typed, [Next]_vars
  PROVE  \/ created' = created /\ \A j \in Jobs : ~CreateJob(j)
         \/ \E j \in Jobs : CreateJob(j)
  <1>1. ASSUME NEW c \in Clusters, Heartbeat(c) PROVE created' = created
    BY <1>1 DEF Heartbeat, BeatLists, BeatListRaises, BeatCopies, BeatEnds, CleanupEnds,
                BeatUpdates, CleanupEvicts
  <1>2. ASSUME NEW c \in Clusters, Flow(c) PROVE created' = created
    BY <1>2 DEF Flow, Submit, SubmitRaises, WriteBack, RemoveFromCluster, RemoveRaises
  <1> QED
    BY <1>1, <1>2
    DEF Next, vars, DeleteJob, Schedule, ScheduleOnJobEvent, ScheduleOnClusterEvent, SchedulerRestarts,
        ClusterIsAdded, ClusterBecomesReady, TasksVanish

\* A job that was not stored and is now has been created.
LEMMA StoredByCreation ==
  ASSUME Typed, [Next]_vars, NEW j \in Jobs, ~Stored(j), Stored(j)'
  PROVE  CreateJob(j)
  <1>1. ~(UNCHANGED apiVars)
    BY DEF apiVars, Stored
  <1>2. ASSUME NEW i \in Jobs, CreateJob(i) PROVE CreateJob(j)
    <2>1. jobs' = [jobs EXCEPT ![i] = NewJob]
      BY <1>2, CreateAnnounces
    <2>2. i = j
      BY <2>1 DEF Stored, Typed, StoreFits
    <2> QED
      BY <1>2, <2>2
  <1>3. ASSUME NEW i \in Jobs, DeleteJob(i) PROVE FALSE
    <2>1. jobs' = [jobs EXCEPT ![i] = NoJob]
      BY <1>3, DeleteAnnounces
    <2> QED
      BY <2>1 DEF Stored, Typed, StoreFits
  <1>4. ASSUME NEW i \in Jobs, NEW v \in JobValue, PutJob(i, v) PROVE FALSE
    <2>1. jobs[i] # NoJob /\ jobs' = [jobs EXCEPT ![i] = v]
      BY <1>4, PutGrows DEF Typed
    <2> QED
      BY <2>1 DEF Stored, Typed, StoreFits
  <1> QED
    BY <1>1, <1>2, <1>3, <1>4, StepWritten DEF Written

\* Who is announced has been stored before, or is now.
LEMMA AnnouncedNames ==
  ASSUME Typed, [Next]_vars, NEW i \in 1 .. Len(log'), i \notin 1 .. Len(log)
  PROVE  log'[i].name \in Jobs /\ (Stored(log'[i].name) \/ CreateJob(log'[i].name))
  <1>1. CASE UNCHANGED apiVars
    BY <1>1 DEF apiVars
  <1>2. ASSUME NEW j \in Jobs, NEW e, Grown, Len(log') = Len(log) + 1, log'[Len(log) + 1] = e,
               e.name = j, Stored(j) \/ CreateJob(j)
        PROVE  log'[i].name \in Jobs /\ (Stored(log'[i].name) \/ CreateJob(log'[i].name))
    <2>1. i = Len(log) + 1
      BY <1>2 DEF Grown
    <2> QED
      BY <1>2, <2>1
  <1>3. ASSUME NEW j \in Jobs, CreateJob(j)
        PROVE  log'[i].name \in Jobs /\ (Stored(log'[i].name) \/ CreateJob(log'[i].name))
    <2> DEFINE e == [type |-> "ADD", name |-> j, value |-> NewJob]
    <2>1. e.name = j
      OBVIOUS
    <2>2. Grown /\ Len(log') = Len(log) + 1 /\ log'[Len(log) + 1] = e
      BY <1>3, CreateAnnounces
    <2> HIDE DEF e
    <2> QED
      BY <1>2, <1>3, <2>1, <2>2
  <1>4. ASSUME NEW j \in Jobs, DeleteJob(j)
        PROVE  log'[i].name \in Jobs /\ (Stored(log'[i].name) \/ CreateJob(log'[i].name))
    <2> DEFINE e == [type |-> "DELETE", name |-> j, value |-> jobs[j]]
    <2>1. e.name = j
      OBVIOUS
    <2>2. Grown /\ Len(log') = Len(log) + 1 /\ log'[Len(log) + 1] = e /\ Stored(j)
      BY <1>4, DeleteAnnounces DEF Stored
    <2> HIDE DEF e
    <2> QED
      BY <1>2, <2>1, <2>2
  <1>5. ASSUME NEW j \in Jobs, NEW v \in JobValue, PutJob(j, v)
        PROVE  log'[i].name \in Jobs /\ (Stored(log'[i].name) \/ CreateJob(log'[i].name))
    <2> DEFINE e == [type |-> "UPDATE", name |-> j, value |-> v]
    <2>1. e.name = j
      OBVIOUS
    <2>2. Grown /\ Len(log') = Len(log) + 1 /\ log'[Len(log) + 1] = e /\ Stored(j)
      BY <1>5, PutGrows DEF Stored, Typed
    <2> HIDE DEF e
    <2> QED
      BY <1>2, <2>1, <2>2
  <1> QED
    BY <1>1, <1>3, <1>4, <1>5, StepWritten DEF Written

LEMMA NextBorn ==
  ASSUME Typed, Born, [Next]_vars
  PROVE  Born'
  <1> SUFFICES ASSUME NEW j \in Jobs, created'[j] = 0
               PROVE  /\ ~Stored(j)' /\ ~InQueue(workload', j)
                      /\ \A i \in 1 .. Len(log') : log'[i].name # j
    BY DEF Born, InQueue
  <1>1. ~CreateJob(j) /\ created[j] = 0
    <2>1. created[j] \in Nat
      BY DEF Typed, BoundsFit
    <2>2. ASSUME NEW i \in Jobs, CreateJob(i) PROVE i # j /\ created[j] = 0
      <3>1. created' = [created EXCEPT ![i] = created[i] + 1]
        BY <2>2, CreateAnnounces
      <3> QED
        BY <2>1, <3>1 DEF Typed, BoundsFit
    <2> QED
      BY <2>2, CreationsCounted
  <1>2. ~Stored(j) /\ ~InQueue(workload, j) /\ \A i \in 1 .. Len(log) : log[i].name # j
    BY <1>1 DEF Born
  <1>3. ~Stored(j)'
    BY <1>1, <1>2, StoredByCreation
  <1>4. ~InQueue(workload', j)
    BY <1>2, WorkloadMoves
  <1>5. ASSUME NEW i \in 1 .. Len(log') PROVE log'[i].name # j
    <2>1. CASE i \in 1 .. Len(log)
      BY <1>2, <2>1, StepWrites DEF Grown
    <2>2. CASE i \notin 1 .. Len(log)
      BY <1>1, <1>2, <2>2, AnnouncedNames
    <2> QED
      BY <2>1, <2>2
  <1> QED
    BY <1>3, <1>4, <1>5

(* Who waits in the queue waits behind a job that is gone.                 *)
HeadIsGone == workload # << >> => ~Stored(workload[1].name)

LEMMA NextHeadIsGone ==
  ASSUME Typed, Born, HeadIsGone, MaxCreates <= 1, [Next]_vars
  PROVE  HeadIsGone'
  <1> SUFFICES ASSUME workload' # << >> PROVE jobs'[workload'[1].name] = NoJob
    BY DEF HeadIsGone, Stored
  <1>1. workload \in Seq(Entry) /\ Len(workload) \in Nat
    BY LenProperties DEF Typed, SchedulerFits
  <1>2. CASE Schedule
    <2>1. PICK queue \in Seq(Entry) :
            /\ DecideHead(queue)
            /\ \/ queue = workload
               \/ /\ Len(queue) = Len(workload) + 1
                  /\ \A n \in 1 .. Len(workload) : queue[n] = workload[n]
      BY <1>2, ScheduleQueue
    <2>2. queue # << >>
      BY <2>1 DEF DecideHead
    <2>3. /\ Len(queue) \in Nat /\ 1 \in 1 .. Len(queue)
          /\ Head(queue) = queue[1] /\ Tail(queue) \in Seq(Entry)
          /\ Len(Tail(queue)) = Len(queue) - 1
      BY <2>2, TailIs
    <2>4. PICK job \in Decisions(Head(queue).job) :
            IF Stored(Head(queue).name)
            THEN workload' = Tail(queue)
            ELSE workload' = [queue EXCEPT ![1].job = job] /\ UNCHANGED apiVars
      BY <2>1, <2>2 DEF DecideHead
    <2>5. CASE Stored(Head(queue).name)
      <3>1. workload = << >>
        <4> SUFFICES ASSUME workload # << >> PROVE FALSE
          OBVIOUS
        <4>1. 1 \in 1 .. Len(workload)
          BY <1>1, TailIs
        <4>2. queue[1] = workload[1]
          BY <2>1, <4>1
        <4> QED
          BY <2>3, <2>5, <4>2 DEF HeadIsGone
      <3>2. Len(Tail(queue)) = 0
        BY <2>1, <2>2, <2>3, <3>1
      <3> QED
        BY <2>3, <2>4, <2>5, <3>2, EmptySeq
    <2>6. CASE ~Stored(Head(queue).name)
      <3> DEFINE decided == [queue[1] EXCEPT !.job = job]
      <3>1. queue[1] \in Entry /\ DOMAIN queue = 1 .. Len(queue)
        BY <2>3, ElementOfSeq, LenProperties
      <3>2. decided.name = queue[1].name
        BY <3>1 DEF Entry
      <3>3. workload' = [queue EXCEPT ![1] = decided]
        BY <2>4, <2>6
      <3> HIDE DEF decided
      <3>4. workload'[1] = decided
        BY <2>3, <3>1, <3>3
      <3> QED
        BY <2>3, <2>4, <2>6, <3>2, <3>4 DEF apiVars, Stored
    <2> QED
      BY <2>4, <2>5, <2>6
  <1>3. CASE workload' = workload
    <2>1. ~Stored(workload[1].name) /\ workload # << >>
      BY <1>3 DEF HeadIsGone
    <2>2. 1 \in 1 .. Len(workload)
      BY <1>1, <2>1, TailIs
    <2>3. workload[1] \in Entry
      BY <1>1, <2>2, ElementOfSeq
    <2>4. PICK j \in Jobs : j = workload[1].name
      BY <2>3 DEF Entry
    <2>5. created[j] >= 1 /\ created[j] \in Nat
      BY <2>2, <2>4, AfterCreation DEF InQueue, Typed, BoundsFit
    <2>6. ~CreateJob(j)
      BY <2>5, JobFlowAssumption DEF CreateJob
    <2>7. ~Stored(j)'
      BY <2>1, <2>4, <2>6, StoredByCreation
    <2> QED
      BY <1>3, <2>4, <2>7 DEF Stored
  <1>4. Schedule \/ workload' = workload
    <2>1. ASSUME NEW c \in Clusters, Heartbeat(c) PROVE workload' = workload
      BY <2>1 DEF Heartbeat, BeatLists, BeatListRaises, BeatCopies, BeatEnds, CleanupEnds,
                  BeatUpdates, CleanupEvicts, schedulerVars
    <2>2. ASSUME NEW c \in Clusters, Flow(c) PROVE workload' = workload
      BY <2>2 DEF Flow, Submit, SubmitRaises, WriteBack, RemoveFromCluster, RemoveRaises, schedulerVars
    <2> QED
      BY <2>1, <2>2
      DEF Next, vars, schedulerVars, CreateJob, DeleteJob, SchedulerRestarts,
          ClusterIsAdded, ClusterBecomesReady, TasksVanish
  <1> QED
    BY <1>2, <1>3, <1>4

(* What the user is promised: a job is decided once the scheduler is at    *)
(* rest, unless it waits behind one that is gone.                          *)
NothingIsForgotten ==
  SchedulerRests =>
    \A j \in Jobs : Stored(j) /\ Undecided(jobs[j]) => InQueue(workload, j)

LeftBehind ==
  SchedulerRests =>
    \A j \in Jobs : Stored(j) /\ Undecided(jobs[j]) => Stuck

DecisionInv == Typed /\ InitIsUnplaced /\ DecisionsAreComing

LEMMA InitDecisions == Init => DecisionInv /\ Born /\ HeadIsGone
  <1> SUFFICES ASSUME Init PROVE DecisionInv /\ Born /\ HeadIsGone
    OBVIOUS
  <1>1. /\ log = << >> /\ workload = << >> /\ Len(log) = 0 /\ Len(workload) = 0
        /\ \A j \in Jobs : ~Stored(j)
        /\ \A c \in Clusters : submitted[c] = Idle /\ beat[c].stage = "idle"
    BY DEF Init, Store!Init, Stored, Idle
  <1>2. InitIsUnplaced
    BY <1>1 DEF InitIsUnplaced, Held
  <1>3. DecisionsAreComing
    BY <1>1 DEF DecisionsAreComing
  <1>4. Born /\ HeadIsGone
    BY <1>1 DEF Born, HeadIsGone, InQueue
  <1> QED
    BY <1>2, <1>3, <1>4, InitTyped DEF DecisionInv

LEMMA NextDecisions ==
  ASSUME DecisionInv, MaxRestarts = 0, [Next]_vars
  PROVE  DecisionInv'
  BY NextTyped, NextInitIsUnplaced, NextDecisionsAreComing DEF DecisionInv

LEMMA ComesUpMeansBusy ==
  ASSUME Typed, SchedulerRests, NEW j \in Jobs
  PROVE  ~ComesUp(j, schedulerAt)
  BY DEF SchedulerRests, ComesUp

(* As long as the scheduler is not started again: every job that is stored *)
(* and not decided, or has evicted tasks, is in its queue once it has      *)
(* taken its events, whatever the other controllers write in between.      *)
THEOREM EveryJobIsQueued == ASSUME MaxRestarts = 0 PROVE Spec => []NothingIsForgotten
  <1>1. DecisionInv => NothingIsForgotten
    BY ComesUpMeansBusy DEF DecisionInv, DecisionsAreComing, NothingIsForgotten
  <1>2. DecisionInv /\ [Next]_vars => DecisionInv'
    BY NextDecisions
  <1> QED
    BY <1>1, <1>2, InitDecisions, PTL DEF Spec

(* And if no name is used again, such a job waits only behind one that was *)
(* deleted before its decision.                                            *)
THEOREM OnlyStuckJobsWait == ASSUME MaxRestarts = 0, MaxCreates <= 1 PROVE Spec => []LeftBehind
  <1> DEFINE Inv == DecisionInv /\ Born /\ HeadIsGone
  <1>1. Inv => LeftBehind
    <2> SUFFICES ASSUME Inv, SchedulerRests,
                        NEW j \in Jobs, Stored(j), Undecided(jobs[j])
                 PROVE  Stuck
      BY DEF LeftBehind
    <2>1. InQueue(workload, j)
      BY ComesUpMeansBusy DEF DecisionInv, DecisionsAreComing
    <2>2. workload # << >> /\ workload \in Seq(Entry)
      BY <2>1 DEF InQueue, DecisionInv, Typed, SchedulerFits
    <2>3. Head(workload) = workload[1]
      BY <2>2, TailIs
    <2> QED
      BY <2>2, <2>3 DEF HeadIsGone, Stuck
  <1>2. Inv /\ [Next]_vars => Inv'
    BY NextDecisions, NextBorn, NextHeadIsGone DEF DecisionInv
  <1>3. Init => Inv
    BY InitDecisions
  <1> QED
    BY <1>1, <1>2, <1>3, PTL DEF Spec

-----------------------------------------------------------------------------
(* A job that is gone does not come back: its deletion is announced, last  *)
(* of all, and says where its updates have placed it.                      *)
IsDelete(k, j) == log[k].type = "DELETE" /\ log[k].name = j

Departed(j) ==
  \A k \in 1 .. Len(log) : IsDelete(k, j) =>
    /\ ~Stored(j)
    /\ \A i \in 1 .. Len(log) : log[i].name = j => i <= k
    /\ \A i \in 1 .. Len(log) : IsUpdate(i, j) => PlacedOn(log[i].value) = PlacedOn(log[k].value)

Announces(j) ==
  ~Stored(j) /\ (\E i \in 1 .. Len(log) : log[i].name = j)
    => \E k \in 1 .. Len(log) : IsDelete(k, j)

Departures == \A j \in Jobs : Departed(j) /\ Announces(j)

LEMMA DeparturesKept ==
  ASSUME Typed, MaxCreates <= 1, Final, NEW j \in Jobs, Departed(j), Announces(j), [Next]_vars
  PROVE  Departed(j)' /\ Announces(j)'
  <1>1. CASE UNCHANGED apiVars
    BY <1>1 DEF apiVars, Departed, Announces, IsDelete, IsUpdate, Stored, PlacedOn
  <1>2. ASSUME NEW e, Grown, Len(log') = Len(log) + 1, log'[Len(log) + 1] = e
        PROVE  /\ \A k \in 1 .. Len(log') : \/ k \in 1 .. Len(log) /\ log'[k] = log[k]
                                            \/ k = Len(log) + 1 /\ log'[k] = e
               /\ Len(log) + 1 \in 1 .. Len(log') /\ \A k \in 1 .. Len(log) : k \in 1 .. Len(log')
    BY <1>2 DEF Grown
  <1>0. jobs \in [Jobs -> JobValue \cup {NoJob}]
    BY DEF Typed, StoreFits
  <1>3. ASSUME NEW i \in Jobs, i # j, NEW e, NEW v, Grown, Len(log') = Len(log) + 1,
               log'[Len(log) + 1] = e, jobs' = [jobs EXCEPT ![i] = v], e.name = i
        PROVE  Departed(j)' /\ Announces(j)'
    <2>1. /\ \A k \in 1 .. Len(log') : \/ k \in 1 .. Len(log) /\ log'[k] = log[k]
                                       \/ k = Len(log) + 1 /\ log'[k] = e
          /\ \A k \in 1 .. Len(log) : k \in 1 .. Len(log')
          /\ jobs'[j] = jobs[j]
      BY <1>0, <1>2, <1>3
    <2>2. \A k \in 1 .. Len(log') : log'[k].name = j => k \in 1 .. Len(log) /\ log'[k] = log[k]
      BY <1>3, <2>1
    <2>3. Departed(j)'
      BY <2>1, <2>2 DEF Departed, IsDelete, IsUpdate, Stored, PlacedOn
    <2>4. Announces(j)'
      BY <1>3, <2>1, <2>2 DEF Grown, Announces, IsDelete, Stored
    <2> QED
      BY <2>3, <2>4
  <1>4. CASE CreateJob(j)
    <2> DEFINE e == [type |-> "ADD", name |-> j, value |-> NewJob]
    <2>1. e.name = j /\ e.type = "ADD"
      OBVIOUS
    <2>2. /\ Grown /\ Len(log') = Len(log) + 1 /\ log'[Len(log) + 1] = e
          /\ jobs' = [jobs EXCEPT ![j] = NewJob] /\ created[j] < MaxCreates
      BY <1>4, CreateAnnounces
    <2> HIDE DEF e
    <2>0. created[j] = 0
      BY <2>2, JobFlowAssumption DEF Typed, BoundsFit
    <2>3. \A k \in 1 .. Len(log) : log[k].name # j
      BY <2>0 DEF Final, History, OneAddition
    <2>4. /\ \A k \in 1 .. Len(log') : \/ k \in 1 .. Len(log) /\ log'[k] = log[k]
                                       \/ k = Len(log) + 1 /\ log'[k] = e
          /\ jobs'[j] = NewJob
      BY <1>0, <1>2, <2>2
    <2>5. NewJob # NoJob
      BY NewJobTyped
    <2> QED
      BY <2>1, <2>3, <2>4, <2>5 DEF Departed, Announces, IsDelete, Stored
  <1>5. CASE DeleteJob(j)
    <2> DEFINE e == [type |-> "DELETE", name |-> j, value |-> jobs[j]]
    <2>1. e.name = j /\ e.type = "DELETE" /\ e.value = jobs[j]
      OBVIOUS
    <2>2. /\ Grown /\ Len(log') = Len(log) + 1 /\ log'[Len(log) + 1] = e
          /\ Stored(j) /\ jobs' = [jobs EXCEPT ![j] = NoJob]
      BY <1>5, DeleteAnnounces DEF Stored
    <2> HIDE DEF e
    <2>3. /\ \A k \in 1 .. Len(log') : \/ k \in 1 .. Len(log) /\ log'[k] = log[k]
                                       \/ k = Len(log) + 1 /\ log'[k] = e
          /\ Len(log) + 1 \in 1 .. Len(log') /\ jobs'[j] = NoJob /\ Len(log) \in Nat
      BY <1>0, <1>2, <2>2 DEF Grown
    <2>4. \A k \in 1 .. Len(log') : IsDelete(k, j)' => k = Len(log) + 1
      BY <2>2, <2>3 DEF Departed, IsDelete
    <2>5. \A i \in 1 .. Len(log) : IsUpdate(i, j) => PlacedOn(log[i].value) = PlacedOn(jobs[j])
      <3>1. CASE jobs[j] = NewJob /\ Unplaced(j)
        BY <3>1 DEF Unplaced
      <3>2. CASE Faithful(j, jobs[j])
        BY <3>2 DEF Faithful, Placing, IsUpdate, Final, History, OnePlacement
      <3> QED
        BY <2>2, <3>1, <3>2 DEF Final, History, StoreIsFaithful
    <2>6. Announces(j)'
      BY <2>1, <2>2, <2>3 DEF Announces, IsDelete
    <2>7. Departed(j)'
      <3> SUFFICES ASSUME NEW k \in 1 .. Len(log'), IsDelete(k, j)'
                   PROVE  /\ ~Stored(j)'
                          /\ \A i \in 1 .. Len(log') : log'[i].name = j => i <= k
                          /\ \A i \in 1 .. Len(log') : IsUpdate(i, j)' =>
                               PlacedOn(log'[i].value) = PlacedOn(log'[k].value)
        BY DEF Departed, PlacedOn
      <3>1. k = Len(log) + 1 /\ log'[k].value = jobs[j]
        BY <2>1, <2>2, <2>4
      <3>2. \A i \in 1 .. Len(log') : i <= k
        BY <2>2, <3>1
      <3>3. \A i \in 1 .. Len(log') : IsUpdate(i, j)' => PlacedOn(log'[i].value) = PlacedOn(jobs[j])
        BY <2>1, <2>3, <2>5 DEF IsUpdate
      <3> QED
        BY <2>3, <3>1, <3>2, <3>3 DEF Stored
    <2> QED
      BY <2>6, <2>7
  <1>6. ASSUME NEW v \in JobValue, PutJob(j, v)
        PROVE  Departed(j)' /\ Announces(j)'
    <2> DEFINE e == [type |-> "UPDATE", name |-> j, value |-> v]
    <2>1. e.name = j /\ e.type = "UPDATE"
      OBVIOUS
    <2>2. /\ Grown /\ Len(log') = Len(log) + 1 /\ log'[Len(log) + 1] = e
          /\ Stored(j) /\ jobs' = [jobs EXCEPT ![j] = v]
      BY <1>6, PutGrows DEF Stored, Typed
    <2> HIDE DEF e
    <2>4. v # NoJob
      BY <1>6 DEF JobValue, NoJob
    <2>3. /\ \A k \in 1 .. Len(log') : \/ k \in 1 .. Len(log) /\ log'[k] = log[k]
                                       \/ k = Len(log) + 1 /\ log'[k] = e
          /\ jobs'[j] = v
      BY <1>0, <1>2, <2>2
    <2> QED
      BY <2>1, <2>2, <2>3, <2>4 DEF Departed, Announces, IsDelete, Stored
  <1>7. ASSUME NEW i \in Jobs, i # j, CreateJob(i)
        PROVE  Departed(j)' /\ Announces(j)'
    <2> DEFINE e == [type |-> "ADD", name |-> i, value |-> NewJob]
    <2>1. e.name = i
      OBVIOUS
    <2>2. /\ Grown /\ Len(log') = Len(log) + 1 /\ log'[Len(log) + 1] = e
          /\ jobs' = [jobs EXCEPT ![i] = NewJob]
      BY <1>7, CreateAnnounces
    <2> HIDE DEF e
    <2> QED
      BY <1>3, <1>7, <2>1, <2>2
  <1>8. ASSUME NEW i \in Jobs, i # j, DeleteJob(i)
        PROVE  Departed(j)' /\ Announces(j)'
    <2> DEFINE e == [type |-> "DELETE", name |-> i, value |-> jobs[i]]
    <2>1. e.name = i
      OBVIOUS
    <2>2. /\ Grown /\ Len(log') = Len(log) + 1 /\ log'[Len(log) + 1] = e
          /\ jobs' = [jobs EXCEPT ![i] = NoJob]
      BY <1>8, DeleteAnnounces
    <2> HIDE DEF e
    <2> QED
      BY <1>3, <1>8, <2>1, <2>2
  <1>9. ASSUME NEW i \in Jobs, i # j, NEW v \in JobValue, PutJob(i, v)
        PROVE  Departed(j)' /\ Announces(j)'
    <2> DEFINE e == [type |-> "UPDATE", name |-> i, value |-> v]
    <2>1. e.name = i
      OBVIOUS
    <2>2. /\ Grown /\ Len(log') = Len(log) + 1 /\ log'[Len(log) + 1] = e
          /\ jobs' = [jobs EXCEPT ![i] = v]
      BY <1>9, PutGrows DEF Typed
    <2> HIDE DEF e
    <2> QED
      BY <1>3, <1>9, <2>1, <2>2
  <1> QED
    BY <1>1, <1>4, <1>5, <1>6, <1>7, <1>8, <1>9, StepWritten DEF Written

(* Pods go when their flow controller comes upon the deletion.             *)
Cleared(j, c) ==
  \A k \in 1 .. Len(log) :
    IsDelete(k, j) /\ k <= flowAt[c] /\ c \in PlacedOn(log[k].value) => tasks[c][j] = 0

LEMMA FlowTasks ==
  ASSUME Typed, [Next]_vars, Manager = "kubernetes", MaxFailures = 0,
         NEW c \in Clusters, NEW j \in Jobs
  PROVE  \/ flowAt'[c] = flowAt[c] /\ tasks'[c][j] \in {0, tasks[c][j]}
         \/ \E k \in 1 .. Len(log) :
              /\ flowAt'[c] = k /\ TakeFlowEvent(c, k)
              /\ IsUpdate(k, j) \/ tasks'[c][j] \in {0, tasks[c][j]}
              /\ IsDelete(k, j) => tasks'[c][j] = 0
  <1>1. tasks \in [Clusters -> [Jobs -> Nat]] /\ flowAt \in [Clusters -> 0 .. Len(log)]
    BY DEF Typed, FlowFits, TaskCounts
  <1>2. CASE UNCHANGED <<flowAt, tasks>>
    BY <1>2
  <1>3. ASSUME NEW d \in Clusters, Submit(d)
        PROVE  \/ flowAt'[c] = flowAt[c] /\ tasks'[c][j] \in {0, tasks[c][j]}
               \/ \E k \in 1 .. Len(log) :
                    /\ flowAt'[c] = k /\ TakeFlowEvent(c, k)
                    /\ IsUpdate(k, j) \/ tasks'[c][j] \in {0, tasks[c][j]}
                    /\ IsDelete(k, j) => tasks'[c][j] = 0
    <2>1. PICK k \in (flowAt[d] + 1) .. Len(log) :
            /\ log[k].type = "UPDATE" /\ TakeFlowEvent(d, k)
            /\ \E n : tasks' = [tasks EXCEPT ![d][log[k].name] = n]
      BY <1>3 DEF Submit
    <2>2. k \in 1 .. Len(log) /\ flowAt' = [flowAt EXCEPT ![d] = k]
      BY <2>1, TakenTyped DEF TakeFlowEvent
    <2>3. PICK n : tasks' = [tasks EXCEPT ![d][log[k].name] = n]
      BY <2>1
    <2>4. CASE d # c
      BY <1>1, <2>2, <2>3, <2>4
    <2>5. CASE d = c
      <3>1. flowAt'[c] = k /\ (log[k].name # j => tasks'[c][j] = tasks[c][j])
        BY <1>1, <2>2, <2>3, <2>5
      <3> QED
        BY <2>1, <2>2, <2>5, <3>1 DEF IsUpdate, IsDelete
    <2> QED
      BY <2>4, <2>5
  <1>4. ASSUME NEW d \in Clusters, RemoveFromCluster(d)
        PROVE  \/ flowAt'[c] = flowAt[c] /\ tasks'[c][j] \in {0, tasks[c][j]}
               \/ \E k \in 1 .. Len(log) :
                    /\ flowAt'[c] = k /\ TakeFlowEvent(c, k)
                    /\ IsUpdate(k, j) \/ tasks'[c][j] \in {0, tasks[c][j]}
                    /\ IsDelete(k, j) => tasks'[c][j] = 0
    <2>1. PICK k \in (flowAt[d] + 1) .. Len(log) :
            /\ log[k].type = "DELETE" /\ TakeFlowEvent(d, k)
            /\ tasks' = [tasks EXCEPT ![d][log[k].name] = TasksLeft(d, log[k].name, log[k].value)]
      BY <1>4 DEF RemoveFromCluster
    <2>2. k \in 1 .. Len(log) /\ flowAt' = [flowAt EXCEPT ![d] = k]
      BY <2>1, TakenTyped DEF TakeFlowEvent
    <2>3. TasksLeft(d, log[k].name, log[k].value) = 0
      BY DEF TasksLeft, PodsLeft
    <2>4. tasks'[c][j] = IF d = c /\ log[k].name = j THEN 0 ELSE tasks[c][j]
      BY <1>1, <2>1, <2>3
    <2>5. CASE d # c
      BY <1>1, <2>2, <2>4, <2>5
    <2>6. CASE d = c
      BY <1>1, <2>1, <2>2, <2>4, <2>6 DEF IsUpdate, IsDelete
    <2> QED
      BY <2>5, <2>6
  <1>5. ASSUME NEW d \in Clusters PROVE ~RemoveRaises(d)
    BY DEF RemoveRaises, Typed, BoundsFit
  <1>6. ASSUME NEW d \in Clusters, SubmitRaises(d)
        PROVE  \/ flowAt'[c] = flowAt[c] /\ tasks'[c][j] \in {0, tasks[c][j]}
               \/ \E k \in 1 .. Len(log) :
                    /\ flowAt'[c] = k /\ TakeFlowEvent(c, k)
                    /\ IsUpdate(k, j) \/ tasks'[c][j] \in {0, tasks[c][j]}
                    /\ IsDelete(k, j) => tasks'[c][j] = 0
    BY <1>6 DEF SubmitRaises, SubmitRefused, Typed, BoundsFit
  <1>7. ASSUME NEW d \in Clusters, NEW i \in Jobs, TasksVanish(d, i)
        PROVE  flowAt'[c] = flowAt[c] /\ tasks'[c][j] \in {0, tasks[c][j]}
    BY <1>1, <1>7 DEF TasksVanish, flowVars
  <1>8. ASSUME NEW d \in Clusters, Heartbeat(d) \/ WriteBack(d)
        PROVE  UNCHANGED <<flowAt, tasks>>
    BY <1>8 DEF Heartbeat, BeatLists, BeatListRaises, BeatCopies, BeatEnds, CleanupEnds,
                BeatUpdates, CleanupEvicts, WriteBack, flowVars
  <1>9. \/ UNCHANGED <<flowAt, tasks>>
        \/ \E d \in Clusters : Flow(d) \/ Heartbeat(d) \/ \E i \in Jobs : TasksVanish(d, i)
    BY DEF Next, vars, flowVars, CreateJob, DeleteJob, Schedule, ScheduleOnJobEvent,
           ScheduleOnClusterEvent, SchedulerRestarts, ClusterIsAdded, ClusterBecomesReady
  <1> QED
    BY <1>2, <1>3, <1>4, <1>5, <1>6, <1>7, <1>8, <1>9 DEF Flow

LEMMA NextCleared ==
  ASSUME Typed, [Next]_vars, Manager = "kubernetes", MaxFailures = 0,
         NEW c \in Clusters, NEW j \in Jobs, Departed(j), Cleared(j, c)
  PROVE  Cleared(j, c)'
  <1> SUFFICES ASSUME NEW k \in 1 .. Len(log'), IsDelete(k, j)', k <= flowAt'[c],
                      c \in PlacedOn(log'[k].value)
               PROVE  tasks'[c][j] = 0
    BY DEF Cleared, PlacedOn
  <1>1. Grown /\ flowAt[c] \in 0 .. Len(log) /\ tasks[c][j] \in Nat
    BY StepWrites DEF Typed, FlowFits, TaskCounts
  <1>2. flowAt'[c] \in 0 .. Len(log)
    BY <1>1, FlowTasks DEF Grown
  <1>3. /\ k \in 1 .. Len(log) /\ k \in Nat /\ Len(log) \in Nat /\ flowAt[c] \in Nat
        /\ IsDelete(k, j) /\ c \in PlacedOn(log[k].value)
    BY <1>1, <1>2 DEF Grown, IsDelete
  <1>4. CASE flowAt'[c] = flowAt[c] /\ tasks'[c][j] \in {0, tasks[c][j]}
    BY <1>3, <1>4 DEF Cleared
  <1>5. ASSUME NEW n \in 1 .. Len(log), flowAt'[c] = n, TakeFlowEvent(c, n),
               IsUpdate(n, j) \/ tasks'[c][j] \in {0, tasks[c][j]},
               IsDelete(n, j) => tasks'[c][j] = 0
        PROVE  tasks'[c][j] = 0
    <2>1. n > flowAt[c] /\ k <= n
      BY <1>3, <1>5 DEF TakeFlowEvent, NextEvent
    <2>2. CASE k <= flowAt[c]
      <3>1. tasks[c][j] = 0
        BY <1>3, <2>2 DEF Cleared
      <3>2. ~IsUpdate(n, j)
        <4>1. ~(n <= k)
          BY <1>3, <2>1, <2>2
        <4> QED
          BY <1>3, <1>5, <4>1 DEF Departed, IsUpdate
      <3> QED
        BY <1>5, <3>1, <3>2
    <2>3. CASE k > flowAt[c]
      <3>1. k \in (flowAt[c] + 1) .. Len(log) /\ FlowWants(c, log[k])
        BY <1>3, <2>3 DEF FlowWants, IsDelete
      <3>2. n <= k
        BY <1>5, <3>1 DEF TakeFlowEvent, NextEvent
      <3>3. n = k
        BY <1>3, <1>5, <2>1, <3>2
      <3> QED
        BY <1>3, <1>5, <3>3
    <2> QED
      BY <1>3, <2>2, <2>3
  <1> QED
    BY <1>4, <1>5, FlowTasks

(* A deleted job has left a cluster when its flow controller is at rest.   *)
DeletionsArrive ==
  \A j \in Jobs, c \in Clusters : ~Stored(j) /\ FlowRests(c) => tasks[c][j] = 0

(* While no name is used again, no job controller comes to its retry limit *)
(* and the calls to the clusters do not fail, a job leaves no pods behind, *)
(* at whatever moment of its submission and of the others' writes it is    *)
(* deleted.                                                                *)
THEOREM DeletedJobsArePurged ==
  ASSUME MaxCreates <= 1, MaxBeats <= RetryLimit, MaxFailures = 0, Manager = "kubernetes"
  PROVE  Spec => []DeletionsArrive
  <1> DEFINE Inv == /\ Typed /\ Final /\ Departures
                    /\ \A j \in Jobs, c \in Clusters : Cleared(j, c)
  <1>1. Init => Inv
    <2>1. Init => Departures /\ \A j \in Jobs, c \in Clusters : Cleared(j, c)
      <3> SUFFICES ASSUME Init PROVE Departures /\ \A j \in Jobs, c \in Clusters : Cleared(j, c)
        OBVIOUS
      <3>1. log = << >> /\ Len(log) = 0
        BY DEF Init, Store!Init
      <3> QED
        BY <3>1 DEF Departures, Departed, Announces, Cleared
    <2> QED
      BY <2>1, InitTyped, InitFinal
  <1>2. Inv /\ [Next]_vars => Inv'
    <2> SUFFICES ASSUME Inv, [Next]_vars PROVE Inv'
      OBVIOUS
    <2>1. Typed' /\ Final'
      BY NextTyped, NextFinal DEF OneLife
    <2>2. \A j \in Jobs : Departed(j)' /\ Announces(j)'
      BY DeparturesKept DEF Departures
    <2>3. \A j \in Jobs, c \in Clusters : Cleared(j, c)'
      BY NextCleared DEF Departures
    <2> QED
      BY <2>1, <2>2, <2>3 DEF Departures
  <1>3. Inv => DeletionsArrive
    <2> SUFFICES ASSUME Inv, NEW j \in Jobs, NEW c \in Clusters, ~Stored(j), FlowRests(c),
                        tasks[c][j] # 0
                 PROVE  FALSE
      BY DEF DeletionsArrive
    <2>1. tasks[c][j] > 0
      BY DEF Typed, FlowFits, TaskCounts
    <2>2. PICK i \in 1 .. Len(log) : IsUpdate(i, j) /\ c \in PlacedOn(log[i].value)
      BY <2>1 DEF Final, TasksArePlaced, WasPlaced
    <2>3. PICK k \in 1 .. Len(log) : IsDelete(k, j)
      BY <2>2 DEF Departures, Announces, IsUpdate
    <2>4. c \in PlacedOn(log[k].value)
      BY <2>2, <2>3 DEF Departures, Departed
    <2>5. ~(k <= flowAt[c])
      BY <2>3, <2>4 DEF Cleared
    <2>6. k \in (flowAt[c] + 1) .. Len(log)
      BY <2>5, LogFacts DEF Typed, FlowFits
    <2> QED
      BY <2>3, <2>4, <2>6 DEF FlowRests, FlowWants, IsDelete
  <1> QED
    BY <1>1, <1>2, <1>3, PTL DEF Spec

-----------------------------------------------------------------------------
(* Some copy of a job, stored, announced, queued or in the hands of a      *)
(* controller, has a job id of c.                                          *)
Claims(j, c) ==
  \/ Stored(j) /\ c \in jobs[j].ids
  \/ \E i \in 1 .. Len(log) : log[i].name = j /\ c \in log[i].value.ids
  \/ \E n \in 1 .. Len(workload) : workload[n].name = j /\ c \in workload[n].job.ids
  \/ \E d \in Clusters : Held(d) /\ submitted[d].name = j /\ c \in submitted[d].job.ids
  \/ \E d \in Clusters : /\ beat[d].stage \in {"updating", "cleanup"}
                         /\ j \in beat[d].todo /\ c \in beat[d].view[j].ids

\* The step that makes a claim of c is its submission.
Submits(c, j) ==
  \E k \in 1 .. Len(log) :
    /\ IsUpdate(k, j) /\ c \in PlacedOn(log[k].value)
    /\ tasks' = [tasks EXCEPT ![c][j] = tasks[c][j] + NewTasks(c, j, log[k].value)]

LEMMA WrittenClaims ==
  ASSUME Typed, [Next]_vars
  PROVE  \/ UNCHANGED apiVars
         \/ \E j \in Jobs : CreateJob(j) \/ DeleteJob(j)
         \/ \E j \in Jobs, v \in JobValue : PutJob(j, v) /\ \A c \in v.ids : Claims(j, c)
  <1>1. ASSUME Schedule, ~UNCHANGED apiVars
        PROVE  \E j \in Jobs, v \in JobValue : PutJob(j, v) /\ \A c \in v.ids : Claims(j, c)
    <2>1. PICK queue \in Seq(Entry) :
            /\ DecideHead(queue)
            /\ \/ queue = workload
               \/ \E k \in 1 .. Len(log) :
                    /\ Len(queue) = Len(workload) + 1
                    /\ queue[Len(queue)] = [name |-> log[k].name, job |-> log[k].value]
                    /\ \A n \in 1 .. Len(workload) : queue[n] = workload[n]
      BY <1>1, ScheduleQueue
    <2>2. queue # << >>
      BY <1>1, <2>1 DEF DecideHead
    <2> DEFINE head == queue[1]
    <2>3. Head(queue) = head /\ head \in Entry /\ 1 \in 1 .. Len(queue) /\ Len(queue) \in Nat
      BY <2>2, TailIs, ElementOfSeq
    <2>4. PICK job \in Decisions(head.job) : PutJob(head.name, job)
      BY <1>1, <2>1, <2>2, <2>3 DEF DecideHead
    <2>5. head.name \in Jobs /\ head.job \in JobValue
      BY <2>3 DEF Entry
    <2>6. job \in JobValue /\ job.ids = head.job.ids
      BY <2>4, <2>5, DecisionsTyped
    <2>7. \/ \E n \in 1 .. Len(workload) : head = workload[n]
          \/ \E k \in 1 .. Len(log) : head.name = log[k].name /\ head.job = log[k].value
      <3>1. CASE queue = workload
        BY <2>3, <3>1
      <3>2. ASSUME NEW k \in 1 .. Len(log), Len(queue) = Len(workload) + 1,
                   queue[Len(queue)] = [name |-> log[k].name, job |-> log[k].value],
                   \A n \in 1 .. Len(workload) : queue[n] = workload[n]
            PROVE  \/ \E n \in 1 .. Len(workload) : head = workload[n]
                   \/ head.name = log[k].name /\ head.job = log[k].value
        <4>1. Len(workload) \in Nat
          BY LenProperties DEF Typed, SchedulerFits
        <4>2. CASE Len(queue) = 1
          BY <3>2, <4>2
        <4>3. CASE Len(queue) # 1
          <5>1. 1 \in 1 .. Len(workload)
            BY <2>3, <3>2, <4>1, <4>3
          <5> QED
            BY <3>2, <5>1
        <4> QED
          BY <4>2, <4>3
      <3> QED
        BY <2>1, <3>1, <3>2
    <2> HIDE DEF head
    <2>8. \A c \in job.ids : Claims(head.name, c)
      BY <2>6, <2>7 DEF Claims
    <2> QED
      BY <2>4, <2>5, <2>6, <2>8
  <1>2. ASSUME NEW d \in Clusters, WriteBack(d), ~UNCHANGED apiVars
        PROVE  \E j \in Jobs, v \in JobValue : PutJob(j, v) /\ \A c \in v.ids : Claims(j, c)
    <2>1. PutJob(submitted[d].name, submitted[d].job) /\ Held(d)
      BY <1>2 DEF WriteBack, Held
    <2>2. submitted[d].name \in Jobs /\ submitted[d].job \in JobValue
      BY <2>1 DEF Typed, FlowFits, Entry, Held
    <2>3. \A c \in submitted[d].job.ids : Claims(submitted[d].name, c)
      BY <2>1 DEF Claims
    <2> QED
      BY <2>1, <2>2, <2>3
  <1>3. ASSUME NEW d \in Clusters, Heartbeat(d), ~UNCHANGED apiVars
        PROVE  \E j \in Jobs, v \in JobValue : PutJob(j, v) /\ \A c \in v.ids : Claims(j, c)
    <2>1. PICK j \in Jobs, v \in JobValue :
            PutJob(j, v) /\ beat[d].stage \in {"updating", "cleanup"} /\ j \in beat[d].todo
            /\ v.ids = beat[d].view[j].ids
      BY <1>3, HeartbeatWrites
    <2> QED
      BY <2>1 DEF Claims
  <1> QED
    BY <1>1, <1>2, <1>3
    DEF Next, Flow, Submit, SubmitRaises, RemoveFromCluster, RemoveRaises, TasksVanish,
        ClusterIsAdded, ClusterBecomesReady, SchedulerRestarts, vars

LEMMA StoreClaims ==
  ASSUME Typed, [Next]_vars, NEW j \in Jobs, NEW c \in Clusters,
         \/ jobs'[j] # NoJob /\ c \in jobs'[j].ids
         \/ \E i \in 1 .. Len(log') : log'[i].name = j /\ c \in log'[i].value.ids
  PROVE  Claims(j, c)
  <1>1. CASE UNCHANGED apiVars
    BY <1>1 DEF apiVars, Claims, Stored
  <1>2. ASSUME NEW i \in Jobs, NEW e, NEW v, Grown, Len(log') = Len(log) + 1,
               log'[Len(log) + 1] = e, jobs' = [jobs EXCEPT ![i] = v], e.name = i,
               c \in e.value.ids => Claims(i, c),
               v # NoJob /\ c \in v.ids => Claims(i, c)
        PROVE  Claims(j, c)
    <2>1. \A k \in 1 .. Len(log') : k \in 1 .. Len(log) \/ k = Len(log) + 1
      BY <1>2 DEF Grown
    <2>2. jobs'[j] = IF i = j THEN v ELSE jobs[j]
      BY <1>2 DEF Typed, StoreFits
    <2>3. CASE \E k \in 1 .. Len(log') : log'[k].name = j /\ c \in log'[k].value.ids
      BY <1>2, <2>1, <2>3 DEF Grown, Claims
    <2>4. CASE jobs'[j] # NoJob /\ c \in jobs'[j].ids
      BY <1>2, <2>2, <2>4 DEF Claims, Stored
    <2> QED
      BY <2>3, <2>4
  <1>3. ASSUME NEW i \in Jobs, CreateJob(i) PROVE Claims(j, c)
    <2> DEFINE e == [type |-> "ADD", name |-> i, value |-> NewJob]
    <2>1. e.name = i /\ e.value = NewJob /\ NewJob.ids = {}
      BY DEF NewJob
    <2>2. /\ Grown /\ Len(log') = Len(log) + 1 /\ log'[Len(log) + 1] = e
          /\ jobs' = [jobs EXCEPT ![i] = NewJob]
      BY <1>3, CreateAnnounces
    <2> HIDE DEF e
    <2> QED
      BY <1>2, <2>1, <2>2
  <1>4. ASSUME NEW i \in Jobs, DeleteJob(i) PROVE Claims(j, c)
    <2> DEFINE e == [type |-> "DELETE", name |-> i, value |-> jobs[i]]
    <2>1. e.name = i /\ e.value = jobs[i]
      OBVIOUS
    <2>2. /\ Grown /\ Len(log') = Len(log) + 1 /\ log'[Len(log) + 1] = e
          /\ Stored(i) /\ jobs' = [jobs EXCEPT ![i] = NoJob]
      BY <1>4, DeleteAnnounces DEF Stored
    <2> HIDE DEF e
    <2>3. c \in e.value.ids => Claims(i, c)
      BY <2>1, <2>2 DEF Claims
    <2> QED
      BY <1>2, <2>1, <2>2, <2>3
  <1>5. ASSUME NEW i \in Jobs, NEW v \in JobValue, PutJob(i, v), \A d \in v.ids : Claims(i, d)
        PROVE  Claims(j, c)
    <2> DEFINE e == [type |-> "UPDATE", name |-> i, value |-> v]
    <2>1. e.name = i /\ e.value = v
      OBVIOUS
    <2>2. /\ Grown /\ Len(log') = Len(log) + 1 /\ log'[Len(log) + 1] = e
          /\ jobs' = [jobs EXCEPT ![i] = v]
      BY <1>5, PutGrows DEF Typed
    <2> HIDE DEF e
    <2> QED
      BY <1>2, <1>5, <2>1, <2>2
  <1> QED
    BY <1>1, <1>3, <1>4, <1>5, WrittenClaims

LEMMA SubmittedClaims ==
  ASSUME Typed, [Next]_vars, NEW j \in Jobs, NEW c \in Clusters, NEW d \in Clusters,
         Held(d)', submitted'[d].name = j, c \in submitted'[d].job.ids
  PROVE  Claims(j, c) \/ Submits(c, j)
  <1>1. CASE submitted'[d] = submitted[d]
    BY <1>1 DEF Held, Claims
  <1>2. ASSUME NEW e \in Clusters, NEW k \in 1 .. Len(log), NEW job,
               log[k].value \in JobValue,
               submitted' = [submitted EXCEPT ![e] = [name |-> log[k].name, job |-> job]],
               submitted'[d] # submitted[d]
        PROVE  d = e /\ log[k].name = j /\ job = submitted'[d].job
    BY <1>2 DEF Typed, FlowFits
  <1>3. ASSUME NEW e \in Clusters, Submit(e), submitted'[d] # submitted[d]
        PROVE  Claims(j, c) \/ Submits(c, j)
    <2>1. PICK k \in (flowAt[e] + 1) .. Len(log) :
            /\ log[k].type = "UPDATE" /\ TakeFlowEvent(e, k)
            /\ tasks' = [tasks EXCEPT ![e][log[k].name] =
                           tasks[e][log[k].name] + NewTasks(e, log[k].name, log[k].value)]
            /\ submitted' = [submitted EXCEPT
                 ![e] = [name |-> log[k].name,
                         job |-> [log[k].value EXCEPT !.ids = log[k].value.ids \cup {e}]]]
      BY <1>3 DEF Submit
    <2>2. k \in 1 .. Len(log) /\ log[k].value \in JobValue /\ e \in PlacedOn(log[k].value)
      BY <2>1, TakenTyped
    <2> DEFINE job == [log[k].value EXCEPT !.ids = log[k].value.ids \cup {e}]
    <2>3. job.ids = log[k].value.ids \cup {e}
      BY <2>2 DEF JobValue
    <2>4. submitted' = [submitted EXCEPT ![e] = [name |-> log[k].name, job |-> job]]
      BY <2>1
    <2> HIDE DEF job
    <2>5. d = e /\ log[k].name = j /\ job = submitted'[d].job
      BY <1>2, <1>3, <2>2, <2>4
    <2>6. c \in log[k].value.ids \/ c = e
      BY <2>3, <2>5
    <2>7. c \in log[k].value.ids => Claims(j, c)
      BY <2>2, <2>5 DEF Claims
    <2>8. c = e => Submits(c, j)
      BY <2>1, <2>2, <2>5 DEF Submits, IsUpdate
    <2> QED
      BY <2>6, <2>7, <2>8
  <1>4. ASSUME NEW e \in Clusters, SubmitRaises(e), submitted'[d] # submitted[d]
        PROVE  Claims(j, c)
    <2>1. PICK k \in (flowAt[e] + 1) .. Len(log) :
            /\ TakeFlowEvent(e, k)
            /\ submitted' = [submitted EXCEPT ![e] =
                 [name |-> log[k].name,
                  job |-> WithReplicas(log[k].value, e, "FAILED", log[k].value.replicas[e].count)]]
      BY <1>4 DEF SubmitRaises
    <2>2. k \in 1 .. Len(log) /\ log[k].value \in JobValue
      BY <2>1, TakenTyped
    <2> DEFINE job == WithReplicas(log[k].value, e, "FAILED", log[k].value.replicas[e].count)
    <2>3. job.ids = log[k].value.ids
      <3>1. log[k].value.replicas[e].count \in Nat /\ "FAILED" \in TaskStates
        BY <2>2 DEF JobValue, ReplicaStatus, TaskStates
      <3>2. ASSUME NEW state \in TaskStates, NEW v \in JobValue, NEW n \in Nat
            PROVE  WithReplicas(v, e, state, n).ids = v.ids
        BY ReplicasWritten
      <3> QED
        BY <2>2, <3>1, <3>2
    <2>4. submitted' = [submitted EXCEPT ![e] = [name |-> log[k].name, job |-> job]]
      BY <2>1
    <2> HIDE DEF job
    <2>5. d = e /\ log[k].name = j /\ job = submitted'[d].job
      BY <1>2, <1>4, <2>2, <2>4
    <2> QED
      BY <2>2, <2>3, <2>5 DEF Claims
  <1>5. ASSUME NEW e \in Clusters, WriteBack(e) PROVE submitted'[d] = submitted[d]
    BY <1>5 DEF WriteBack, Held, Typed, FlowFits
  <1>6. submitted' = submitted \/ \E e \in Clusters : Submit(e) \/ SubmitRaises(e) \/ WriteBack(e)
    <2>1. ASSUME NEW e \in Clusters, Heartbeat(e) PROVE submitted' = submitted
      BY <2>1 DEF Heartbeat, BeatLists, BeatListRaises, BeatCopies, BeatEnds, CleanupEnds,
                  BeatUpdates, CleanupEvicts, flowVars
    <2> QED
      BY <2>1 DEF Next, vars, flowVars, CreateJob, DeleteJob, Schedule, ScheduleOnJobEvent,
                  ScheduleOnClusterEvent, SchedulerRestarts, ClusterIsAdded, ClusterBecomesReady,
                  TasksVanish, Flow, RemoveFromCluster, RemoveRaises
  <1> QED
    BY <1>1, <1>3, <1>4, <1>5, <1>6

LEMMA ClaimsMove ==
  ASSUME Typed, [Next]_vars, NEW j \in Jobs, NEW c \in Clusters, Claims(j, c)'
  PROVE  Claims(j, c) \/ Submits(c, j)
  <1>1. CASE \/ jobs'[j] # NoJob /\ c \in jobs'[j].ids
             \/ \E i \in 1 .. Len(log') : log'[i].name = j /\ c \in log'[i].value.ids
    BY <1>1, StoreClaims
  <1>2. CASE \E n \in 1 .. Len(workload') : workload'[n].name = j /\ c \in workload'[n].job.ids
    <2>1. PICK n \in 1 .. Len(workload') : workload'[n].name = j /\ c \in workload'[n].job.ids
      BY <1>2
    <2>2. IsIn(workload'[n], workload) \/ IsAnnounced(workload'[n])
      BY QueueMoves
    <2> QED
      BY <2>1, <2>2 DEF IsIn, Matches, IsAnnounced, Claims
  <1>3. CASE \E d \in Clusters : Held(d)' /\ submitted'[d].name = j /\ c \in submitted'[d].job.ids
    BY <1>3, SubmittedClaims
  <1>4. ASSUME NEW d \in Clusters, beat'[d].stage \in {"updating", "cleanup"}, j \in beat'[d].todo,
               c \in beat'[d].view[j].ids
        PROVE  Claims(j, c)
    <2>1. \/ /\ beat[d].stage = beat'[d].stage /\ j \in beat[d].todo
             /\ beat'[d].view[j] = beat[d].view[j]
          \/ \E i \in 1 .. Len(log) : log[i].name = j /\ log[i].value = beat'[d].view[j]
      BY <1>4, BeatViews
    <2> QED
      BY <1>4, <2>1 DEF Claims
  <1> QED
    BY <1>1, <1>2, <1>3, <1>4 DEF Claims, Stored, Held

(* While a job is stored, its tasks stay where they are.                   *)
LEMMA TasksStay ==
  ASSUME Typed, [Next]_vars, MaxLosses = 0, NEW j \in Jobs, Departed(j), Stored(j),
         NEW c \in Clusters, tasks[c][j] > 0
  PROVE  tasks'[c][j] > 0
  <1>1. tasks \in [Clusters -> [Jobs -> Nat]]
    BY DEF Typed, FlowFits, TaskCounts
  <1>2. CASE tasks' = tasks
    BY <1>2
  <1>3. ASSUME NEW d \in Clusters, Submit(d) \/ SubmitRaises(d) PROVE tasks'[c][j] > 0
    <2>1. \/ tasks' = tasks
          \/ \E k, added \in Nat : /\ TakeFlowEvent(d, k)
               /\ tasks' = [tasks EXCEPT ![d][log[k].name] = tasks[d][log[k].name] + added]
      <3>1. CASE Submit(d)
        <4>1. PICK k \in (flowAt[d] + 1) .. Len(log) :
                /\ TakeFlowEvent(d, k)
                /\ tasks' = [tasks EXCEPT ![d][log[k].name] =
                               tasks[d][log[k].name] + NewTasks(d, log[k].name, log[k].value)]
          BY <3>1 DEF Submit
        <4>2. NewTasks(d, log[k].name, log[k].value) \in Nat /\ k \in Nat
          BY <4>1, TakenTyped, NewTasksNat
        <4> QED
          BY <4>1, <4>2
      <3>2. CASE SubmitRaises(d)
        <4>1. PICK k \in (flowAt[d] + 1) .. Len(log) :
                /\ TakeFlowEvent(d, k)
                /\ \/ tasks' = tasks
                   \/ \E some \in 0 .. NewTasks(d, log[k].name, log[k].value) :
                        tasks' = [tasks EXCEPT ![d][log[k].name] = tasks[d][log[k].name] + some]
          BY <3>2 DEF SubmitRaises
        <4>2. NewTasks(d, log[k].name, log[k].value) \in Nat /\ k \in Nat
          BY <4>1, TakenTyped, NewTasksNat
        <4> QED
          BY <4>1, <4>2
      <3> QED
        BY <1>3, <3>1, <3>2
    <2>2. ASSUME NEW k \in Nat, NEW added \in Nat, TakeFlowEvent(d, k),
                 tasks' = [tasks EXCEPT ![d][log[k].name] = tasks[d][log[k].name] + added]
          PROVE  tasks'[c][j] > 0
      <3>1. log[k].name \in Jobs
        BY <2>2, TakenTyped
      <3>2. PICK i \in Jobs : i = log[k].name
        BY <3>1
      <3>3. tasks'[c][j] = IF c = d /\ i = j THEN tasks[c][j] + added ELSE tasks[c][j]
        BY <1>1, <2>2, <3>2
      <3> QED
        BY <1>1, <3>3
    <2> QED
      BY <1>2, <2>1, <2>2
  <1>4. ASSUME NEW d \in Clusters, RemoveFromCluster(d) PROVE tasks'[c][j] > 0
    <2>1. PICK k \in (flowAt[d] + 1) .. Len(log) :
            /\ log[k].type = "DELETE" /\ TakeFlowEvent(d, k)
            /\ tasks' = [tasks EXCEPT ![d][log[k].name] = TasksLeft(d, log[k].name, log[k].value)]
      BY <1>4 DEF RemoveFromCluster
    <2>2. k \in 1 .. Len(log) /\ log[k].name # j
      BY <2>1, TakenTyped DEF Departed, IsDelete
    <2>3. tasks'[c][j] = tasks[c][j]
      BY <1>1, <2>1, <2>2
    <2> QED
      BY <2>3
  <1>5. ASSUME NEW d \in Clusters, NEW i \in Jobs PROVE ~TasksVanish(d, i)
    BY DEF TasksVanish, Typed, BoundsFit
  <1>6. \/ tasks' = tasks
        \/ \E d \in Clusters : Submit(d) \/ SubmitRaises(d) \/ RemoveFromCluster(d)
    <2>1. ASSUME NEW d \in Clusters, Heartbeat(d) PROVE tasks' = tasks
      BY <2>1 DEF Heartbeat, BeatLists, BeatListRaises, BeatCopies, BeatEnds, CleanupEnds,
                  BeatUpdates, CleanupEvicts
    <2> QED
      BY <1>5, <2>1 DEF Next, vars, CreateJob, DeleteJob, Schedule, ScheduleOnJobEvent,
           ScheduleOnClusterEvent, SchedulerRestarts, ClusterIsAdded, ClusterBecomesReady,
           Flow, WriteBack, RemoveRaises
  <1> QED
    BY <1>2, <1>3, <1>4, <1>6

LEMMA ClaimedMeansCreated ==
  ASSUME Typed, Final, NEW j \in Jobs, NEW c \in Clusters, Claims(j, c)
  PROVE  created[j] # 0
  <1>1. \A i \in 1 .. Len(log) : log[i].name = j => created[j] # 0
    BY DEF Final, History, OneAddition
  <1>2. ASSUME NEW v, Faithful(j, v) PROVE created[j] # 0
    BY <1>1, <1>2 DEF Faithful, Placing, IsUpdate
  <1>3. Stored(j) => created[j] # 0
    BY DEF Final, History, StoreIsFaithful
  <1>4. ASSUME NEW n \in 1 .. Len(workload), workload[n].name = j PROVE created[j] # 0
    BY <1>4 DEF Final, QueueFits, QueueIsNew
  <1>5. ASSUME NEW d \in Clusters, Held(d), submitted[d].name = j PROVE created[j] # 0
    <2>1. Faithful(j, submitted[d].job)
      BY <1>5 DEF Final, SubmitsAgree, Held
    <2> QED
      BY <1>2, <2>1
  <1>6. ASSUME NEW d \in Clusters, beat[d].stage \in {"updating", "cleanup"}, j \in beat[d].todo
        PROVE  created[j] # 0
    <2>1. Faithful(j, beat[d].view[j])
      BY <1>6 DEF Final, BeatsAgree, BeatAgrees
    <2> QED
      BY <1>2, <2>1
  <1> QED
    BY <1>1, <1>3, <1>4, <1>5, <1>6 DEF Claims

(* While a job is stored, a job id means that its tasks are there.         *)
IdsAreTrue == \A j \in Jobs, c \in Clusters : Stored(j) /\ Claims(j, c) => tasks[c][j] > 0

LEMMA NextIdsAreTrue ==
  ASSUME Typed, OneLife, Final, Shared, Departures, Whole, MaxLosses = 0, IdsAreTrue, [Next]_vars
  PROVE  IdsAreTrue'
  <1> SUFFICES ASSUME NEW j \in Jobs, NEW c \in Clusters, Stored(j)', Claims(j, c)'
               PROVE  tasks'[c][j] > 0
    BY DEF IdsAreTrue
  <1>1. Claims(j, c) \/ Submits(c, j)
    BY ClaimsMove
  <1>2. Stored(j)
    <2> SUFFICES ASSUME ~Stored(j) PROVE FALSE
      OBVIOUS
    <2>1. created[j] < MaxCreates
      BY StoredByCreation DEF CreateJob
    <2>2. created[j] = 0
      BY <2>1, JobFlowAssumption DEF OneLife, Typed, BoundsFit
    <2>3. ~Claims(j, c)
      BY <2>2, ClaimedMeansCreated
    <2>4. ~Submits(c, j)
      BY <2>2 DEF Submits, IsUpdate, Final, History, OneAddition
    <2> QED
      BY <1>1, <2>3, <2>4
  <1>3. tasks[c][j] > 0 => tasks'[c][j] > 0
    BY <1>2, TasksStay DEF Departures
  <1>4. Claims(j, c) => tasks[c][j] > 0
    BY <1>2 DEF IdsAreTrue
  <1>5. CASE Submits(c, j) /\ ~(tasks[c][j] > 0)
    <2>1. PICK k \in 1 .. Len(log) :
            /\ IsUpdate(k, j) /\ c \in PlacedOn(log[k].value)
            /\ tasks' = [tasks EXCEPT ![c][j] = tasks[c][j] + NewTasks(c, j, log[k].value)]
      BY <1>5 DEF Submits
    <2>2. PICK s \in Shares : Assigned(j, s)
      BY DEF Shared
    <2>3. Within(log[k].value, s)
      BY <2>1, <2>2 DEF Assigned, LogWithin, IsUpdate
    <2>4. s[c] >= 1 /\ log[k].value.replicas[c].count = s[c]
      BY <2>1, <2>3 DEF Within
    <2>5. NewTasks(c, j, log[k].value) = s[c]
      BY <1>5, <2>4 DEF NewTasks, PodsCreated, Whole
    <2>6. tasks \in [Clusters -> [Jobs -> Nat]]
      BY DEF Typed, FlowFits, TaskCounts
    <2>7. tasks'[c][j] = tasks[c][j] + s[c] /\ tasks[c][j] \in Nat /\ s[c] \in Nat
      BY <2>1, <2>5, <2>6, NothingIsShared
    <2> QED
      BY <2>4, <2>7
  <1> QED
    BY <1>1, <1>3, <1>4, <1>5

(* A cluster that a stored job is placed on runs the tasks assigned to it  *)
(* when its flow controller is at rest.                                    *)
SubmissionsAreExact ==
  \A j \in Jobs, c \in Clusters :
    Stored(j) /\ c \in PlacedOn(jobs[j]) /\ FlowRests(c) => tasks[c][j] = jobs[j].replicas[c].count

(* If no name is used again, no job controller comes to its retry limit,   *)
(* tasks stay where they are and the cluster takes them as a whole: a flow *)
(* controller has nothing left to do only when each job placed on its      *)
(* cluster has all its tasks there and none twice, however often it was    *)
(* submitted and whatever the others have overwritten since.               *)
THEOREM JobsRunAsAssigned ==
  ASSUME MaxCreates <= 1, MaxBeats <= RetryLimit, MaxLosses = 0,
         Manager = "deployment" \/ (Manager = "kubernetes" /\ MaxFailures = 0)
  PROVE  Spec => []SubmissionsAreExact
  <1> DEFINE Inv == /\ Typed /\ Final /\ Shared /\ QueueIsModest(workload)
                    /\ Departures /\ IdsAreComing /\ IdsAreTrue
  <1>0. OneLife /\ Whole /\ Manager # "slurm"
    BY DEF OneLife, Whole
  <1>1. Init => Inv
    <2>1. Init => Departures /\ IdsAreComing /\ IdsAreTrue
      <3> SUFFICES ASSUME Init PROVE Departures /\ IdsAreComing /\ IdsAreTrue
        OBVIOUS
      <3>1. log = << >> /\ Len(log) = 0 /\ \A j \in Jobs : ~Stored(j)
        BY DEF Init, Store!Init, Stored
      <3> QED
        BY <3>1 DEF Departures, Departed, Announces, IdsAreComing, IdsAreTrue
    <2> QED
      BY <2>1, InitTyped, InitFinal, InitShared
  <1>2. Inv /\ [Next]_vars => Inv'
    <2> SUFFICES ASSUME Inv, [Next]_vars PROVE Inv'
      OBVIOUS
    <2>1. Typed' /\ Final' /\ Shared' /\ QueueIsModest(workload)'
      BY <1>0, NextTyped, NextFinal, NextShared
    <2>2. \A j \in Jobs : Departed(j)' /\ Announces(j)'
      BY DeparturesKept DEF Departures
    <2>3. IdsAreComing' /\ IdsAreTrue'
      BY <1>0, NextIdsAreComing, NextIdsAreTrue
    <2> QED
      BY <2>1, <2>2, <2>3 DEF Departures
  <1>3. Inv => SubmissionsAreExact
    <2> SUFFICES ASSUME Inv, NEW j \in Jobs, NEW c \in Clusters,
                        Stored(j), c \in PlacedOn(jobs[j]), FlowRests(c)
                 PROVE  tasks[c][j] = jobs[j].replicas[c].count
      BY DEF SubmissionsAreExact
    <2>1. c \in jobs[j].ids
      BY DEF IdsAreComing, IdIsComing, FlowRests, Held
    <2>2. tasks[c][j] > 0
      BY <2>1 DEF IdsAreTrue, Claims
    <2>3. PICK s \in Shares : Assigned(j, s)
      BY DEF Shared
    <2>4. tasks[c][j] = s[c]
      BY <1>0, <2>2, <2>3 DEF Assigned, TasksWithin, Covers
    <2>5. jobs[j].replicas[c].count = s[c]
      BY <1>0, <2>3 DEF Assigned, StoreWithin, Within
    <2> QED
      BY <2>4, <2>5
  <1> QED
    BY <1>1, <1>2, <1>3, PTL DEF Spec
=============================================================================
