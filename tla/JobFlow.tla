------------------------------- MODULE JobFlow -------------------------------
(***************************************************************************)
(* The life of a job: a user stores it through the API server, the         *)
(* scheduler places it (scheduler/scheduler_controller.py), the flow       *)
(* controller of every cluster it is placed on submits it to the cluster   *)
(* manager (skylet/flow_controller.py) and removes it again when it is     *)
(* deleted, and the cluster's job controller reports the state of its      *)
(* tasks (skylet/job_controller.py).                                       *)
(*                                                                         *)
(* The controllers share nothing but the stored jobs.  Each learns of them *)
(* through an informer, modelled as a position in the event log of         *)
(* ObjectLog (Informer.tla says when that is what an informer amounts to), *)
(* and each writes a job back as a whole, from the copy its event or cache *)
(* held, with no comparison of versions: the writes of two controllers     *)
(* overwrite each other's fields.                                          *)
(***************************************************************************)
EXTENDS Naturals, Sequences, FiniteSets, Functions

CONSTANTS Jobs, Clusters,
          Replicas,          \* replicas of every job
          Manager,           \* which cluster manager the clusters have
          RetryLimit,        \* JobController.retry_limit
          ReadyAtStart,      \* the clusters that are READY from the start
          MayNotFit,         \* whether a job may fit on no READY cluster
          MayDelete,         \* whether users delete jobs
          MaxCreates,        \* bound: creations under one name
          MaxBeats,          \* bound: heartbeats of all job controllers
          MaxFailures,       \* bound: calls to cluster managers that raise
          MaxRestarts,       \* bound: restarts of the scheduler
          MaxLosses,         \* bound: times a job's tasks leave a cluster
          MaxLog             \* bound: no new event at this length of the log

Managers == {"kubernetes", "deployment", "ray", "slurm"}

ASSUME JobFlowAssumption ==
  /\ IsFiniteSet(Clusters)
  /\ Manager \in Managers
  /\ ReadyAtStart \subseteq Clusters
  /\ Replicas \in Nat \ {0}
  /\ \A b \in {RetryLimit, MaxCreates, MaxBeats, MaxFailures, MaxRestarts,
               MaxLosses, MaxLog} : b \in Nat
  /\ MayNotFit \in BOOLEAN /\ MayDelete \in BOOLEAN

VARIABLES jobs, log,       \* the stored jobs and the events of their changes
          created,         \* created[j]: creations of j so far
          clusters,        \* clusters[c]: unknown, added or READY, as the
                           \*   scheduler's cache has it
          clusterEvents,   \* events of added clusters in the scheduler's queue
          schedulerAt,     \* the log up to the scheduler's last job event
          workload,        \* workload_queue
          flowAt,          \* flowAt[c]: the log up to c's last job event
          submitted,       \* submitted[c]: the job c's flow controller is to
                           \*   write back after submitting it, or Idle
          tasks,           \* tasks[c][j]: tasks of j that c's manager holds
          beat,            \* beat[c]: where c's job controller is
          cacheAt,         \* cacheAt[c]: the log up to its informer's cache
          retries,         \* retries[c]: its retry_counter
          beats, failures, restarts, losses   \* counters for the bounds

apiVars == <<jobs, log>>
schedulerVars == <<clusters, clusterEvents, schedulerAt, workload>>
flowVars == <<flowAt, submitted>>
beatVars == <<beat, cacheAt, retries, beats>>
vars == <<apiVars, created, schedulerVars, flowVars, tasks, beatVars, failures,
          restarts, losses>>

-----------------------------------------------------------------------------
(* A job's status.  replicas[c]: the state and number of its replicas on c *)
(* (replica_status; NONE: c is not a key of it).  ids: the clusters that   *)
(* job_ids has an entry for.  Of the task states only those the            *)
(* controllers write themselves are told apart from RUNNING.               *)
TaskStates == {"NONE", "INIT", "RUNNING", "FAILED", "EVICTED"}
ReplicaStatus == [state : TaskStates, count : Nat]
JobValue == [phase : {"INIT", "ACTIVE", "FAILED"},
             replicas : [Clusters -> ReplicaStatus], ids : SUBSET Clusters]

NoReplicas == [state |-> "NONE", count |-> 0]
NewJob == [phase |-> "INIT", replicas |-> [c \in Clusters |-> NoReplicas], ids |-> {}]
NoJob == [phase |-> "none"]

PlacedOn(job) == {c \in Clusters : job.replicas[c].state # "NONE"}
IsEvicted(job) == \E c \in Clusters : job.replicas[c].state = "EVICTED"

(* Mutants of WithReplicas: the state is written without the count; the    *)
(* entries of the other clusters are lost.                                 *)
WithStateOnly(job, c, state, count) ==
  [job EXCEPT !.replicas[c] = [state |-> state]]
WithOnlyReplicas(job, c, state, count) ==
  [job EXCEPT !.replicas = [d \in Clusters |-> IF d = c THEN [state |-> state, count |-> count]
                                               ELSE NoReplicas]]

WithReplicas(job, c, state, count) ==
  [job EXCEPT !.replicas[c] = [state |-> state, count |-> count]]

Store == INSTANCE ObjectLog WITH Names <- Jobs, Values <- JobValue,
                                 Absent <- NoJob, store <- jobs

Stored(j) == jobs[j] # NoJob

(* The API server's update_object: the whole job, if there is one.         *)
PutJob(j, job) == Len(log) < MaxLog /\ Store!Modify(j, job)

-----------------------------------------------------------------------------
(* Job controller: idle; "listed": it holds what the manager answered;     *)
(* "updating", "cleanup": it writes the jobs of todo, from the view of its *)
(* informer's cache it copied; "dead": an exception ended run().           *)
Idle == [stage |-> "idle"]
Views == [Jobs -> JobValue \cup {NoJob}]
TaskCounts == [Jobs -> Nat]
Beat == [stage : {"idle", "dead"}]
        \cup [stage : {"listed"}, found : TaskCounts]
        \cup [stage : {"updating", "cleanup"}, found : TaskCounts,
              view : Views, todo : SUBSET Jobs]

TypeOK == /\ Store!TypeOK
          /\ created \in [Jobs -> 0 .. MaxCreates]
          /\ clusters \in [Clusters -> {"unknown", "added", "ready"}]
          /\ clusterEvents \in 0 .. Cardinality(Clusters)
          /\ schedulerAt \in 0 .. Len(log)
          /\ workload \in Seq([name : Jobs, job : JobValue])
          /\ flowAt \in [Clusters -> 0 .. Len(log)]
          /\ submitted \in [Clusters -> {Idle} \cup [name : Jobs, job : JobValue]]
          /\ tasks \in [Clusters -> TaskCounts]
          /\ beat \in [Clusters -> Beat]
          /\ cacheAt \in [Clusters -> 0 .. Len(log)]
          /\ retries \in [Clusters -> Nat]
          /\ beats \in 0 .. MaxBeats
          /\ failures \in 0 .. MaxFailures
          /\ restarts \in 0 .. MaxRestarts
          /\ losses \in 0 .. MaxLosses

NoTasks == [j \in Jobs |-> 0]

Init == /\ Store!Init
        /\ created = [j \in Jobs |-> 0]
        /\ clusters = [c \in Clusters |-> IF c \in ReadyAtStart THEN "ready" ELSE "unknown"]
        /\ clusterEvents = 0
        /\ schedulerAt = 0
        /\ workload = << >>
        /\ flowAt = [c \in Clusters |-> 0]
        /\ submitted = [c \in Clusters |-> Idle]
        /\ tasks = [c \in Clusters |-> NoTasks]
        /\ beat = [c \in Clusters |-> Idle]
        /\ cacheAt = [c \in Clusters |-> 0]
        /\ retries = [c \in Clusters |-> 0]
        /\ beats = 0
        /\ failures = 0
        /\ restarts = 0
        /\ losses = 0

-----------------------------------------------------------------------------
(* Users.                                                                  *)
CreateJob(j) ==
  /\ created[j] < MaxCreates
  /\ Len(log) < MaxLog
  /\ Store!Add(j, NewJob)
  /\ created' = [created EXCEPT ![j] = @ + 1]
  /\ UNCHANGED <<schedulerVars, flowVars, tasks, beatVars, failures, restarts, losses>>

DeleteJob(j) ==
  /\ MayDelete
  /\ Len(log) < MaxLog
  /\ Store!Remove(j)
  /\ UNCHANGED <<created, schedulerVars, flowVars, tasks, beatVars, failures,
                 restarts, losses>>

-----------------------------------------------------------------------------
(* An informer delivers in order: of the events ahead that its callbacks   *)
(* let through, the first is next.                                         *)
NextEvent(ahead) == {k \in ahead : \A i \in ahead : k <= i}

(* Mutant of SchedulerWants: evictions are not noticed.                    *)
SchedulerWantsNew(e) == e.type = "ADD" /\ PlacedOn(e.value) = {}

(* The scheduler's callbacks queue new jobs and jobs with evicted tasks.   *)
SchedulerWants(e) == \/ e.type = "ADD" /\ PlacedOn(e.value) = {}
                     \/ e.type = "UPDATE" /\ IsEvicted(e.value)

(* The outcomes of the filter, score and spread plugins: all replicas on   *)
(* some of the READY clusters, ...                                         *)
Spreads == {s \in [Clusters -> 0 .. Replicas] :
              /\ SumFunction(s) = Replicas
              /\ \A c \in Clusters : clusters[c] # "ready" => s[c] = 0}

Placed(job, s) ==
  [job EXCEPT !.phase = "ACTIVE",
              !.replicas = [c \in Clusters |->
                 IF s[c] = 0 THEN NoReplicas ELSE [state |-> "INIT", count |-> s[c]]]]

(* ... or none at all.                                                     *)
Decisions(job) ==
  {Placed(job, s) : s \in Spreads}
  \cup (IF Spreads = {} \/ MayNotFit THEN {[job EXCEPT !.phase = "FAILED"]} ELSE {})


(* controller_loop after the event: the head of the workload queue is      *)
(* decided and written.  If the write raises, because the job is gone, the *)
(* head stays, with the decision already in it.                            *)
DecideHead(queue) ==
  IF queue = << >>
  THEN workload' = queue /\ UNCHANGED apiVars
  ELSE LET head == Head(queue)
       IN  \E job \in Decisions(head.job) :
             IF Stored(head.name)
             THEN PutJob(head.name, job) /\ workload' = Tail(queue)
             ELSE /\ workload' = [queue EXCEPT ![1].job = job]
                  /\ UNCHANGED apiVars

ScheduleOnJobEvent ==
  /\ \E k \in NextEvent({i \in (schedulerAt + 1) .. Len(log) : SchedulerWants(log[i])}) :
       /\ schedulerAt' = k
       /\ DecideHead(Append(workload, [name |-> log[k].name, job |-> log[k].value]))
  /\ UNCHANGED <<created, clusters, clusterEvents, flowVars, tasks, beatVars,
                 failures, restarts, losses>>

ScheduleOnClusterEvent ==
  /\ clusterEvents > 0
  /\ clusterEvents' = clusterEvents - 1
  /\ DecideHead(workload)
  /\ UNCHANGED <<created, clusters, schedulerAt, flowVars, tasks, beatVars,
                 failures, restarts, losses>>

(* A cluster is added, and becomes READY by an update of its status: only  *)
(* the addition is an event for the scheduler.                             *)
ClusterIsAdded(c) ==
  /\ clusters[c] = "unknown"
  /\ clusters' = [clusters EXCEPT ![c] = "added"]
  /\ clusterEvents' = clusterEvents + 1
  /\ UNCHANGED <<apiVars, created, schedulerAt, workload, flowVars, tasks, beatVars,
                 failures, restarts, losses>>

ClusterBecomesReady(c) ==
  /\ clusters[c] = "added"
  /\ clusters' = [clusters EXCEPT ![c] = "ready"]
  /\ UNCHANGED <<apiVars, created, clusterEvents, schedulerAt, workload, flowVars,
                 tasks, beatVars, failures, restarts, losses>>

(* Mutant of SchedulerRestarts: it is told of the jobs there were.         *)
SchedulerReplays ==
  /\ restarts < MaxRestarts
  /\ restarts' = restarts + 1
  /\ schedulerAt' = 0
  /\ workload' = << >>
  /\ clusterEvents' = 0
  /\ UNCHANGED <<apiVars, created, clusters, flowVars, tasks, beatVars, failures,
                 losses>>

(* The scheduler is started again.  Its queues are gone, and its informer  *)
(* fills the cache with the jobs there are without calling the callbacks.  *)
SchedulerRestarts ==
  /\ restarts < MaxRestarts
  /\ restarts' = restarts + 1
  /\ schedulerAt' = Len(log)
  /\ workload' = << >>
  /\ clusterEvents' = 0
  /\ UNCHANGED <<apiVars, created, clusters, flowVars, tasks, beatVars, failures,
                 losses>>

-----------------------------------------------------------------------------
(* Mutants of FlowWants: the job ids are not looked at; a job id of any    *)
(* cluster counts.                                                         *)
FlowWantsAll(c, e) == c \in PlacedOn(e.value) /\ e.type \in {"UPDATE", "DELETE"}

(* The flow controller of c queues the updates of jobs that are placed on  *)
(* c and have no job id there, and the deletions of jobs placed on c.      *)
FlowWants(c, e) == /\ c \in PlacedOn(e.value)
                   /\ \/ e.type = "UPDATE" /\ c \notin e.value.ids
                      \/ e.type = "DELETE"

TakeFlowEvent(c, k) ==
  /\ k \in NextEvent({i \in (flowAt[c] + 1) .. Len(log) : FlowWants(c, log[i])})
  /\ flowAt' = [flowAt EXCEPT ![c] = k]

(* What submit_job adds to a cluster.  Kubernetes' pods and deployments    *)
(* are looked up by the job's label, and a job that is there is left alone.*)
PodsCreated(c, j, job) == IF tasks[c][j] > 0 THEN 0 ELSE job.replicas[c].count

(* Ray runs one entry point, and refuses an id it has.                     *)
SubmitRefused(c, j) == Manager = "ray" /\ tasks[c][j] > 0

(* Slurm runs all replicas of the job, under its name between a prefix and *)
(* a suffix.  It looks for the name, which has no dash, in the second and  *)
(* the third part of those that are there.                                 *)
SlurmName(j) == <<"prefix", j, "suffix">>
SlurmFinds(c, j) == tasks[c][j] > 0 /\ SubSeq(SlurmName(j), 2, 3) = <<j>>
SlurmSubmits(c, j) == IF SlurmFinds(c, j) THEN 0 ELSE Replicas

(* Mutant of NewTasks: the label is not looked for.                        *)
NewTasksEachTime(c, j, job) == job.replicas[c].count

NewTasks(c, j, job) ==
  CASE Manager = "ray"   -> 1
    [] Manager = "slurm" -> SlurmSubmits(c, j)
    [] OTHER             -> PodsCreated(c, j, job)

(* controller_loop on an UPDATE, up to the write: submit the job, ...      *)
Submit(c) ==
  /\ submitted[c] = Idle
  /\ \E k \in (flowAt[c] + 1) .. Len(log) :
       /\ log[k].type = "UPDATE"
       /\ TakeFlowEvent(c, k)
       /\ LET j == log[k].name
              job == log[k].value
          IN  /\ ~SubmitRefused(c, j)
              /\ tasks' = [tasks EXCEPT ![c][j] = @ + NewTasks(c, j, job)]
              /\ submitted' = [submitted EXCEPT
                                 ![c] = [name |-> j, job |-> [job EXCEPT !.ids = @ \cup {c}]]]
  /\ UNCHANGED <<apiVars, created, schedulerVars, beatVars, failures, restarts, losses>>

(* ... or, if submit_job raises, mark its replicas here FAILED.  A call    *)
(* that raises may have created some of the pods.                          *)
SubmitRaises(c) ==
  /\ submitted[c] = Idle
  /\ \E k \in (flowAt[c] + 1) .. Len(log) :
       /\ log[k].type = "UPDATE"
       /\ TakeFlowEvent(c, k)
       /\ LET j == log[k].name
              job == log[k].value
          IN  /\ \/ SubmitRefused(c, j) /\ UNCHANGED <<tasks, failures>>
                 \/ /\ ~SubmitRefused(c, j) /\ failures < MaxFailures
                    /\ failures' = failures + 1
                    /\ \E some \in 0 .. NewTasks(c, j, job) :
                         /\ Manager # "kubernetes" => some = 0
                         /\ some < NewTasks(c, j, job) \/ some = 0
                         /\ tasks' = [tasks EXCEPT ![c][j] = @ + some]
              /\ submitted' = [submitted EXCEPT ![c] =
                   [name |-> j,
                    job |-> WithReplicas(job, c, "FAILED", job.replicas[c].count)]]
  /\ UNCHANGED <<apiVars, created, schedulerVars, beatVars, restarts, losses>>

(* ... and write it back; the write raises if the job is gone.             *)
WriteBack(c) ==
  /\ submitted[c] # Idle
  /\ LET s == submitted[c]
     IN  IF Stored(s.name) THEN PutJob(s.name, s.job) ELSE UNCHANGED apiVars
  /\ submitted' = [submitted EXCEPT ![c] = Idle]
  /\ UNCHANGED <<created, schedulerVars, flowAt, tasks, beatVars, failures, restarts,
                 losses>>

(* Mutant of TasksLeft: everything is found by the job id.                 *)
TasksLeftWithoutId(c, j, job) == IF c \in job.ids THEN 0 ELSE tasks[c][j]

(* What delete_job leaves.  Pods are found by the label; everything else   *)
(* by the job id of the deleted object, without which it raises.           *)
PodsLeft(c, j, job) ==
  IF Manager = "kubernetes" \/ c \in job.ids THEN 0 ELSE tasks[c][j]
RayLeft(c, j, job) == IF c \in job.ids THEN 0 ELSE tasks[c][j]

(* Slurm cancels the one submission that has the id.                       *)
SlurmLeft(c, j, job) ==
  IF c \notin job.ids THEN tasks[c][j]
  ELSE IF tasks[c][j] > Replicas THEN tasks[c][j] - Replicas ELSE 0

TasksLeft(c, j, job) ==
  CASE Manager = "ray"   -> RayLeft(c, j, job)
    [] Manager = "slurm" -> SlurmLeft(c, j, job)
    [] OTHER             -> PodsLeft(c, j, job)

(* controller_loop on a DELETE.                                            *)
RemoveFromCluster(c) ==
  /\ submitted[c] = Idle
  /\ \E k \in (flowAt[c] + 1) .. Len(log) :
       /\ log[k].type = "DELETE"
       /\ TakeFlowEvent(c, k)
       /\ tasks' = [tasks EXCEPT ![c][log[k].name] =
                      TasksLeft(c, log[k].name, log[k].value)]
  /\ UNCHANGED <<apiVars, created, schedulerVars, submitted, beatVars, failures,
                 restarts, losses>>

(* delete_job raises: the error is logged, and the event is gone.          *)
RemoveRaises(c) ==
  /\ submitted[c] = Idle
  /\ failures < MaxFailures
  /\ failures' = failures + 1
  /\ \E k \in (flowAt[c] + 1) .. Len(log) :
       log[k].type = "DELETE" /\ TakeFlowEvent(c, k)
  /\ UNCHANGED <<apiVars, created, schedulerVars, submitted, tasks, beatVars,
                 restarts, losses>>

(* The tasks of a job leave the cluster behind SkyShift's back.            *)
TasksVanish(c, j) ==
  /\ losses < MaxLosses
  /\ tasks[c][j] > 0
  /\ tasks' = [tasks EXCEPT ![c][j] = 0]
  /\ losses' = losses + 1
  /\ UNCHANGED <<apiVars, created, schedulerVars, flowVars, beatVars, failures, restarts>>

-----------------------------------------------------------------------------
(* The jobs as they were after the first k events.                         *)
StoreAt(k) ==
  [j \in Jobs |->
     LET about == {i \in 1 .. k : log[i].name = j}
     IN  IF about = {} THEN NoJob
         ELSE LET last == log[CHOOSE i \in about : \A h \in about : h <= i]
              IN  IF last.type = "DELETE" THEN NoJob ELSE last.value]

PlacedHere(c, view) == {j \in Jobs : view[j] # NoJob /\ c \in PlacedOn(view[j])}

Goto(c, stage) == beat' = [beat EXCEPT ![c] = stage]

(* The end of a heartbeat: above the retry limit, cleanup_jobs follows,    *)
(* with a copy of the cache of its own.                                    *)
EndBeat(c, counter) ==
  /\ retries' = [retries EXCEPT ![c] = counter]
  /\ IF counter > RetryLimit
     THEN \E k \in cacheAt[c] .. Len(log) :
            /\ cacheAt' = [cacheAt EXCEPT ![c] = k]
            /\ Goto(c, [stage |-> "cleanup", found |-> NoTasks, view |-> StoreAt(k),
                        todo |-> PlacedHere(c, StoreAt(k))])
     ELSE Goto(c, Idle) /\ UNCHANGED cacheAt

(* What get_jobs_status finds.  The tasks of a Slurm job are begun anew at *)
(* each of its submissions in the table; only those of the last remain.    *)
SlurmListed(n) == IF n > Replicas THEN Replicas ELSE n
Listed(c) == [j \in Jobs |-> IF Manager = "slurm" THEN SlurmListed(tasks[c][j]) ELSE tasks[c][j]]

(* controller_loop: ask the manager for its tasks, ...                     *)
BeatLists(c) ==
  /\ beat[c] = Idle
  /\ beats < MaxBeats
  /\ beats' = beats + 1
  /\ Goto(c, [stage |-> "listed", found |-> Listed(c)])
  /\ UNCHANGED <<apiVars, created, schedulerVars, flowVars, tasks, cacheAt, retries,
                 failures, restarts, losses>>

BeatListRaises(c) ==
  /\ beat[c] = Idle
  /\ beats < MaxBeats
  /\ failures < MaxFailures
  /\ beats' = beats + 1
  /\ failures' = failures + 1
  /\ EndBeat(c, retries[c] + 1)
  /\ UNCHANGED <<apiVars, created, schedulerVars, flowVars, tasks, restarts, losses>>

(* ... copy the cache, and go through the jobs that are both there and     *)
(* here.  A job that is placed here but not found is passed over: the test *)
(* for its RUNNING state compares the state with the counts.               *)
BeatCopies(c) ==
  /\ beat[c].stage = "listed"
  /\ \E k \in cacheAt[c] .. Len(log) :
       /\ cacheAt' = [cacheAt EXCEPT ![c] = k]
       /\ Goto(c, [stage |-> "updating", found |-> beat[c].found, view |-> StoreAt(k),
                   todo |-> {j \in PlacedHere(c, StoreAt(k)) : beat[c].found[j] > 0}])
  /\ UNCHANGED <<apiVars, created, schedulerVars, flowVars, tasks, retries, beats,
                 failures, restarts, losses>>

(* update_job.  If the write is refused, the job is read again, which      *)
(* raises as well if it is gone, and ends the heartbeat.                   *)
BeatUpdates(c, j) ==
  /\ beat[c].stage = "updating"
  /\ j \in beat[c].todo
  /\ IF Stored(j)
     THEN /\ PutJob(j, WithReplicas(beat[c].view[j], c, "RUNNING", beat[c].found[j]))
          /\ beat' = [beat EXCEPT ![c].todo = @ \ {j}]
          /\ UNCHANGED <<cacheAt, retries>>
     ELSE EndBeat(c, retries[c] + 1) /\ UNCHANGED apiVars
  /\ UNCHANGED <<created, schedulerVars, flowVars, tasks, beats, failures, restarts, losses>>

BeatEnds(c) ==
  /\ beat[c].stage = "updating"
  /\ beat[c].todo = {}
  /\ EndBeat(c, retries[c])
  /\ UNCHANGED <<apiVars, created, schedulerVars, flowVars, tasks, beats, failures,
                 restarts, losses>>

(* cleanup_jobs.  It runs outside the loop's error handling: a write that  *)
(* is refused ends the job controller.                                     *)
CleanupEvicts(c, j) ==
  /\ beat[c].stage = "cleanup"
  /\ j \in beat[c].todo
  /\ LET job == beat[c].view[j]
     IN  IF Stored(j)
         THEN /\ PutJob(j, WithReplicas(job, c, "EVICTED", job.replicas[c].count))
              /\ beat' = [beat EXCEPT ![c].todo = @ \ {j}]
         ELSE Goto(c, [stage |-> "dead"]) /\ UNCHANGED apiVars
  /\ UNCHANGED <<created, schedulerVars, flowVars, tasks, cacheAt, retries, beats,
                 failures, restarts, losses>>

CleanupEnds(c) ==
  /\ beat[c].stage = "cleanup"
  /\ beat[c].todo = {}
  /\ Goto(c, Idle)
  /\ UNCHANGED <<apiVars, created, schedulerVars, flowVars, tasks, cacheAt, retries,
                 beats, failures, restarts, losses>>

-----------------------------------------------------------------------------
Schedule == ScheduleOnJobEvent \/ ScheduleOnClusterEvent

Flow(c) == Submit(c) \/ SubmitRaises(c) \/ WriteBack(c)
           \/ RemoveFromCluster(c) \/ RemoveRaises(c)

Heartbeat(c) == \/ BeatLists(c) \/ BeatListRaises(c)
                \/ BeatCopies(c) \/ BeatEnds(c) \/ CleanupEnds(c)
                \/ \E j \in Jobs : BeatUpdates(c, j) \/ CleanupEvicts(c, j)

Next == \/ \E j \in Jobs : CreateJob(j) \/ DeleteJob(j)
        \/ Schedule \/ SchedulerRestarts
        \/ \E c \in Clusters : \/ ClusterIsAdded(c) \/ ClusterBecomesReady(c)
                               \/ Flow(c) \/ Heartbeat(c)
                               \/ \E j \in Jobs : TasksVanish(c, j)

Spec == Init /\ [][Next]_vars

(* The scheduler and the flow controllers keep taking events, and the job  *)
(* controllers finish the heartbeats they begin.                           *)
FairSpec == /\ Spec
            /\ WF_vars(Schedule)
            /\ \A c \in Clusters : WF_vars(Flow(c)) /\ WF_vars(Heartbeat(c))

-----------------------------------------------------------------------------
TasksOf(j) == SumFunction([c \in Clusters |-> tasks[c][j]])

(* However the controllers' writes overwrite each other, the clusters      *)
(* together never hold more tasks of a job than it has replicas.           *)
NoOverPlacement == \A j \in Jobs : TasksOf(j) <= Replicas

(* A cluster that holds tasks of a stored job is one the stored job is     *)
(* placed on: otherwise nobody would report them, nor remove them when the *)
(* job is deleted.                                                         *)
NoUnlistedTasks ==
  \A j \in Jobs, c \in Clusters :
    Stored(j) /\ tasks[c][j] > 0 => c \in PlacedOn(jobs[j])

(* Once the scheduler has placed a job, no write from an older copy of it  *)
(* takes the placement back or moves it.                                   *)
PlacementStays ==
  [][\A j \in Jobs :
       Stored(j) /\ jobs'[j] # NoJob /\ PlacedOn(jobs[j]) # {}
         => /\ PlacedOn(jobs'[j]) = PlacedOn(jobs[j])
            /\ jobs'[j].phase # "INIT"]_vars

(* Every job a user stores is decided: placed, or marked FAILED.           *)
Decided(j) == Stored(j) => jobs[j].phase # "INIT"

EveryJobIsDecided == \A j \in Jobs : Stored(j) ~> Decided(j)

(* A job waits for ever only behind a job that was deleted before its own  *)
(* decision: while the scheduler runs, no order of the clusters' events,   *)
(* of decisions that find no place and of the other controllers' writes    *)
(* stops the queue.                                                        *)
Stuck == workload # << >> /\ ~Stored(Head(workload).name)



(* A deleted job leaves no tasks behind ("skyctl delete job" terminates    *)
(* its execution), even if it is deleted while it is being submitted.      *)
DeletedJobsLeaveNothing ==
  <>[](\A j \in Jobs : ~Stored(j) => TasksOf(j) = 0)

(* A job with tasks marked EVICTED is placed again: the event that says so *)
(* reaches the scheduler, and no older copy hides the new placement.       *)
EvictedJobsArePlacedAgain ==
  \A j \in Jobs : [](Stored(j) /\ IsEvicted(jobs[j])
                      => <>(Stored(j) => ~IsEvicted(jobs[j])))

(* A heartbeat does not leave a job RUNNING that it did not find on the    *)
(* cluster: it marks it FAILED, unless the job changed since it looked.    *)
LostTasksAreReported ==
  [][\A j \in Jobs, c \in Clusters :
       /\ beat[c].stage = "updating" /\ beat'[c] = Idle
       /\ cacheAt[c] = Len(log)
       /\ Stored(j) /\ beat[c].found[j] = 0
       => jobs'[j].replicas[c].state # "RUNNING"]_vars

(* The controllers answer each other's writes only so often: a job id that *)
(* an older copy removed is written again, but not for ever.  MaxLog is    *)
(* the length that the log of the run's instance never reaches.            *)
WritesSettle == Len(log) < MaxLog
=============================================================================
