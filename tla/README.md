# A TLA+ model of SkyShift

SkyShift runs jobs on many clusters (Kubernetes, Slurm, Ray) behind one API. Its controllers are
separate processes and threads that share nothing but objects in etcd: they read them through an API
server, learn of changes through a watch, and write whole objects back. This directory holds TLA+
modules of that core, instances of them that TLC checks, and theorems about them that TLAPS checks.
Paths below are relative to `src/`.

## 1. The system

| part | source | state it keeps | operations | speaks to |
|---|---|---|---|---|
| API server | `api_server/api_server.py`, `launch_server.py` | none of its own; 1 to 8 worker processes, each an event loop and a thread pool | create, list, get, update, patch, delete of 9 kinds of objects; watch; logs and exec streams; users, invitations, roles | etcd by the ETCD client |
| ETCD client | `skyshift/etcd_client/etcd_client.py` | a connection | write, update (with or without a version), read, read_prefix, delete, delete_prefix, watch | etcd |
| Informer, watcher | `skyshift/structs/` | a cache, a queue, two threads, callbacks | list and compare, follow a watch, apply events, call back | API server by HTTP |
| Scheduler | `skyshift/scheduler/` | event queue, workload queue, two informers | take new and evicted jobs, filter, score and spread them over the READY clusters, write the decision | informers, API server |
| Flow controller, one per cluster | `skyshift/skylet/flow_controller.py` | worker queue, two informers | submit placed jobs, remove deleted ones, evict for filter policies | cluster manager, API server |
| Job controller, one per cluster | `skyshift/skylet/job_controller.py` | informer, retry counter | heartbeat: report what the cluster runs; above the retry limit, mark everything EVICTED | cluster manager, API server |
| Cluster managers | `skyshift/cluster_manager/{kubernetes,ray,slurm}/` | what runs on the cluster | submit_job, delete_job, get_jobs_status, services, capacities | the clusters |
| Provisioner, skylet, cluster and network controllers | `skyshift/controllers/`, `skyshift/skylet/` | queues, skylet processes | provision, health, launch and end skylets | API server, clusters |
| Link controller, clusterlink | `skyshift/controllers/link_controller.py`, `skyshift/network/` | links, an installation lock file | create and delete links, install | clusters |
| Service, endpoints and proxy controllers | `skyshift/skylet/` | informers, queues | keep services and endpoints of linked clusters in step | API server, clusters |
| Start of the API server; users, roles, invitations | `api_server/api_server.py` | configuration, lock and flag files; users, roles and invites in etcd | initialise once, register, log in, invite, revoke, grant roles | files, etcd |
| Scheduler plugins, capacities | `skyshift/scheduler/plugins/`, the managers | none | report nodes, filter, score, spread | scheduler |
| CLI, ssh and scp helpers, cloud scripts | `skyshift/cli/`, `skyshift/utils/`, `skyshift/cloud/` | none | parse, print, transfer | users, machines |

What is hard in it, and what makes each part correct:

* *Between two etcd calls of a handler.* The `async` handlers of a worker never interleave with one
  another (they do not await between etcd calls), but there are several workers, and `delete_object`
  is a plain `def` that FastAPI runs on a pool thread. The store must remain consistent with what
  the watch announces, and a conditional update must be a compare-and-swap.
* *Between a list and a watch.* An informer must end up with what is stored although a watch starts
  at the moment it opens, may break, and two threads compare lists with a cache that is changing.
* *Whole-object writes from old copies.* Scheduler, flow controllers and job controllers each write
  the complete job from the copy they hold. Placements, job ids and task states of others are
  overwritten; the system has to settle in a state where each task runs once.
* *Files as locks.* Workers of the API server, and network controllers on one host, exclude one another
  by testing for a file and then creating it; a process killed inside leaves it. Configuration files
  are truncated and then written.
* *Names used twice.* Clusters, links, services and users are deleted and created again under their
  names, while events, skylets and copies of the old ones are still about.
* *Failures.* Cluster managers raise after half of their work, the put of an update may raise, the
  scheduler restarts, tasks disappear, jobs are deleted while they are submitted.

The complete list of hazards, each with its line and the properties that watch over it, is in
`PROJECT.json`.

## 2. The modules

```
ObjectLog           what the store promises to watchers
  ^  ^  ^
  |  |  +--- JobFlow       jobs between users, scheduler, flow and job controllers   (MCJobFlow)
  |  +------ Informer      one informer over the promised store                      (MCInformer)
  +--------- ApiServer     handlers over etcd, shown to keep the promise             (MCApiServer)
               |
             Etcd          store, versions, transactions and watch events

ClusterResources    what the managers report of their nodes
SchedulerPlugins    filter, score, fits
  ^
  +--- Placement           one decision of the scheduler, replica by replica         (MCPlacement)

ClusterLifecycle    provisioner, skylet and cluster controllers over one name        (MCClusterLifecycle)
Network             network controllers with their install lock, and the links       (MCNetwork)
ServiceMesh         service, endpoints and proxy controllers over one service        (MCServiceMesh)
Access              the start of the API server; users, roles and invites            (MCAccess)

*_proofs            theorems about the module they are named after
```

**ObjectLog** is the interface between the layers: a map from names to values and the log of the
events ADD, UPDATE, DELETE that describe its changes. Each of the other modules uses it: ApiServer
implements it (`ImplementsObjectLog`, an `INSTANCE ... WITH` refinement mapping), Informer and
JobFlow take it as the API server they talk to, by calling its actions for every write.

**Etcd** is the part of etcd that the client uses, together with the client's own conversions: a
key's value with its `version` and `mod_revision`, puts, deletes, the compare of `update`'s
transaction (`TxnSucceeds`), and `watch_generator_fn`, which tells an ADD from an UPDATE by
`version = 1` (`WatchEventType`). A delete starts the version again; the store's revision only grows.

**ApiServer** has one process per event loop, pool thread and direct user of the ETCD client.
`handler[p]` is the request `p` works on and the etcd call it makes next. One action is one etcd call
with what the handler does until the next one: `CreateCheck`/`CreateWrite`, `UpdateCheck`/
`UpdateReread`/`UpdatePut`, and so on. `UpdatePutSuppressed` is the `suppress(Exception)` around the
unconditional put, `CallRaises` any other call that raises, `AnswerWrite` a put whose response is
lost. The handlers of a loop are sequential because each loop has one `handler`. A patch is one of
the `status` field: it stands for any patch that names one part of an object and not another.

**Informer** has both threads of `informer.py`. `reflector` and `controller` are their program
counters, `listed[t]` the last list answered to each thread, `queue` and `cache` the shared data. The
comparison of a list with the cache is one action (`Compare`), because the other thread can disturb
it only by changing the cache's size, which is the action `ReflectorCompareRaises`. `HandleEvent`
contains the `KeyError` of lines 186 and 192, which ends the thread. `disturbed` is a history
variable: it records which of five kinds of interference has happened, and the code never reads it.

**JobFlow** composes scheduler, flow controllers, job controllers and cluster managers over the log
of the jobs. An informer is a position in the log (`schedulerAt`, `flowAt[c]`, `cacheAt[c]`): it
delivers, in order, what its controller's callbacks let through (`SchedulerWants`, `FlowWants`), at
any time after the event. That is what an informer amounts to while nothing disturbs it
(`PromiseWhileUndisturbed` of Informer); what JobFlow shows is therefore wrong with informers that
work. Each action is the code between two calls of the API server or of a cluster manager: `Submit`
ends with `submitted[c]`, the job to write; `WriteBack` writes it; `BeatLists`, `BeatCopies`,
`BeatUpdates` are the three reads and the writes of a heartbeat. Every write is `PutJob`, which
replaces the whole job, and which the API server refuses if the job is gone. The scheduler's plugins
are a choice among all spreads of the replicas over READY clusters, or none. `Manager` chooses what
`submit_job` and `delete_job` do: Kubernetes pods are found by a label, deployments are deleted by
job id, Ray refuses an id it has, Slurm does not find the job it was given before.

**Placement** is the body of the scheduler's loop for one job: the filters cluster by cluster
(`FilterCluster`), the sort by score (`RankClusters`), and the greedy spread with one step for every
test it makes (`PlaceReplica`, `NextNode`, `NextCluster`), then the decision. What it reads of a cluster
is what the cluster's manager computes from its nodes: **ClusterResources** has the three computations
(requests of bound pods subtracted, `scontrol` nodes filtered by state, Ray's usage pairs), with the
renaming of GPU types, and **SchedulerPlugins** the tests, as functions. CPUs stand for memory and disk,
which are read and subtracted in the same way. `Free`, `Room` and `Allows` are references stated
independently of the code: what a node has left, how many replicas it takes at once, and what a filter
stanza means. `IsCluster` is what a manager's answer satisfies: no node has more in use than it has.
JobFlow leaves the decision open (`Spreads`); `AllReplicasOrNone` says that what is
computed is one of those.

**ClusterLifecycle** follows one name of a cluster. `gen` numbers its creations; the object, the copies
that controllers hold, the events and the skylet carry it, so that a property can tell the work for one
creation from that for the next. `prov` is the one thread of the provisioner, with `WriteGets`,
`WritePuts`, `WriteFails` for the retried whole-object writes around the two cloud operations `Launch`
and `AddNodes`; `sq` and `skylet` belong to the skylet controller, `skylet.cc` to the heartbeat of the
skylet's cluster controller. The cloud is the set `machines` and the directory of its kubeconfig. The
Sky Manager restarts with empty queues (`Restart`) and then discovers clusters and launches skylets
(`Discover`, `LoadListed`).

**Network** has the installation on one host and the links. `nc[c].at` is the program counter of the
network controller of `c` through the lock (`LockIsFree` and `LockTaken` are the test and the creation
of the file), the certificates (`fabric` numbers them) and the gateway. The link controller handles one
event in up to three steps, one per direction and a put (`CreateDirection` with `doing.at` "first" and
"second", `PutLink`). A name of a link may be used again, for another pair of clusters too; `overwritten`
remembers that a link was put over one of its name that joins other clusters. What other controllers do to the cluster object is the stub `FlagIsOverwritten`.

**ServiceMesh** follows one service on several clusters. `ec[c]` and `pc[c]` are an endpoints and a proxy
controller with their queues and the copy they are about to put; `sc` is what the primary's service
controller puts. The callbacks that decide which writes wake a proxy controller are `ProxyWants`, which
`ControllersSettle` depends on.

**Access** starts, stops and kills the API server and runs the requests about users. `proc[p].at` is
where a worker's main thread (`check_or_wait_initialization`, `installation_hook`) or a pool thread
(`register_user`, `login`, `revoke_invite`) is; registration and login are the same actions for both,
as the hook calls the same methods. A role is granted by `GrantReads` and `GrantPuts`; a configuration
is written by `LoginReads`, `Truncates` and `Fills`. The checks of the inviter and the write of the
invite are one step (`Uses`); the inviter's roles are read at each grant; lists of users of a role are
sets; the invite of the admin user, which nobody else sees, is left out.

The history variables `disturbed` and `mixed` of these modules are written by the actions in which one
party interferes with another, and read by no action: the properties name the interferences without
which they hold. Each name in a property's premise is needed: without it TLC finds a counterexample.

The abstractions common to all: one kind of object in one namespace; values are opaque (a revision,
a spec and a status, or the part of a job's status that the controllers read and write);
authentication, validation, formatting and logging are left out.

## 3. The runs

Runs that pass:

| run | question | instance |
|---|---|---|
| `api_workers` | Is what the watch reports an account of the store, whatever the handlers do at once? (`ImplementsObjectLog`, `WatchDescribesStore`, `WatchEventsFit`) Is a conditional update a compare-and-swap, a re-created key included? (`SwapReplacesWhatWasRead`) | 2 workers, 1 pool thread, 1 conditional updater, calls may raise, requests begin up to revision 3 |
| `api_one_worker` | What holds if the only competitors of a loop are the threads that delete: no creation overwrites, a patch keeps the rest, success means stored. | 1 worker, 2 threads, no failing call, revision 5 |
| `informer_threads` | When does an informer keep its promise, what does it never do, what repairs it? | 2 names, 3 changes, 2 reconnects, resyncs that may fail; fair |
| `flow_kubernetes` | Do whole-object writes from old copies ever run a task twice, run one that no stored job lists, or take a placement back? | 1 job on 2 clusters, 2 replicas, a heartbeat, a failing call, a restart, a loss, deletions |
| `flow_settles` | Do the controllers stop answering each other's writes (`WritesSettle`), does every placed job end up submitted and every deleted one gone, and what can keep a job waiting? | 1 job, 2 clusters of which one comes later, no failures; fair |
| `flow_evicted` | Does an eviction always lead to a new placement? | 1 job, 1 cluster, retry limit 0, 2 heartbeats, a failing call; fair |
| `placement_pipeline` | Is a decision sound with respect to what the nodes really have (`PlacementIsSound`, `ReportsOnlyWhatIsFree`), complete (`FailsOnlyWithoutRoom`), and by rank (`BetterClustersAreFull`)? | every pair of 18 clusters of the three managers, ready or not; 13 jobs of 1 to 4 replicas with requests for CPUs, any GPU and named ones, filters and preferences |
| `clusters_life` | Does a deletion, at any moment, leave no machine behind (`CloudIsSound`), is READY true (`ReadyIsTrueInTheEnd`), do skylets go with their clusters (`SkyletsFollowClusters`) and do READY clusters have one that works (`ReadyClustersAreServed`)? | a name created twice, 2 nodes, 1 retry, 1 fault (cloud, gateway, outage or restart); fair |
| `network_install` | Do all gateways trust one another (`FabricIsSound`), are peers those of the links (`PeersFollowLinks`), and does the lock let everyone through (`InstallersGetThrough`)? | 2 clusters, 1 name of links, 3 changes by users, 1 fault, retry limit 1; fair |
| `mesh_service` | Does a service reach its pods on every cluster (`MeshIsSound`), does a deleted one leave nothing (`DeletedServicesLeaveNothing`), and do the controllers come to rest (`ControllersSettle`)? | 2 clusters, 3 changes by users, 1 failing export; fair |
| `access_accounts` | Is what a serving worker needs installed (`AccessIsSound`), does every starter get through (`StartersGetThrough`), are roles granted as invited (`RegistrationsGrantTheirRoles`), and do used or revoked invites stay closed (`InvitesStayClosed`)? | 1 or 2 workers, 2 pool threads, 2 people, 2 invites with one role or two, 3 events; fair |

A run that finds a documented promise broken (`findings` in `PROJECT.json` quotes it): `flow_slurm`. A
write from an old copy removes a job id, the flow controller submits again, and Slurm, which does not
find the job by its name, runs it a second time.

**Claims that the code does not keep.** These are definitions of the modules that no run lists, each
stating what a doc, a comment or an assertion says; TLC refutes each under the constants of the `.cfg` named, changed as the table says:

| claim | where it is said | what happens |
|---|---|---|
| `NoCreateOverwrite` (`MCApiServer_workers.cfg`) | api_server.py:736, 748: a conflict is answered | two workers create one name; the second object replaces the first, and both callers are told of success |
| `Converges` (`MCInformer_threads.cfg`) | informer.py:1: "the most-recent state of objects" | an UPDATE or DELETE of a name that is not cached ends the event controller thread; the cache never changes again |
| `DeletedJobsLeaveNothing` (`MCJobFlow_slurm.cfg` with `FairSpec`, `Manager = "deployment"`, `MayDelete = TRUE`) | docs/source/cli/jobs.rst:103 | a deployment deleted between its submission and the write of its job id is never removed |
| `EveryJobIsDecided` (the same with `Jobs = {j1, j2}`, `MaxBeats = 0`) | docs/source/architecture/scheduler.rst:5 | a job deleted before its decision stays at the head of the queue; no other job is scheduled |
| `LostTasksAreReported` (`MCJobFlow_slurm.cfg` with `Manager = "kubernetes"`, `MaxBeats = 2`, `MaxLosses = 1`) | job_controller.py:124, 128 | a running job's tasks vanish, and the heartbeat leaves it RUNNING |
| `GpuRequestsAreMet` (`MCPlacement_pipeline.cfg`) | default_plugin.py:27-30: "handles GPU requirements by checking total available GPUs" | a request for GPUs of any type that a node cannot meet is no longer looked at, and the replica is placed there |
| `MachinesGoWithTheirCluster` (`MCClusterLifecycle_life.cfg`) | docs/source/cli/clusters.rst:81 | an exception in a thread of the deletion is not seen, a restart forgets a queued deletion, and machines stay |
| `RecoveredClustersAreReady` (`MCClusterLifecycle_life.cfg`) | cluster_controller.py:116-118 | an error message left from provisioning makes the API refuse READY; a heartbeat thread that ends does not come back |
| `LockExcludes` (`MCNetwork_install.cfg`) | cluster_linkv2.py:102: "blocks until lock" | two controllers see no file and both create it |
| `ActiveLinksWork` (`MCNetwork_install.cfg`) | docs/source/cli/links.rst:34 | a link made before the gateways answer is ACTIVE without peers, or INIT for ever |

Other deviations seen while modelling, for which no run is kept; the actions are in the modules:

* `update` and `patch` re-create an object that was deleted after their existence check
  (`UpdatePut`; etcd_client.py:171 says the key must exist). The watch announces it with an ADD, as
  `WatchEventsFit` demands.
* A put that raises inside `update` is answered with success (`UpdatePutSuppressed`):
  `AckedWriteIsStored` fails as soon as `EtcdMayFail` is TRUE.
* A resync of the event controller can put an older state behind newer events: `NeverGoesBack` needs
  its premise that no resync has put anything in the queue.
* A `delete_job` that raises is not tried again (`RemoveRaises`), so `DeletedJobsLeaveNothing` needs
  calls that do not raise.
* Ray refuses a second submission, and the job is marked FAILED while it runs (`SubmitRefused`). The
  write of the refusal has no job id, so the flow controller wants it again, is refused again, and so on
  without an end.
* An evicted job that fits nowhere is written FAILED with its EVICTED tasks still in it, and that update
  puts it into the scheduler's queue again: as long as it does not fit, for ever (`SchedulerWants`, `Decisions`).
* A job that fits nowhere is FAILED for good, though scheduler.rst:107 says it queues until a cluster
  with the label is registered (`Decisions`).
* Placement: on Ray, the accelerators of a node's type are counted apart from the GPUs in use
  (ray_utils.py:80), so that replicas may be given more GPUs than are free (`ReplicasFitTheirNodes`
  excepts Ray); a node without a GPU label is counted under the type of the labelled node before it, the
  report raises if a cluster has two types, finished pods are still subtracted, and Slurm nodes with
  flags like NOT_RESPONDING count as available; `filters` keep the clusters that satisfy them, where
  scheduler.rst says these are removed.
* ClusterLifecycle: provisioning raises if the directory of a former cluster is there; a skylet launched
  at the start for a cluster not yet provisioned has no controllers and is never replaced; events and
  heartbeats of a predecessor write onto a re-created cluster; a deleted cluster that is in the
  kubeconfig is discovered again at the next start; the status of a cluster that does not answer is
  asked again inside the handler of the failure, and raises there.
* Network: a link that is put with its new status after its name was deleted and used again for other
  clusters replaces the new link (link_controller.py:78-79); a controller killed inside leaves the lock, and every later one waits for ever; the release
  removes whichever lock there is, and raises if there is none; results of the link commands are not
  looked at; a failed deletion is not tried again; deleting a cluster leaves the peers of its links; a
  gateway that is lost comes back without its peers.
* ServiceMesh: an entry of the Endpoints lost to another whole-object write never returns, as pod
  changes are not counted again; a re-created service gets no Kubernetes service on a cluster whose old
  entry is still there; missing Endpoints raise before the service is deleted; an event that comes
  before the service is cached is lost to a KeyError.
* Access: a kill between the truncation and the write of the configuration makes every later launch
  raise (utils.py:163); a kill inside the initialisation leaves the lock, and later starts wait for
  ever; of two racing initialisers one fails to start because the other has removed the lock; a restart
  rewrites the reader and inviter roles (api_server.py:219-240), which users.rst:83-84 says invited
  users have; two registrations at once may use one invite, or lose a role; an invite is used up by a
  registration that is refused because the name is taken.
* `cleanup_jobs` marks tasks EVICTED that still run, and `retry_counter` is never reset, so that the
  heartbeats that follow a passed limit evict again and again (`EndBeat`, `CleanupEvicts`).

**Bounds.** Every bound is a constant and named in the module that has it. In ApiServer `MaxRevision`
stops new writing requests, and those under way finish; three changes are a creation, a deletion and
a re-creation, which is where versions repeat, and what handlers do to one key does not involve
another key, so one name is enough. In Informer three changes of two names allow an object to come,
change and go around every list, and two reconnects allow a list to be compared while the events of
the one before are pending. In JobFlow two clusters are the least that overwrite each other's fields,
and two replicas the least that can be spread; one job is enough where jobs meet only in the
scheduler's queue. `MaxLog` cuts nothing off in the passing runs:
`WritesSettle` checks that in `flow_settles`, where 13 is one more than the theorem `WritesAreNumbered` allows,
and in `flow_kubernetes` no log grows past 15, one less than its bound.
In Placement the caches contain every kind of node the code distinguishes, and pairs of clusters are
what ranks and overflows need. In ClusterLifecycle a second creation is what a stale copy, event or
skylet needs to land on something, and one fault at every place is combined with deletions at every
moment. In Network three changes let a link be created, deleted and created again while events of the
first wait; two controllers are enough to race for a file. A name used again for *another* pair of
clusters needs three of them, which the run does not have; the theorem `PeersFollowTheLinks` covers it.
In ServiceMesh the same three changes, on
the primary and one other cluster, as clusters other than the primary meet only in the shared
Endpoints, which the primary also writes. In Access two workers race for the lock, two threads for an
invite or a role, and the second worker costs two of the three events, so that both kinds of runs stay
small.
The run `flow_kubernetes` uses a VIEW
(MCJobFlow.tla): states in which the controllers have the same events and caches ahead are
identified; this is sound for its invariants and its action property, and no run of a liveness
property uses it, nor a symmetry set.

**Fairness.** `Informer!FairSpec`: the two threads run whenever they can (Python threads in an
unconditional loop), lists are answered, and the resync period elapses. Reconnects and failing lists
are not forced to happen, nor forbidden. `JobFlow!FairSpec`: scheduler and flow controllers
take the events in their queues (their loops block on the queue and nothing else), and a heartbeat
that has begun goes on. Nothing is assumed of users, of clusters that join, of failures, losses and
restarts. `ClusterLifecycle!FairSpec`, `Network!FairSpec`, `ServiceMesh!FairSpec`: each controller
thread goes on while it can, as its loop is unconditional; fairness is weak and of the whole thread, so
that a lock file that comes and goes need not let a particular waiter pass, and a failing branch is
never forced. `Access!FairSpec`: the startup of a worker goes on; requests, launches and kills are free.

`CHECK_DEADLOCK FALSE` stands where the system comes to rest when users stop and nothing is left
to do, or when a thread has ended.

Each property of a passing run has a mutant in `PROJECT.json`: a change of one definition, of a kind
that the code could have, under which the same run finds the property violated. The mutated
definitions stand before the definitions they replace.

## 4. The theorems

`ApiServer_proofs`, for any sets of names, specs, statuses, loops, threads and clients, any bound and
with or without failing calls:

* `TypeCorrect == Spec => []TypeOK`.
* `ApiServerImplementsObjectLog == Spec => ImplementsObjectLog`. `StepEffect` shows that every step of
  every handler either leaves etcd alone or is one put or one delete; `PutIsVisible` and
  `DeleteIsVisible` that these are, through `VisibleStore` and `VisibleLog`, an Add or a Modify, and a
  Remove, of the abstract log. The type invariant is all the refinement needs: `version = 1` for a
  put of an absent key and `version > 1` for one of a present key follow from `version` being
  positive.
* `WatchIsConsistent == Spec => [](WatchDescribesStore /\ WatchEventsFit)`, from the refinement and the lemma
  `LogIsConsistent`, which says the same of everything that implements ObjectLog. Neither half is inductive
  without the other: whether the next event fits depends on what the store holds, which the events
  before it must describe. `NextAnnounces` reduces the three actions of the log to one form, an event and the
  store after it; `DescribesStep` and `FitStep` are the two inductive steps. `WatchAccountsForStore` is the
  first half alone.
* `SwapsReplaceWhatWasRead == Spec => SwapReplacesWhatWasRead`. The transaction compares `mod_revision`
  only; `RevisionsTell` says why that is enough, for a key that was deleted and created again too: no
  key is newer than the store's revision, and a key that has the revision of what an updater saw
  holds exactly that.
* `CreatesNeverOverwrite` and `PatchesKeepTheSpec`, for one worker process (`OneLoop`) and any number of
  threads that delete: `Spec => NoCreateOverwrite` as a name that a creation has found free stays free
  (`NameStaysFree`), and `Spec => PatchKeepsTheRest` as an object that a patch has read keeps its spec
  (`SpecIsKept`). The second also needs that nobody updates through the ETCD client beside the API server
  (`Clients = {}`). With two workers both are false (§3).
* `AcknowledgedIsStored`: with `~EtcdMayFail`, `Spec => AckedWriteIsStored`, for any number of workers.

The four action properties follow from one lemma on who writes in a step, `WhoWrites`, and
from what the invariants say of the handler that does.

`Informer_proofs`, for any finite set of names, any number of changes and reconnects, with or without
resyncs and failing lists: `InformerInventsNothing == Spec => [](TypeOK /\ CacheIsHistorical)`. That
cache and queue only hold what once was stored is not inductive alone, since lists and watch feed them:
`IInv` adds the same of everything an event can be made from (`SourcesAreHistorical`: the store, the
log, the lists answered to both threads). `ChangeKeeps` treats the one action that extends the log,
`InformerStepKeeps` reduces all others to what they add to cache, queue and lists, and `CompareKeeps`
shows it of the comparison of a list with the cache. `TypeCorrect` is its first half. Two more theorems
say in which order the events come:

* `RevisionsNeverGoBack == Spec => []NeverGoesBack`. A revision is the place in the log of the event that
  wrote it. `Ordered` bounds what cache and queue know by the place up to which the reflector has followed
  the log (`Horizon`), and says that the queue is in order per name; a comparison adds to the queue only
  what the list has newer (`AreNew`, `Supersedes`).
* `PromiseIsKept == Spec => []PromiseWhileUndisturbed`. `Known(base, events, m, n)` is what a watcher who
  starts with `base` knows of `n` after `m` events. `PInv` says with it that the store and every list are
  what the log says up to some event (`LogAccounts`), that every pending event fits what is known before it
  (`Fits`), and that cache and queue together are the store at the watch's position. `KnownMeans`
  ties this, which is defined by the latest event of the name, to what follows for the first event and for a new one (`KnownOfTail`),
  so that no induction over sequences is needed.

`Access_proofs`, for any workers, threads, people, invites and bounds:

* `TypeCorrect == Spec => []TypeOK`, from `Typed`, which adds that a request about an invite is about
  one that exists, with what was read of it.
* `ClosedInvitesStayClosed == Spec => InvitesStayClosed`: every copy of an invite that a thread is about
  to write back has one of the two flags set, so no order of writes opens it again.
* `ServesWhenInstalled == Spec => []AccessIsSound`. The property is about a worker that serves; the
  inductive invariant `Installation` says how it came to that: no worker and no thread runs while
  the server is down (`RestsWhenDown`), at most one worker of a launch is inside it (`OneInside`), and,
  as long as none of the exceptions that the property names has happened, the worker inside is as far as
  its steps say (`Progress`), the admin role is never put back without the admin in it (`HeldKeepsAdmin`), and wherever a worker relies on the installation it is there (`Relied => Primed /\ Settled`).
* `RolesAreGranted == Spec => []RegistrationsGrantTheirRoles`. As long as no two grants of a role have
  overlapped and no restart has rewritten the roles, nobody loses a role: at most one request is about to
  put a role back (`OnePutEach`), and what it puts covers what is stored (`HeldCovers`). Hence an inviter goes
  on holding what an invite promises (`InvitesStand`, which needs that the admin role is there before anything rests on it,
  `AdminIsThere`), no role of a registration is skipped, and what has not been granted is still to be granted (`Registering`).

`Network_proofs`, for any clusters and links: `GatewaysShareFabric == Spec => []FabricIsSound`. While no
two skylets have been inside the file lock at once, `Excludes` says that one at most is inside and that
who is about to make a fabric has found none, and `OneFabric` that
every gateway has no certificate or one of the fabric on the host. `PeersFollowTheLinks == Spec =>
[]PeersFollowLinks` is about the link controller at rest; its invariant says of every state what the pending
events will make of the peers. The direction of two clusters is decided by the last event in the queue that
concerns them (`QueueDecides`), else by what is left to do of the event being handled, else by the peers as they
are (`PeersDecide`), and the decision agrees with the stored links. A link that is not ACTIVE has its creation
before it (`Activated`), no two links join one pair (`OneLinkEach`), and who has peers answers (`PeersAnswer`).

`ClusterLifecycle_proofs`, for any numbers of nodes, creations, retries and faults:
`MachinesBelongToClusters == Spec => []CloudIsSound`. The property speaks of the provisioner at rest and
its empty queue. `Removal` says the same of every state: whatever is needed to remove (machines that run,
an event that will start some, a provisioning under way) is provided for, by the cluster that claims it
or by a DELETE of a provisioned cluster *further behind in the queue* (`Waiting`); and no copy
that the provisioner or a skylet is about to put tells the provision of its cluster wrongly (`CopiesAgree`).

`ServiceMesh_proofs`, for any clusters and pods and any number of changes and failures:
`ServicesReachTheirPods == Spec => []MeshIsSound` and `DeletionsLeaveNothing == Spec =>
[]DeletedServicesLeaveNothing`. Both speak of the mesh at rest; `Mesh` says of every state what it will come to:

* The events before each endpoints controller are a chain that ends in the service as it is (`InOrder`). The
  Endpoints are what the primary has made of its events so far (`PrimaryLeads`). What it has not seen
  no other controller has seen, and nothing tells of it yet (`Together`, `Fresh`). A cluster that has dealt with the creation
  that the Endpoints belong to has its entry, and the others have none (`Counted`); the Kubernetes services
  are told by where a controller is in its events (`K8Fits`).
* The writes before the primary's proxy controller show more exports from one put to the next, begin with no
  fewer than it imports, and end in what the Endpoints say (`ImportsFollow`). A cluster that exports, or is about to, is listed or will be told to
  stop (`Undone`); an exposed one exports, and nothing is before it that would make it stop (`Current`); one
  that is listed and not exposed has been told, or has the put in hand (`WillExpose`).

All this holds while nothing has disturbed (`Clean`) and no controller is *doomed*: the primary can be through with
a creation, its deletion included, which another cluster has still before it. Nothing has happened yet, but the event of
that cluster will be disturbed, and its parts of `Mesh` are lost before `disturbed` tells. A doomed state stays so until it is
disturbed, and a mesh at rest is not doomed.

`Placement_proofs`, for any clusters, whatever their managers report, and any jobs:

* `TypeCorrect == Spec => []TypeOK`.
* `BestClustersFirst == Spec => []BetterClustersAreFull`. `Greedy` is what the loop keeps: while it
  filters, the candidates are the clusters before `at` that pass, in their order; afterwards they are
  ranked, what the loop left behind is full, and what it has not reached is as it was reported.
  `RankingKeepsAll` shows by counting that a ranking which repeats none of the candidates leaves none
  out, `StanzasMeanPairs` that the affinity filter refuses no cluster that the stanzas, read as
  sets of labels, allow.
* `ReportedIsFree == Spec => []ReportsOnlyWhatIsFree`, manager by manager, from what the managers' answers
  satisfy (`IsCluster`: no node has more in use than it has). `NodeMapped` says that the
  renaming of the GPU types changes nothing but the names.
* `PlacementsAreSound == Spec => []PlacementIsSound`. `Counted` keeps the accounts of the spread: what is left of a node
  is what was reported less what its replicas ask for and never negative, and the replicas of all clusters
  are as many as were counted.
* `FailsForWantOfRoom == Spec => []FailsOnlyWithoutRoom`. A node that is full holds at least as many replicas as it
  takes at once (`Most`), hence the replicas placed are at least the sum of these; a greedy spread over
  nodes that do not share anything wastes nothing.

Sums are folds over finite sets: recursive functions under a CHOOSE. `SumExists` shows that the recursion has a solution
(one for the subsets of each size gives one for the next) and `FoldInduction` that what is kept from a set
without the element taken first to the set holds of all of them, both with a set in the place of the operator parameter of the
library's induction theorems. `SumsAddUp`, `SumMonotone` and `SumChanged` are what the other proofs use.

`JobFlow_proofs`, for any jobs, finitely many clusters, any replicas and bounds, and any of the four
cluster managers:

* `TypeCorrect == Spec => []TypeOK`, from `Typed`, which counts the events of added clusters by the
  clusters that were added, and says that a heartbeat only writes jobs that its view has on its cluster.
* `TasksAreListed` and `PlacementIsFinal`: if `MaxCreates <= 1` and `MaxBeats <= RetryLimit`, then
  `Spec => []NoUnlistedTasks` and `Spec => PlacementStays`. The two conditions are the ones that the
  code needs: a job stored again under its name is met by writes from copies of the old one, and
  `cleanup_jobs` gives jobs to the scheduler a second time (run `flow_evicted` has that case). The
  number of failures, losses, deletions and restarts is free. The inductive invariant `Final` is about the
  log: all updates of a job place it on the same clusters (`OnePlacement`), its name is added once
  (`OneAddition`), and the stored job is new or placed as its updates say (`StoreIsFaithful`). It is
  kept because all that is still to be written agrees with it: the jobs in the scheduler's queue and
  the additions ahead of it in the log have no update yet and are there once (`QueueFits`), what a flow
  controller is to write back (`SubmitsAgree`) and the view of a heartbeat (`BeatsAgree`) are placed
  where an update has placed them. `TasksArePlaced` ties the tasks to it: a cluster has tasks of a job
  only if an update placed the job there.
* `NoMoreThanReplicas`: under the same two conditions, and with `Manager # "slurm"` (where run `flow_slurm`
  refutes it), `Spec => []NoOverPlacement`. For each job there is one division of its replicas among the
  clusters that everything stays within (`Shared`): all that the log and the store say of it, what flow
  controllers are to write back, what heartbeats have seen, and the tasks that run. It is chosen at the placement, from what the
  scheduler's queue allows (`QueueIsModest`); before that there is nothing of the job anywhere.
* `WritesComeToAnEnd == Spec => []WritesSettle` and `WritesAreNumbered == Spec => [](Len(log) <= Cardinality(Slots))`, for
  finitely many jobs that may be created again any number of times, if `MaxBeats <= RetryLimit` and `Manager # "ray"`;
  without either the two endless loops of §3 exist. Every event of the log has a slot that is its own: one
  for the creation and one for the deletion of each of the creations, and one for each pair of an *origin*
  (a decision of the scheduler, a submission that raised, a heartbeat's report of a job) and a *path*, the
  clusters that answered one another from there. No cluster is twice on a path, as what is written on it
  has the job ids of the clusters before. `Tree` says so of the
  log and of what flow controllers have in hand (`Taken`, `Answer`), and `Spent` that the origins which can still come have their
  slots free. A restart of the scheduler only skips decisions. In `flow_settles` there are
  2 + (1 + 1) * 5 = 12 slots, and TLC finds logs of that length.
* Five theorems say what holds once a controller is *at rest*: it has nothing in hand and no event ahead of it in
  the log that it wants (`FlowRests`, `SchedulerRests`). They are the safety part of the four liveness
  properties on jobs. Where `WritesAreNumbered` bounds the events, a controller that is scheduled
  fairly comes to rest; this last step is what TLC checks with fairness.
  * `JobIdsAreNotLost == Spec => []JobIdsArrive`, without any condition: at rest, the jobs
    placed on the cluster have its job id. As long as one has not, the flow controller is about to write the job back or
    has an update of it ahead that it wants (`IdsAreComing`): every write that takes the id back is such an update.
  * `JobsRunAsAssigned == Spec => []SubmissionsAreExact`: at rest, each job placed on the cluster has there
    exactly the tasks assigned to it. It needs the two conditions of `PlacementIsFinal`, `MaxLosses = 0`, and a manager
    that takes tasks as a whole: deployments, or pods with `MaxFailures = 0`. Otherwise a submission
    that raises halfway leaves some of the pods, and the next one finds them and adds none. With such a manager
    `Shared` is exact: a cluster that holds any tasks of a job holds its share. And a job id, in whichever copy,
    means that the tasks are there (`IdsAreTrue`, kept by `ClaimsMove`: ids are copied, and made only by a submission).
  * `DeletedJobsArePurged == Spec => []DeletionsArrive`: at rest, no pods of a deleted job are on the cluster. It needs
    the two conditions, `Manager = "kubernetes"` (the others find tasks by a job id that the deleted
    object may lack, see §3) and `MaxFailures = 0` (a removal that raises is not tried again). The deletion is
    the last event of its job and says where its updates placed it (`Departed`), so the flow controller wants it; what is up to there is gone (`Cleared`).
  * `EveryJobIsQueued == Spec => []NothingIsForgotten` with `MaxRestarts = 0`, and `OnlyStuckJobsWait == Spec => []LeftBehind` with
    `MaxCreates <= 1` too: at rest, a job that is not decided or has evicted tasks is in the
    workload queue, and is there because one ahead of it was deleted before its decision was written. A
    restart drops the queue for good. Such a job is in the queue or in an event ahead (`DecisionsAreComing`), as no
    copy that anyone is to write undoes a decision without announcing it (`InitIsUnplaced`, `UndecidedAnnounced`).

The theorems assume what the modules state: `ApiAssumption`, `EtcdAbsentAssumption`,
`InformerAssumption`, `AccessAssumption`, `NetworkAssumption`, `ClusterAssumption`, `ServiceMeshAssumption`,
`ClusterResourcesAssumption` (finitely many accelerators, to which the labels of GPUs are mapped),
`PlacementAssumption` (the caches hold clusters as the managers report them, jobs ask for a positive number of
replicas, and weights of preferences are natural numbers) and `JobFlowAssumption`.

Only model-checked are the liveness properties: the prover has no rules for fairness. Their safety parts for jobs are
the theorems on controllers at rest; every invariant and every other action property of the passing runs has a theorem.

## 5. Not modelled, and what is left

Not modelled: the command line, the scripts that cloud provisioning runs, ssh and file transfer, log and
exec streams, the validation of formats: input and output without a state that others read. Of what is
modelled in part: namespaces and prefixes (`read_prefix` and `watch` use a prefix without a closing
slash, and the caches of informers over all namespaces are keyed by the name alone; every module has one
namespace), the filter policies of the flow controller (their branch reads an attribute that jobs do not
have), `get_jobs_status` of Ray, roles changed by hand, a service whose selector or primary changes, two
links on one pair of clusters, and several names of clusters or services at once.
