------------------------------ MODULE Placement ------------------------------
(***************************************************************************)
(* How the scheduler decides one job (the body of the loop in              *)
(* scheduler_controller.py: apply_filter_plugins, apply_score_plugins,     *)
(* apply_spread_plugins), from the clusters in its cache, whose resources  *)
(* are what their managers reported (ClusterResources), by the tests of    *)
(* its plugins (SchedulerPlugins).  JobFlow, which follows a job further,  *)
(* leaves the decision open; here it is computed, replica by replica, and  *)
(* compared with what the nodes really have.                               *)
(***************************************************************************)
EXTENDS ClusterResources, SchedulerPlugins

CONSTANTS Caches,   \* the clusters there may be: sequences of clusters,
                    \*   [manager, nodes, labels, ready]
          JobSpecs  \* the jobs there may be: [resources, replicas, filters,
                    \*   preferences]

(* A request is what the job template lets through: no zero amount, and    *)
(* not "gpus" beside an accelerator.                                       *)
IsRequest(q) == /\ DOMAIN q \subseteq ResourceTypes
                /\ \A r \in DOMAIN q : q[r] \in Nat \ {0}
                /\ "gpus" \in DOMAIN q => DOMAIN q \cap Accelerators = {}

(* allocatable_capacity: a cluster whose manager raises has reported none. *)
Reported(c) == IF StatusRaises(c) THEN << >> ELSE Allocatable(c)

Operators == {"In", "NotIn"}

ASSUME PlacementAssumption ==
  /\ \A cache \in Caches : /\ DOMAIN cache = 1 .. Len(cache) /\ Len(cache) \in Nat
                           /\ \A k \in DOMAIN cache : IsCluster(cache[k])
  /\ \A j \in JobSpecs :
       /\ IsRequest(j.resources) /\ j.replicas \in Nat \ {0}
       /\ \A f \in j.filters : \A e \in f.expressions : e.operator \in Operators
       /\ IsFiniteSet(j.preferences) /\ \A p \in j.preferences : p.weight \in Nat
  /\ Named \subseteq Accelerators
  /\ DefaultMinWeight \in Nat \ {0} /\ DefaultMaxWeight \in Nat

VARIABLES clusters,   \* the scheduler's copy of its cache
          job,        \* the job at the head of the workload queue
          stage,      \* "filter", "spread", and the outcome: "active", "failed"
          at,         \* the cluster the loop is at
          candidates, \* the clusters left by the filters, then in their rank
          node,       \* the node of it the loop is at
          left,       \* left[k][n]: alloc_capacity, what is left of the nodes
          placed,     \* placed[k][n]: replicas counted onto a node so far
          total       \* total_cluster_replicas

vars == <<clusters, job, stage, at, candidates, node, left, placed, total>>

Nodes(k) == Reported(clusters[k])

TypeOK == /\ clusters \in Caches
          /\ job \in JobSpecs
          /\ stage \in {"filter", "spread", "active", "failed"}
          /\ at \in Nat \ {0}
          /\ node \in Nat \ {0}
          /\ candidates \in Seq(DOMAIN clusters)
          /\ total \in 0 .. job.replicas
          /\ DOMAIN left = DOMAIN clusters /\ DOMAIN placed = DOMAIN clusters
          /\ \A k \in DOMAIN clusters :
               /\ DOMAIN left[k] = DOMAIN Nodes(k)
               /\ \A n \in DOMAIN Nodes(k) : left[k][n] \in [DOMAIN Nodes(k)[n] -> Int]
               /\ placed[k] \in [DOMAIN Nodes(k) -> Nat]

Init == /\ clusters \in Caches
        /\ job \in JobSpecs
        /\ stage = "filter"
        /\ at = 1
        /\ candidates = << >>
        /\ node = 1
        /\ left = [k \in DOMAIN clusters |-> Nodes(k)]
        /\ placed = [k \in DOMAIN clusters |-> [n \in DOMAIN Nodes(k) |-> 0]]
        /\ total = 0

-----------------------------------------------------------------------------
(* apply_filter_plugins, over the READY clusters.                          *)
Passes(k) == /\ clusters[k].ready
             /\ SufficientCapacity(Nodes(k), job)
             /\ AffinitySatisfied(clusters[k].labels, job)

FilterCluster ==
  /\ stage = "filter"
  /\ at <= Len(clusters)
  /\ candidates' = IF Passes(at) THEN Append(candidates, at) ELSE candidates
  /\ at' = at + 1
  /\ UNCHANGED <<clusters, job, stage, node, left, placed, total>>

ScoreOf(k) == Score(Nodes(k), clusters[k].labels, job)

(* Mutant of RanksBefore: the lowest score first.                          *)
RanksBeforeAscending(k, h) ==
  ScoreOf(k) < ScoreOf(h) \/ (ScoreOf(k) = ScoreOf(h) /\ k < h)

(* The sort by descending score keeps the order of equal scores.           *)
RanksBefore(k, h) ==
  ScoreOf(k) > ScoreOf(h) \/ (ScoreOf(k) = ScoreOf(h) /\ k < h)

(* apply_score_plugins.                                                    *)
RankClusters ==
  /\ stage = "filter"
  /\ at > Len(clusters)
  /\ \E ranked \in [1 .. Len(candidates) -> {candidates[i] : i \in DOMAIN candidates}] :
       /\ \A i, j \in DOMAIN ranked : i < j => RanksBefore(ranked[i], ranked[j])
       /\ candidates' = ranked
  /\ stage' = "spread"
  /\ at' = 1
  /\ UNCHANGED <<clusters, job, node, left, placed, total>>

-----------------------------------------------------------------------------
(* spread: replicas go onto the first node while they fit, then the next.  *)
AtNode == /\ stage = "spread"
          /\ total < job.replicas
          /\ at <= Len(candidates)
          /\ node \in DOMAIN left[candidates[at]]

(* Mutant of Without: nothing is subtracted.                               *)
WithoutNothing(nodeLeft) == nodeLeft

Without(nodeLeft) ==
  [r \in DOMAIN nodeLeft |-> IF r \in DOMAIN job.resources
                             THEN nodeLeft[r] - job.resources[r] ELSE nodeLeft[r]]

PlaceReplica ==
  /\ AtNode
  /\ LET k == candidates[at]
     IN  /\ Fits(left[k][node], job.resources)
         /\ left' = [left EXCEPT ![k][node] = Without(@)]
         /\ placed' = [placed EXCEPT ![k][node] = @ + 1]
  /\ total' = total + 1
  /\ UNCHANGED <<clusters, job, stage, at, candidates, node>>

NextNode ==
  /\ AtNode
  /\ ~Fits(left[candidates[at]][node], job.resources)
  /\ node' = node + 1
  /\ UNCHANGED <<clusters, job, stage, at, candidates, left, placed, total>>

(* Mutant of NextCluster: the loop ends with the first cluster.            *)
NextClusterStops ==
  /\ stage = "spread"
  /\ total < job.replicas
  /\ at <= Len(candidates)
  /\ node \notin DOMAIN left[candidates[at]]
  /\ at' = Len(candidates) + 1
  /\ node' = 1
  /\ UNCHANGED <<clusters, job, stage, candidates, left, placed, total>>

NextCluster ==
  /\ stage = "spread"
  /\ total < job.replicas
  /\ at <= Len(candidates)
  /\ node \notin DOMAIN left[candidates[at]]
  /\ at' = at + 1
  /\ node' = 1
  /\ UNCHANGED <<clusters, job, stage, candidates, left, placed, total>>

NothingPlaced == [k \in DOMAIN clusters |-> [n \in DOMAIN Nodes(k) |-> 0]]

(* Mutant of Decide: a part of the replicas is accepted.                   *)
DecideInPart ==
  /\ stage = "spread"
  /\ total = job.replicas \/ at > Len(candidates)
  /\ stage' = IF total > 0 THEN "active" ELSE "failed"
  /\ UNCHANGED <<clusters, job, at, candidates, node, left, total, placed>>

(* All replicas have their place, or the spread is dropped.                *)
Decide ==
  /\ stage = "spread"
  /\ \/ /\ total = job.replicas
        /\ stage' = "active"
        /\ UNCHANGED placed
     \/ /\ total < job.replicas /\ at > Len(candidates)
        /\ stage' = "failed"
        /\ placed' = NothingPlaced
  /\ UNCHANGED <<clusters, job, at, candidates, node, left, total>>

Next == \/ FilterCluster \/ RankClusters
        \/ PlaceReplica \/ NextNode \/ NextCluster
        \/ Decide

Spec == Init /\ [][Next]_vars

-----------------------------------------------------------------------------
Asked(r) == IF r \in DOMAIN job.resources THEN job.resources[r] ELSE 0

(* What is really free on the n-th reported node of c: what running pods   *)
(* and allocations leave, finished pods holding nothing.                   *)
Free(c, n) ==
  CASE c.manager = "k8" ->
         [cpus |-> c.nodes[n].cpus - RunningCpus(c.nodes[n].pods),
          gpus |-> c.nodes[n].gpus - RunningGpus(c.nodes[n].pods)]
    [] c.manager = "slurm" ->
         LET up == Schedulable(c.nodes)[n]
         IN  [cpus |-> up.cpus - up.alloc,
              gpus |-> IF up.gres.type = "null" THEN 0 ELSE up.gres.count - up.gres.used]
    [] c.manager = "ray" ->
         [cpus |-> c.nodes[n]["CPU"][2] - c.nodes[n]["CPU"][1],
          gpus |-> IF "GPU" \in DOMAIN c.nodes[n]
                   THEN c.nodes[n]["GPU"][2] - c.nodes[n]["GPU"][1] ELSE 0]

GpusOf(nodeReport) ==
  SumFunctionOnSet(nodeReport, DOMAIN nodeReport \ {"cpus"})

(* A manager never reports as allocatable what a running pod or allocation *)
(* holds, nor more than the node's capacity; pods that have finished are   *)
(* still subtracted.  Kubernetes' report fails only if its nodes have GPUs *)
(* of different types.                                                     *)
ReportsOnlyWhatIsFree ==
  \A k \in DOMAIN clusters :
    LET c == clusters[k]
    IN  IF StatusRaises(c)
        THEN c.manager = "k8" /\ \E i, j \in DOMAIN c.nodes : c.nodes[i].label # c.nodes[j].label
        ELSE \A n \in DOMAIN Allocatable(c) :
               /\ \A r \in DOMAIN Allocatable(c)[n] : Allocatable(c)[n][r] <= Capacity(c)[n][r]
               /\ Allocatable(c)[n]["cpus"] <= Free(c, n).cpus
               /\ c.manager # "ray" => GpusOf(Allocatable(c)[n]) <= Free(c, n).gpus

(* Whatever the plugins count onto a node is really free there: its CPUs,  *)
(* and, if the job names an accelerator, its GPUs.  (GpuRequestsAreMet     *)
(* says the same of a request for GPUs of any type.)  Ray counts a node's  *)
(* accelerator type apart from its GPUs in use.                            *)
ReplicasFitTheirNodes ==
  \A k \in DOMAIN clusters : \A n \in DOMAIN Nodes(k) :
    placed[k][n] > 0 =>
      /\ placed[k][n] * Asked("cpus") <= Free(clusters[k], n).cpus
      /\ clusters[k].manager # "ray" =>
           \A r \in Accelerators : placed[k][n] * Asked(r) <= Free(clusters[k], n).gpus

GpuRequestsAreMet ==
  \A k \in DOMAIN clusters : \A n \in DOMAIN Nodes(k) :
    placed[k][n] * Asked("gpus") <= IF placed[k][n] = 0 THEN 0 ELSE Free(clusters[k], n).gpus

ReplicasOn(k) == SumFunction(placed[k])

(* Reference for the filters: a stanza is about the key-value pairs that a *)
(* cluster is annotated with; it names some that must be there, some of    *)
(* which one must be, and some of which none may be.                       *)
Allows(stanza, labels) ==
  LET pairs(f) == {<<k, f[k]>> : k \in DOMAIN f}
      hit(e) == {<<e.key, v>> : v \in e.values} \cap pairs(labels) # {}
  IN  /\ pairs(stanza.labels) \subseteq pairs(labels)
      /\ {e \in stanza.expressions : e.operator = "In" /\ ~hit(e)} = {}
      /\ {e \in stanza.expressions : e.operator = "NotIn" /\ hit(e)} = {}

Eligible(k) ==
  /\ clusters[k].ready
  /\ job.filters # {} => \E f \in job.filters : Allows(f, clusters[k].labels)

(* The outcome is what the other controllers count on (Decisions of        *)
(* JobFlow): all replicas, on READY clusters that the job's filters allow, *)
(* or none at all.                                                         *)
AllReplicasOrNone ==
  /\ stage = "active" =>
       /\ SumFunction([k \in DOMAIN clusters |-> ReplicasOn(k)]) = job.replicas
       /\ \A k \in DOMAIN clusters : ReplicasOn(k) > 0 => Eligible(k)
  /\ stage = "failed" => \A k \in DOMAIN clusters : ReplicasOn(k) = 0

(* A placement that is complete, allowed and really fits, between states   *)
(* of the right types.                                                     *)
PlacementIsSound == TypeOK /\ AllReplicasOrNone /\ ReplicasFitTheirNodes

(* Reference: how many replicas a node takes if they are all weighed at    *)
(* once, and not one after the other.                                      *)
Takes(nodeReport, q) ==
  q > 0 => \A r \in Checked(nodeReport, job.resources) :
             r \in DOMAIN nodeReport /\ q * job.resources[r] <= nodeReport[r]

Room(k) ==
  SumFunction([n \in DOMAIN Nodes(k) |->
    CHOOSE q \in 0 .. job.replicas :
      /\ Takes(Nodes(k)[n], q)
      /\ \A p \in 0 .. job.replicas : Takes(Nodes(k)[n], p) => p <= q])

(* A job is marked FAILED only if the clusters it may run on have not the  *)
(* room for all its replicas: no order of clusters and nodes, no partial   *)
(* fit and no rank makes the greedy loop miss a placement.                 *)
FailsOnlyWithoutRoom ==
  stage = "failed" =>
    SumFunction([k \in DOMAIN clusters |-> IF Eligible(k) THEN Room(k) ELSE 0]) < job.replicas

(* A cluster is used only if those with a better score, preferences        *)
(* included, are full.                                                     *)
BetterClustersAreFull ==
  stage = "active" =>
    \A k, h \in DOMAIN clusters :
      /\ Eligible(k)
      /\ \E n \in DOMAIN Nodes(h) : placed[h][n] > 0
      /\ ScoreOf(k) > ScoreOf(h)
      => \A n \in DOMAIN Nodes(k) : ~Fits(left[k][n], job.resources)
=============================================================================
