----------------------------- MODULE MCPlacement -----------------------------
(***************************************************************************)
(* Instances of Placement for TLC; see the MCPlacement_*.cfg files.  Every *)
(* pair of clusters of the small ones below, with every job.               *)
(***************************************************************************)
EXTENDS Placement

A100 == "A100"
GTX1080 == "GTX 1080"
MCClosestMatch == [l \in GpuLabels |-> IF l = "gtx-1080" THEN GTX1080 ELSE A100]

NoLabels == [l \in {} |-> ""]
Zone(z) == [l \in {"zone"} |-> z]

Pod(cpus, gpus, running) == [cpus |-> cpus, gpus |-> gpus, running |-> running]
K8Node(cpus, gpus, label, pods) == [cpus |-> cpus, gpus |-> gpus, label |-> label, pods |-> pods]
SlurmNodeOf(state, cpus, alloc, gres) ==
  [state |-> state, cpus |-> cpus, alloc |-> alloc, gres |-> gres]
NoGres == [type |-> "null", count |-> 0, used |-> 0]
Gres(type, count, used) == [type |-> type, count |-> count, used |-> used]

Kubernetes == {
  << K8Node(2, 0, "none", << >>), K8Node(3, 0, "none", << Pod(1, 0, TRUE) >>) >>,
  << K8Node(4, 2, "nvidia-a100", << Pod(1, 1, TRUE), Pod(1, 0, FALSE) >>) >>,
  << K8Node(2, 2, "none", << >>), K8Node(4, 2, "gtx-1080", << >>) >>,
  << K8Node(2, 2, "nvidia-a100", << >>), K8Node(2, 1, "gtx-1080", << Pod(1, 0, TRUE) >>) >>,
  << K8Node(2, 2, "nvidia-a100", << Pod(1, 1, TRUE) >>), K8Node(2, 1, "a100-sxm", << >>) >>,
  << K8Node(2, 2, "nvidia-a100", << >>), K8Node(2, 2, "none", << Pod(1, 1, TRUE) >>) >> }

Slurm == {
  << SlurmNodeOf({"IDLE"}, 4, 0, Gres("a100-sxm", 2, 0)),
     SlurmNodeOf({"IDLE", "DRAIN"}, 4, 0, NoGres) >>,
  << SlurmNodeOf({"MIXED", "NOT_RESPONDING"}, 3, 1, NoGres),
     SlurmNodeOf({"DOWN*"}, 3, 0, NoGres) >> }

Ray == {
  << [r \in {"CPU"} |-> <<1, 3>>] >>,
  << [r \in {"CPU", "GPU", "nvidia-a100"} |-> IF r = "CPU" THEN <<0, 2>>
                                             ELSE IF r = "GPU" THEN <<4, 4>> ELSE <<0, 1>>] >> }

Cluster(manager, nodes, labels, ready) ==
  [manager |-> manager, nodes |-> nodes, labels |-> labels, ready |-> ready]

MCClusters ==
  {Cluster("k8", n, l, TRUE) : n \in Kubernetes, l \in {NoLabels, Zone("a")}}
  \cup {Cluster("slurm", n, Zone("b"), TRUE) : n \in Slurm}
  \cup {Cluster("ray", n, NoLabels, r) : n \in Ray, r \in BOOLEAN}

MCCaches == [{1, 2} -> MCClusters] \cup {<< >>}

Stanza(labels, expressions) == [labels |-> labels, expressions |-> expressions]
Expression(key, operator, values) == [key |-> key, operator |-> operator, values |-> values]

InA == Stanza(Zone("a"), {})
NotInA == Stanza(NoLabels, {Expression("zone", "NotIn", {"a"})})
InAorB == Stanza(NoLabels, {Expression("zone", "In", {"a", "b"})})

Only(r, amount) == [t \in {r} |-> amount]
CpusAnd(cpus, r, amount) == [t \in {"cpus", r} |-> IF t = "cpus" THEN cpus ELSE amount]

JobSpec(resources, replicas, filters, preferences) ==
  [resources |-> resources, replicas |-> replicas, filters |-> filters,
   preferences |-> preferences]

MCJobSpecs ==
  {JobSpec(Only("cpus", q), r, {}, {}) : q \in {1, 2}, r \in {1, 3}}
  \cup {JobSpec(Only("gpus", 2), 2, {}, {}), JobSpec(CpusAnd(1, "gpus", 1), 2, {}, {})}
  \cup {JobSpec(CpusAnd(1, a, 1), r, {}, {}) : a \in {A100, GTX1080}, r \in {2, 3}}
  \cup {JobSpec(Only("cpus", 1), 3, {InA, NotInA}, {})}
  \cup {JobSpec(Only("cpus", 1), 4, {InAorB}, {[stanza |-> NotInA, weight |-> 3]})}
  \cup {JobSpec([t \in {} |-> 0], 2, {InA}, {[stanza |-> InA, weight |-> 2]})}
=============================================================================
