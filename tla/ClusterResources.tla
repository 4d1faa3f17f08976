--------------------------- MODULE ClusterResources ---------------------------
(***************************************************************************)
(* What the cluster managers report of their clusters: the resources of    *)
(* every node (cluster_resources) and what is left of them                 *)
(* (allocatable_resources), computed from the answers of the Kubernetes    *)
(* API, of "scontrol show nodes" and of the Ray dashboard.                 *)
(*                                                                         *)
(* A cluster is the sequence of its nodes.  CPUs stand for memory and disk *)
(* as well, which are read and subtracted in the same way; amounts are     *)
(* natural numbers in SkyShift's units.  GPU types have the name the       *)
(* cluster gives them and the name SkyShift has for them (fuzzy_map_gpu).  *)
(***************************************************************************)
EXTENDS Integers, Sequences, FiniteSets, Functions

CONSTANTS GpuLabels,    \* the names that clusters give to types of GPUs
          Accelerators, \* SkyShift's names of them, AcceleratorEnum
          ClosestMatch  \* ClosestMatch[l]: the accelerator nearest to l

ASSUME ClusterResourcesAssumption ==
  /\ IsFiniteSet(Accelerators)
  /\ ClosestMatch \in [GpuLabels -> Accelerators]
  /\ {"cpus", "gpus"} \cap (GpuLabels \cup Accelerators) = {}

ResourceTypes == {"cpus", "gpus"} \cup Accelerators

(* Every node's key that is no resource of SkyShift's own is renamed.      *)
MapGpu(key) == IF key \in GpuLabels THEN ClosestMatch[key] ELSE key

FuzzyMapGpu(nodes) ==
  [i \in DOMAIN nodes |->
     [r \in {MapGpu(key) : key \in DOMAIN nodes[i]} |->
        nodes[i][CHOOSE key \in DOMAIN nodes[i] : MapGpu(key) = r]]]

-----------------------------------------------------------------------------
(* Kubernetes.  A node: [cpus, gpus, label, pods]; label is the type of    *)
(* its GPUs, or "none"; pods are the containers with requests of the pods  *)
(* bound to it: [cpus, gpus, running], running ones and finished ones.     *)

(* process_resources: the type that a node's GPUs are counted under stays  *)
(* that of the labelled node before it, if it has no label of its own.     *)
Labelled(nodes, i) == {j \in 1 .. i : nodes[j].label # "none"}

GpuType(nodes, i) ==
  IF Labelled(nodes, i) = {} THEN "gpus"
  ELSE nodes[CHOOSE j \in Labelled(nodes, i) : \A h \in Labelled(nodes, i) : h <= j].label

ProcessResources(nodes) ==
  [i \in DOMAIN nodes |->
     [r \in {"cpus", GpuType(nodes, i)} |->
        IF r = "cpus" THEN nodes[i].cpus ELSE nodes[i].gpus]]

(* What the containers on a node requested in all.                         *)
RequestedOf(pods, Amount(_)) == SumFunction([k \in DOMAIN pods |-> Amount(pods[k])])

(* Mutant of KubernetesAllocatable: only the CPUs are subtracted.          *)
KubernetesAllocatableCpus(nodes) ==
  FuzzyMapGpu([i \in DOMAIN nodes |->
     [ProcessResources(nodes)[i] EXCEPT
        !["cpus"] = @ - RequestedOf(nodes[i].pods, LAMBDA p : p.cpus)]])

(* allocatable_resources: the requests of all bound pods are subtracted,   *)
(* and those for GPUs under the type of the last node.  That raises if a   *)
(* node with pods counts its GPUs under another type.                      *)
KubernetesRaises(nodes) ==
  \E i \in DOMAIN nodes :
    nodes[i].pods # << >> /\ GpuType(nodes, i) # GpuType(nodes, Len(nodes))

KubernetesAllocatable(nodes) ==
  FuzzyMapGpu([i \in DOMAIN nodes |->
     [ProcessResources(nodes)[i] EXCEPT
        !["cpus"] = @ - RequestedOf(nodes[i].pods, LAMBDA p : p.cpus),
        ![GpuType(nodes, i)] = @ - RequestedOf(nodes[i].pods, LAMBDA p : p.gpus)]])

-----------------------------------------------------------------------------
(* Slurm.  A node: [state, cpus, alloc, gres]; state is the set of the     *)
(* flags joined by "+"; gres is [type, count, used], its type "null" if    *)
(* there is none.                                                          *)

(* The flags that occur inside the name of an unavailable and of an        *)
(* available state.  A flag that occurs in neither is passed over.         *)
PartOfUnavailable == {"DOWN", "DRAIN", "MAINT", "RESERVED"}
PartOfAvailable == {"IDLE", "MIXED", "ALLOCATED", "CLOUD"}

NodeSchedulable(state) == /\ state \cap PartOfUnavailable = {}
                          /\ state \cap PartOfAvailable # {}

Schedulable(nodes) == SelectSeq(nodes, LAMBDA n : NodeSchedulable(n.state))

SlurmNode(node, cpus, gpus) ==
  [r \in {"cpus"} \cup (IF node.gres.type = "null" THEN {} ELSE {node.gres.type}) |->
     IF r = "cpus" THEN cpus ELSE gpus]

SlurmCapacity(nodes) ==
  LET up == Schedulable(nodes)
  IN  FuzzyMapGpu([i \in DOMAIN up |->
        SlurmNode(up[i], up[i].cpus, IF up[i].gres.type = "null" THEN 0 ELSE up[i].gres.count)])

SlurmAllocatable(nodes) ==
  LET up == Schedulable(nodes)
  IN  FuzzyMapGpu([i \in DOMAIN up |->
        SlurmNode(up[i], up[i].cpus - up[i].alloc,
                  IF up[i].gres.type = "null" THEN 0 ELSE up[i].gres.count - up[i].gres.used)])

-----------------------------------------------------------------------------
(* Ray.  A node maps the dashboard's names of resources ("CPU", "GPU", and *)
(* a GPU label for "accelerator_type:...") to <<used, total>>.             *)
RayKey(name) == CASE name = "CPU" -> "cpus" [] name = "GPU" -> "gpus" [] OTHER -> name

ProcessClusterStatus(nodes, usage) ==
  [i \in DOMAIN nodes |->
     [r \in {RayKey(name) : name \in DOMAIN nodes[i]} |->
        LET quant == nodes[i][CHOOSE name \in DOMAIN nodes[i] : RayKey(name) = r]
        IN  IF usage THEN quant[2] - quant[1] ELSE quant[2]]]

RayAllocatable(nodes) == FuzzyMapGpu(ProcessClusterStatus(nodes, TRUE))

-----------------------------------------------------------------------------
(* A cluster: [manager, nodes].  Its capacity and what is left of it.      *)
Capacity(c) ==
  CASE c.manager = "k8"    -> FuzzyMapGpu(ProcessResources(c.nodes))
    [] c.manager = "slurm" -> SlurmCapacity(c.nodes)
    [] c.manager = "ray"   -> FuzzyMapGpu(ProcessClusterStatus(c.nodes, FALSE))

StatusRaises(c) == c.manager = "k8" /\ KubernetesRaises(c.nodes)

Allocatable(c) ==
  CASE c.manager = "k8"    -> KubernetesAllocatable(c.nodes)
    [] c.manager = "slurm" -> SlurmAllocatable(c.nodes)
    [] c.manager = "ray"   -> RayAllocatable(c.nodes)

-----------------------------------------------------------------------------
(* What the managers answer, of clusters that do not run more than they    *)
(* have: the clusters see to that, not SkyShift.                           *)
Pods == Seq([cpus : Nat, gpus : Nat, running : BOOLEAN])
KubernetesNodes ==
  [cpus : Nat, gpus : Nat, label : GpuLabels \cup {"none"}, pods : Pods]

RunningCpus(pods) == RequestedOf(pods, LAMBDA p : IF p.running THEN p.cpus ELSE 0)
RunningGpus(pods) == RequestedOf(pods, LAMBDA p : IF p.running THEN p.gpus ELSE 0)

SlurmNodes == [state : SUBSET STRING, cpus : Nat, alloc : Nat,
               gres : [type : GpuLabels \cup {"null"}, count : Nat, used : Nat]]

\* What is used of a resource, and what there is of it.
IsRayNode(node) ==
  /\ "CPU" \in DOMAIN node /\ DOMAIN node \subseteq {"CPU", "GPU"} \cup GpuLabels
  /\ node \in [DOMAIN node -> Nat \X Nat]
  /\ \A name \in DOMAIN node : node[name][1] <= node[name][2]

IsCluster(c) ==
  \/ /\ c.manager = "k8"
     /\ c.nodes \in Seq(KubernetesNodes)
     /\ \A n \in DOMAIN c.nodes : /\ RunningCpus(c.nodes[n].pods) <= c.nodes[n].cpus
                                 /\ RunningGpus(c.nodes[n].pods) <= c.nodes[n].gpus
  \/ /\ c.manager = "slurm"
     /\ Schedulable(c.nodes) \in Seq(SlurmNodes)
     /\ \A n \in DOMAIN Schedulable(c.nodes) :
          LET up == Schedulable(c.nodes)[n]
          IN  up.alloc <= up.cpus /\ up.gres.used <= up.gres.count
  \/ /\ c.manager = "ray"
     /\ DOMAIN c.nodes = 1 .. Len(c.nodes) /\ Len(c.nodes) \in Nat
     /\ \A n \in DOMAIN c.nodes : IsRayNode(c.nodes[n])
=============================================================================
