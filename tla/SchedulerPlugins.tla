--------------------------- MODULE SchedulerPlugins ---------------------------
(***************************************************************************)
(* The scheduler's plugins: DefaultPlugin (filter by capacity, score, and  *)
(* the test its spread uses) and ClusterAffinityPluginV2 (filter by the    *)
(* labels of a cluster).                                                   *)
(*                                                                         *)
(* A job asks for resources, a function from the resource types it names   *)
(* (the template strips zeros) to positive amounts, and has a placement:   *)
(* filters and preferences.  A node is the function of what is left of it. *)
(***************************************************************************)
EXTENDS Integers, Sequences, FiniteSets, Functions

CONSTANTS Named,         \* accelerators whose enum name is also their value
          DefaultMinWeight, DefaultMaxWeight

(* check_gpu_requirements looks a node's accelerators up by the enum's     *)
(* name: "GTX 1080" is the value of GTX_1080, and never found.             *)
TotalGpus(node) == SumFunctionOnSet(node, Named \cap DOMAIN node)

CheckGpuRequirements(resources, node) ==
  "gpus" \in DOMAIN resources /\ resources["gpus"] > TotalGpus(node)

(* is_subset_and_values_smaller: a request for GPUs of any type is no      *)
(* longer looked at if it is more than the node has; otherwise the node    *)
(* must have the key "gpus".                                               *)
Checked(node, resources) ==
  DOMAIN resources \ (IF CheckGpuRequirements(resources, node) THEN {"gpus"} ELSE {})

Fits(node, resources) ==
  \A r \in Checked(node, resources) : r \in DOMAIN node /\ resources[r] <= node[r]

(* DefaultPlugin.filter: some node has room for a replica.                 *)
SufficientCapacity(nodes, job) == \E i \in DOMAIN nodes : Fits(nodes[i], job.resources)

-----------------------------------------------------------------------------
(* A stanza: [labels, expressions]; an expression: [key, operator, values]. *)
MatchLabels(wanted, labels) ==
  \A k \in DOMAIN wanted : k \in DOMAIN labels /\ labels[k] = wanted[k]

MatchExpression(e, labels) ==
  IF e.key \in DOMAIN labels
  THEN e.operator = "In" <=> labels[e.key] \in e.values
  ELSE e.operator = "NotIn"

StanzaSatisfied(stanza, labels) ==
  /\ MatchLabels(stanza.labels, labels)
  /\ \A e \in stanza.expressions : MatchExpression(e, labels)

(* ClusterAffinityPluginV2.filter: one stanza must be satisfied.           *)
AffinitySatisfied(labels, job) ==
  job.filters = {} \/ \E f \in job.filters : StanzaSatisfied(f, labels)

(* get_cluster_preference_weight, up to the division by the weight that is *)
(* the highest for all clusters alike: a preference is [stanza, weight].   *)
PreferenceWeight(labels, job) ==
  LET met == {p \in job.preferences : StanzaSatisfied(p.stanza, labels)}
      weights == {DefaultMinWeight} \cup {p.weight : p \in met}
  IN  DefaultMaxWeight * CHOOSE w \in weights : \A v \in weights : v <= w

(* DefaultPlugin.score: CPUs and ten times the GPUs of all nodes.          *)
NodeScore(node) ==
  SumFunction([r \in DOMAIN node |-> IF r = "cpus" THEN node[r] ELSE 10 * node[r]])

Score(nodes, labels, job) ==
  PreferenceWeight(labels, job) * SumFunction([i \in DOMAIN nodes |-> NodeScore(nodes[i])])
=============================================================================
