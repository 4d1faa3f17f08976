--------------------------- MODULE ClusterLifecycle ---------------------------
(***************************************************************************)
(* The life of one cluster object, from its creation by a user or by the   *)
(* discovery at the start of the Sky Manager to its deletion, as three     *)
(* controllers handle it: the provisioner controller and the skylet        *)
(* controller of the Sky Manager, and the cluster controller of the        *)
(* cluster's skylet.  All of them get the object by its name, change some  *)
(* of its fields and put the whole of it back.                             *)
(*                                                                         *)
(* There is one name.  It can be used again: gen is the number of the      *)
(* creation that an object (or a copy of it, or a skylet) stems from.  The *)
(* cluster is one of Kubernetes, attached or provisioned on a cloud.       *)
(***************************************************************************)
EXTENDS Naturals, Sequences, SequencesExt

CONSTANTS Provisions,   \* spec.provision of the clusters that users create
          NumNodes,     \* spec.num_nodes
          InKubeconfig, \* the user's kubeconfig has a context of this name
          Retries,      \* retry_limit of the provisioner's writes
          RetryLimit,   \* DEFAULT_RETRY_LIMIT of the heartbeats
          MaxCreations, MaxFaults \* bounds; a fault is a failure of the
                        \* cloud or of the gateway, an outage or a restart

ASSUME ClusterAssumption ==
  /\ Provisions \subseteq BOOLEAN
  /\ NumNodes \in Nat \ {0} /\ Retries \in Nat \ {0} /\ RetryLimit \in Nat
  /\ InKubeconfig \in BOOLEAN
  /\ {MaxCreations, MaxFaults} \subseteq Nat

VARIABLES cluster,   \* the stored object, or None
          created,   \* creations so far
          machines,  \* the nodes that run on the cloud under this name
          configDir, \* there is a directory ~/.skyconf/clusters/<name>
          up,        \* the cluster answers
          pq, prov,  \* provisioner: its queue, what it is doing
          sq, load,  \* skylet controller: its queue, what is left of _load_clusters
          skylet,    \* the process of the skylet, or None
          faults,    \* faults so far
          mixed      \* history: what has come between the events and the object

env == <<machines, configDir, up>>
provisionerVars == <<pq, prov>>
vars == <<cluster, created, machines, configDir, up, pq, prov, sq, load, skylet, faults, mixed>>

None == [gen |-> 0]

Statuses == {"INIT", "PROVISIONING", "READY", "ERROR"}

(* message: there is an error message.                                     *)
Object == [gen : 1 .. MaxCreations, provision : BOOLEAN, status : Statuses,
           message : BOOLEAN]

NewObject(gen, provision) ==
  [gen |-> gen, provision |-> provision, status |-> "INIT", message |-> FALSE]

(* verify_error_message.                                                   *)
Valid(obj) == obj.message => obj.status = "ERROR"

Nodes == 0 .. NumNodes - 1  \* 0 is the server
Workers == Nodes \ {0}
Exists == cluster # None

WriteStages == {"provisioning", "spec", "specError", "ready", "error"}

TypeOK ==
  /\ cluster \in Object \cup {None} /\ (Exists => Valid(cluster))
  /\ created \in 0 .. MaxCreations
  /\ machines \subseteq Nodes /\ configDir \in BOOLEAN /\ up \in BOOLEAN
  /\ pq \in Seq([type : {"ADD", "DELETE"}, obj : Object])
  /\ prov \in [at : {"idle", "launch", "nodes"} \cup WriteStages, obj : Object \cup {None},
               tries : 0 .. Retries, copy : Object \cup {None}]
  /\ sq \in Seq([type : {"UPDATE", "DELETE"}, gen : 1 .. MaxCreations, provision : BOOLEAN])
  /\ load \in {"discover", "list", "done"}
  /\ skylet = None \/
     skylet \in [gen : 1 .. MaxCreations, provision : BOOLEAN,
                 cc : [at : {"absent", "sleep", "get", "put", "dead"}, report : {"READY", "ERROR"},
                       handling : BOOLEAN, failures : 0 .. RetryLimit + 1,
                       copy : Object \cup {None}]]
  /\ faults \in 0 .. MaxFaults
  /\ mixed \subseteq {"overwritten", "muddled", "forgotten", "kept"}

Idle == [at |-> "idle", obj |-> None, tries |-> 0, copy |-> None]

Init == /\ cluster = None /\ created = 0
        /\ machines = {} /\ configDir = FALSE /\ up = TRUE
        /\ pq = << >> /\ prov = Idle
        /\ sq = << >> /\ load = "discover"
        /\ skylet = None
        /\ faults = 0
        /\ mixed = {}

-----------------------------------------------------------------------------
(* The API server, and the informers that pass its events on.              *)

(* Mutant of Updated: an event of the name that waits is thought enough.   *)
UpdatedIfIdle(obj) ==
  IF obj.status = "READY" /\ sq = << >>
  THEN << [type |-> "UPDATE", gen |-> obj.gen, provision |-> obj.provision] >> ELSE sq

(* update_callback_fn of the skylet controller lets READY and ERROR        *)
(* through, and its loop does nothing for ERROR.  A second event equal to  *)
(* the one before it finds its skylet running, and is left out.            *)
Updated(obj) ==
  LET event == [type |-> "UPDATE", gen |-> obj.gen, provision |-> obj.provision]
  IN  IF obj.status = "READY" /\ (sq = << >> \/ Last(sq) # event) THEN Append(sq, event) ELSE sq

(* update_object for a writer that works for the creation gen: a copy of   *)
(* one creation may land on the next, and so may the news of one, or the   *)
(* heartbeat of a skylet of one.                                           *)
Put(copy, gen) ==
  /\ cluster' = copy
  /\ sq' = Updated(copy)
  /\ mixed' = mixed \cup (IF copy.gen # cluster.gen THEN {"overwritten"} ELSE {})
                    \cup (IF gen # cluster.gen THEN {"muddled"} ELSE {})

Add(provision) ==
  /\ created < MaxCreations
  /\ created' = created + 1
  /\ cluster' = NewObject(created + 1, provision)
  /\ pq' = Append(pq, [type |-> "ADD", obj |-> NewObject(created + 1, provision)])

UserCreates(provision) ==
  /\ ~Exists
  /\ Add(provision)
  /\ UNCHANGED <<env, prov, sq, load, skylet, faults, mixed>>

UserDeletes ==
  /\ Exists
  /\ cluster' = None
  /\ pq' = Append(pq, [type |-> "DELETE", obj |-> cluster])
  /\ sq' = Append(sq, [type |-> "DELETE", gen |-> cluster.gen, provision |-> cluster.provision])
  /\ UNCHANGED <<created, env, prov, load, skylet, faults, mixed>>

-----------------------------------------------------------------------------
(* The provisioner controller.                                             *)

(* A KubernetesManager can be made if there is a kubeconfig for it.        *)
Constructs(provision) == IF provision THEN configDir /\ 0 \in machines ELSE InKubeconfig

Doing(at) == prov' = [prov EXCEPT !.at = at, !.tries = 0, !.copy = None]

(* delete_unused_cluster_config, and then ERROR with the error as message. *)
Abandons == configDir' = FALSE /\ Doing("error")

TakeAdd ==
  /\ prov.at = "idle" /\ pq # << >> /\ Head(pq).type = "ADD"
  /\ pq' = Tail(pq)
  /\ LET obj == Head(pq).obj
     IN  prov' = [Idle EXCEPT !.obj = obj,
                    !.at = IF obj.provision THEN "provisioning"
                           ELSE IF Constructs(FALSE) THEN "ready" ELSE "error"]
  /\ UNCHANGED <<cluster, created, env, sq, load, skylet, faults, mixed>>

(* Mutant of TakeDelete: the machines of a failed cluster are left alone.  *)
TakeDeleteUnlessFailed ==
  /\ prov.at = "idle" /\ pq # << >> /\ Head(pq).type = "DELETE"
  /\ pq' = Tail(pq)
  /\ IF Head(pq).obj.provision /\ Head(pq).obj.status # "ERROR"
     THEN machines' = {} /\ configDir' = FALSE
     ELSE UNCHANGED <<machines, configDir>>
  /\ UNCHANGED <<cluster, created, up, prov, sq, load, skylet, faults, mixed>>

(* delete_kubernetes_cluster: one thread for each node; what a thread      *)
(* raises is not seen.                                                     *)
TakeDelete ==
  /\ prov.at = "idle" /\ pq # << >> /\ Head(pq).type = "DELETE"
  /\ pq' = Tail(pq)
  /\ IF Head(pq).obj.provision
     THEN /\ configDir' = FALSE
          /\ \/ machines' = {} /\ UNCHANGED <<faults, mixed>>
             \/ /\ faults < MaxFaults /\ machines # {}
                /\ \E n \in machines : machines' = {n}
                /\ faults' = faults + 1
                /\ mixed' = mixed \cup {"kept"}
     ELSE UNCHANGED <<machines, configDir, faults, mixed>>
  /\ UNCHANGED <<cluster, created, up, prov, sq, load, skylet>>

(* Where a write of the provisioner goes on, and where if it has failed as *)
(* often as it is tried.                                                   *)
After(stage) == CASE stage = "provisioning" -> "launch"
                  [] stage \in {"spec", "specError"} -> "nodes"
                  [] stage \in {"ready", "error"} -> "idle"

MessageAt(stage) == stage = "error" /\ prov.obj.provision

StatusAt(stage) == CASE prov.tries = Retries \/ stage \in {"error", "specError"} -> "ERROR"
                     [] stage = "provisioning" -> "PROVISIONING"
                     [] stage = "ready" -> "READY"

(* _update_cluster_obj_status and _update_cluster_obj_rke2_spec: the get.  *)
WriteGets ==
  /\ prov.at \in WriteStages /\ prov.copy = None
  /\ Exists
  /\ prov' = [prov EXCEPT !.copy =
       IF prov.at = "spec" THEN cluster
       ELSE [cluster EXCEPT !.status = StatusAt(prov.at),
                            !.message = MessageAt(prov.at) /\ StatusAt(prov.at) = "ERROR"]]
  /\ UNCHANGED <<cluster, created, env, pq, sq, load, skylet, faults, mixed>>

WritePuts ==
  /\ prov.at \in WriteStages /\ prov.copy # None
  /\ Exists
  /\ Put(prov.copy, prov.obj.gen)
  /\ IF After(prov.at) = "idle" THEN prov' = Idle ELSE Doing(After(prov.at))
  /\ UNCHANGED <<created, env, pq, load, skylet, faults>>

(* The object is gone: retried, then once more with ERROR (but not for the *)
(* spec), then raised.                                                     *)
WriteFails ==
  /\ prov.at \in WriteStages
  /\ ~Exists
  /\ IF prov.tries + 1 < Retries + (IF prov.at = "spec" THEN 0 ELSE 1)
     THEN /\ prov' = [prov EXCEPT !.tries = @ + 1, !.copy = None]
          /\ UNCHANGED configDir
     ELSE CASE prov.at = "spec" -> Doing("specError") /\ UNCHANGED configDir
            [] prov.at \in {"provisioning", "specError"} -> Abandons
            [] prov.at \in {"ready", "error"} -> prov' = Idle /\ UNCHANGED configDir
  /\ UNCHANGED <<cluster, created, machines, up, pq, sq, load, skylet, faults, mixed>>

(* Mutant of Launch: a failure of the cloud is not noticed.                *)
LaunchUnseen ==
  /\ prov.at = "launch"
  /\ configDir' = TRUE
  /\ \/ machines' = machines \cup {0} /\ UNCHANGED faults
     \/ faults < MaxFaults /\ faults' = faults + 1 /\ UNCHANGED machines
  /\ Doing("spec")
  /\ UNCHANGED <<cluster, created, up, pq, sq, load, skylet, mixed>>

(* provision_new_kubernetes_cluster: makedirs raises if the directory is   *)
(* there; the cloud may fail before or after it has started the machine.   *)
Launch ==
  /\ prov.at = "launch"
  /\ \/ /\ configDir
        /\ Abandons
        /\ UNCHANGED <<machines, faults>>
     \/ /\ ~configDir
        /\ configDir' = TRUE
        /\ machines' = machines \cup {0}
        /\ Doing("spec")
        /\ UNCHANGED faults
     \/ /\ ~configDir
        /\ faults < MaxFaults
        /\ faults' = faults + 1
        /\ machines' \in {machines, machines \cup {0}}
        /\ Abandons
  /\ UNCHANGED <<cluster, created, up, pq, sq, load, skylet, mixed>>

(* add_node_to_cluster, a thread for each; what a thread raises is not     *)
(* seen.                                                                   *)
AddNodes ==
  /\ prov.at = "nodes"
  /\ \/ machines' = machines \cup Workers /\ UNCHANGED faults
     \/ /\ faults < MaxFaults
        /\ \E n \in Workers : machines' = machines \cup (Workers \ {n})
        /\ faults' = faults + 1
  /\ Doing("ready")
  /\ UNCHANGED <<cluster, created, configDir, up, pq, sq, load, skylet, mixed>>

Provisioner == TakeAdd \/ TakeDelete \/ WriteGets \/ WritePuts \/ WriteFails \/ Launch \/ AddNodes

-----------------------------------------------------------------------------
(* The skylet controller.                                                  *)

(* launch_skylet: a controller whose manager cannot be made is left out.   *)
NewSkylet(obj) ==
  LET at == IF Constructs(obj.provision) THEN "sleep" ELSE "absent"
  IN  [gen |-> obj.gen, provision |-> obj.provision,
       cc |-> [at |-> at, report |-> "READY", handling |-> FALSE, failures |-> 0, copy |-> None]]

(* _launch_skylet.                                                         *)
LaunchSkylet(obj) == skylet' = IF skylet = None THEN NewSkylet(obj) ELSE skylet

(* _load_clusters: the clusters of the kubeconfig that are not listed are  *)
(* created, and given a skylet before the provisioner has seen them.       *)
Discover ==
  /\ load = "discover"
  /\ load' = "list"
  /\ IF InKubeconfig /\ ~Exists /\ created < MaxCreations
     THEN Add(FALSE) /\ LaunchSkylet(NewObject(created + 1, FALSE))
     ELSE UNCHANGED <<cluster, created, pq, skylet>>
  /\ UNCHANGED <<env, prov, sq, faults, mixed>>

(* ... and all that are listed get one, in whatever state they are.        *)
LoadListed ==
  /\ load = "list"
  /\ load' = "done"
  /\ IF Exists THEN LaunchSkylet(cluster) ELSE UNCHANGED skylet
  /\ mixed' = mixed \cup (IF Exists /\ cluster.status \in {"INIT", "PROVISIONING"}
                         THEN {"muddled"} ELSE {})
  /\ UNCHANGED <<cluster, created, env, provisionerVars, sq, faults>>

OnUpdate ==
  /\ load = "done" /\ sq # << >> /\ Head(sq).type = "UPDATE"
  /\ sq' = Tail(sq)
  /\ LaunchSkylet(Head(sq))
  /\ UNCHANGED <<cluster, created, env, provisionerVars, load, faults, mixed>>

(* Mutant of OnDelete: a skylet whose heartbeat has ended is forgotten.    *)
OnDeleteIfAlive ==
  /\ load = "done" /\ sq # << >> /\ Head(sq).type = "DELETE"
  /\ sq' = Tail(sq)
  /\ skylet' = IF skylet = None \/ skylet.cc.at = "dead" THEN skylet ELSE None
  /\ UNCHANGED <<cluster, created, env, provisionerVars, load, faults, mixed>>

(* _terminate_skylet, by SIGKILL: whatever its threads held is lost.       *)
OnDelete ==
  /\ load = "done" /\ sq # << >> /\ Head(sq).type = "DELETE"
  /\ sq' = Tail(sq)
  /\ skylet' = None
  /\ UNCHANGED <<cluster, created, env, provisionerVars, load, faults, mixed>>

SkyletController == Discover \/ LoadListed \/ OnUpdate \/ OnDelete

-----------------------------------------------------------------------------
(* The cluster controller of the skylet.                                   *)
CC == skylet.cc
Healthy == up /\ (skylet.provision => 0 \in machines)

SetCC(cc) == skylet' = [skylet EXCEPT !.cc = cc]

(* heartbeat_error_handler, after a heartbeat.  The counter is never       *)
(* reset; once it is over the limit, every heartbeat marks the cluster.    *)
(* Its value above the limit does not matter.                              *)
EndBeat(failures) ==
  SetCC([CC EXCEPT !.copy = None, !.failures = failures,
                   !.at = IF failures > RetryLimit /\ ~CC.handling THEN "get" ELSE "sleep",
                   !.handling = failures > RetryLimit /\ ~CC.handling,
                   !.report = IF failures > RetryLimit /\ ~CC.handling THEN "ERROR" ELSE "READY"])

Beat(at) == skylet # None /\ CC.at = at

(* An exception is counted; one of the handler's own ends the thread.      *)
BeatRaises ==
  IF CC.handling THEN SetCC([CC EXCEPT !.at = "dead", !.copy = None])
  ELSE EndBeat(IF CC.failures > RetryLimit THEN CC.failures ELSE CC.failures + 1)

(* get_cluster_status of a cluster that does not answer usually raises in  *)
(* its own handlers, which ask for the capacity again; if that is answered *)
(* it reports ERROR.                                                       *)
BeatReads ==
  /\ Beat("sleep")
  /\ \/ Healthy /\ SetCC([CC EXCEPT !.at = "get"])
     \/ ~Healthy /\ SetCC([CC EXCEPT !.at = "get", !.report = "ERROR"])
     \/ ~Healthy /\ BeatRaises
  /\ UNCHANGED <<cluster, created, env, provisionerVars, sq, load, faults, mixed>>

(* update_healthy_cluster and update_unhealthy_cluster: the get.           *)
BeatGets ==
  /\ Beat("get")
  /\ IF Exists
     THEN SetCC([CC EXCEPT !.at = "put", !.copy = [cluster EXCEPT !.status = CC.report]])
     ELSE BeatRaises
  /\ UNCHANGED <<cluster, created, env, provisionerVars, sq, load, faults, mixed>>

(* ... and the put, refused if an error message is left from before.       *)
BeatPuts ==
  /\ Beat("put")
  /\ IF Exists /\ Valid(CC.copy)
     THEN Put(CC.copy, skylet.gen) /\ EndBeat(CC.failures)
     ELSE BeatRaises /\ UNCHANGED <<cluster, sq, mixed>>
  /\ UNCHANGED <<created, env, provisionerVars, load, faults>>

ClusterController == BeatReads \/ BeatGets \/ BeatPuts

-----------------------------------------------------------------------------
Outage == /\ faults < MaxFaults /\ up
          /\ up' = FALSE /\ faults' = faults + 1
          /\ UNCHANGED <<cluster, created, machines, configDir, provisionerVars, sq, load, skylet, mixed>>

Recovery == /\ ~up /\ up' = TRUE
            /\ UNCHANGED <<cluster, created, machines, configDir, provisionerVars, sq, load, skylet, faults, mixed>>

(* The Sky Manager and its skylets are killed (launch_skyshift.sh --kill)  *)
(* and launched again: the informers fill their caches without calling     *)
(* back, and what was queued or under way is forgotten.                    *)
Restart ==
  /\ faults < MaxFaults
  /\ faults' = faults + 1
  /\ pq' = << >> /\ prov' = Idle
  /\ sq' = << >> /\ load' = "discover"
  /\ skylet' = None
  /\ mixed' = mixed \cup (IF pq # << >> \/ prov # Idle THEN {"forgotten"} ELSE {})
  /\ UNCHANGED <<cluster, created, env>>

Next == \/ \E provision \in Provisions : UserCreates(provision)
        \/ UserDeletes
        \/ Provisioner \/ SkyletController \/ ClusterController
        \/ Outage \/ Recovery \/ Restart

Spec == Init /\ [][Next]_vars

(* Threads run.  Nothing is assumed of users, the cloud and the clusters.  *)
FairSpec == /\ Spec
            /\ WF_vars(Provisioner) /\ WF_vars(SkyletController)
            /\ WF_vars(ClusterController)

-----------------------------------------------------------------------------
AtRest == prov = Idle /\ pq = << >>

(* When the provisioner has handled every deletion, no machine is left of  *)
(* a cluster that is gone, whether its provisioning succeeded, failed      *)
(* halfway or was overtaken by the deletion; unless the Sky Manager was    *)
(* restarted over it, the cloud refused, or an object was overwritten by a *)
(* copy of its predecessor.                                                *)
DeletedClustersLeaveNoMachines ==
  AtRest /\ machines # {} /\ mixed \cap {"forgotten", "kept", "overwritten"} = {} =>
    Exists /\ cluster.provision

(* ... and all parts keep their types.                                     *)
CloudIsSound == TypeOK /\ DeletedClustersLeaveNoMachines

(* The docs' promise without these exceptions.                             *)
MachinesGoWithTheirCluster == AtRest /\ ~Exists => machines = {}

(* In the end a provisioned cluster is READY only if its server runs,      *)
(* although failures come and go and its deletion may overtake its         *)
(* provisioning; unless the Sky Manager was restarted over it, or news or  *)
(* heartbeats of a predecessor of the same name were written to it, or a   *)
(* skylet was started for it before it was provisioned.                    *)
ReadyIsTrueInTheEnd ==
  <>[](/\ Exists /\ cluster.status = "READY" /\ cluster.provision
       /\ mixed \cap {"forgotten", "overwritten", "muddled"} = {}
       => 0 \in machines)

(* In the end a skylet is one of the cluster that there is, through        *)
(* deletions, re-creations, restarts and launches in any state.            *)
SkyletsFollowClusters ==
  <>[](skylet # None /\ "overwritten" \notin mixed => Exists /\ skylet.gen = cluster.gen)

(* In the end a READY cluster has a skylet whose heartbeat runs, unless    *)
(* the skylet was launched for the news or the heartbeat of a predecessor, *)
(* or by a start of the Sky Manager that came upon a cluster not yet       *)
(* provisioned.                                                            *)
ReadyClustersAreServed ==
  <>[](/\ Exists /\ cluster.status = "READY"
       /\ mixed \cap {"overwritten", "muddled"} = {}
       => skylet # None /\ CC.at \notin {"absent", "dead"})

(* A cluster that answers again is READY for good.                         *)
RecoveredClustersAreReady ==
  <>[](Exists /\ skylet # None /\ Healthy /\ CC.at \notin {"absent", "dead"} /\ ~cluster.message)
    => <>[](Exists => cluster.status = "READY")
=============================================================================
