----------------------------- MODULE ServiceMesh -----------------------------
(***************************************************************************)
(* A service whose pods run on several clusters.  Every skylet has an      *)
(* endpoints controller, which counts the pods of its cluster into one     *)
(* shared Endpoints object, and a proxy controller, which exports the      *)
(* service from a cluster with pods and imports it on the primary cluster; *)
(* the primary's service controller reports its address.  All of them put  *)
(* whole objects: endpoints controllers from a copy they have just read,   *)
(* proxy controllers from the event they handle, service controllers from  *)
(* their cache.                                                            *)
(*                                                                         *)
(* There is one name of a service; gen counts its creations.  An event is  *)
(* queued for a controller when the object is written: that an informer    *)
(* brings it later is the time it spends in the queue.                     *)
(***************************************************************************)
EXTENDS Naturals, Sequences, FiniteSets

CONSTANTS Clusters, Primary,
          Pods,      \* Pods[c]: the pods on c that the service selects
          NodePort,  \* the service is of this type
          MaxChanges, MaxFaults \* bounds; a change is one of the users, a
                                \* fault a call to a manager that fails, or a
                                \* cache that is late

ASSUME ServiceMeshAssumption ==
  /\ Primary \in Clusters
  /\ Pods \in [Clusters -> Nat]
  /\ NodePort \in BOOLEAN
  /\ {MaxChanges, MaxFaults} \subseteq Nat

VARIABLES service,   \* the stored service: [gen], or None
          endpoints, \* the stored Endpoints: [gen, of], or None; of[c]: the
                     \*   entry of c
          k8,        \* the clusters with a Kubernetes service for it
          exports,   \* the clusters that export the service
          imports,   \* imports[c]: how often peer c is among the sources of
                     \*   the primary's import
          ec, pc,    \* ec[c], pc[c]: the endpoints and the proxy controller
          sc,        \* the service that the primary's service controller puts
          changes, faults,
          disturbed  \* history: what has come between pods and service

world == <<k8, exports, imports>>
vars == <<service, endpoints, k8, exports, imports, ec, pc, sc, changes, faults, disturbed>>

None == [gen |-> 0]
Others == Clusters \ {Primary}

NoEntry == [num |-> 0, exposed |-> FALSE]   \* a cluster that is not listed
Entry == [num : Nat \ {0}, exposed : BOOLEAN] \cup {NoEntry}

Gens == 1 .. MaxChanges
Service == [gen : Gens]
Endpoints == [gen : Gens, of : [Clusters -> Entry]]

Listed(obj, c) == obj.of[c] # NoEntry

(* overwritten: a put overwrote what its copy does not know; resurrected:  *)
(* a put brought deleted Endpoints back; late: an event came when there    *)
(* were no Endpoints (yet, or any more); crossed: it met those of another  *)
(* creation; unseen: of a service that the cache did not have; failed: a   *)
(* call to a manager failed; repeated: a source was imported once more.    *)
Disturbances == {"overwritten", "resurrected", "late", "crossed", "unseen", "failed", "repeated"}

ServiceEvent == [type : {"ADD", "DELETE"}, gen : Gens]
EndpointsEvent == [type : {"UPDATE", "DELETE"}, obj : Endpoints]

TypeOK ==
  /\ service \in Service \cup {None}
  /\ endpoints \in Endpoints \cup {None}
  /\ k8 \subseteq Clusters /\ exports \subseteq Clusters /\ imports \in [Others -> Nat]
  /\ ec \in [Clusters -> [queue : Seq(ServiceEvent), at : {"idle", "fetch", "put"},
                          event : Seq(ServiceEvent), copy : Endpoints \cup {None},
                          base : Endpoints \cup {None}]]
  /\ pc \in [Clusters -> [queue : Seq(EndpointsEvent), put : Seq(EndpointsEvent),
                          peers : SUBSET Others]]
  /\ sc \in Service \cup {None}
  /\ changes \in 0 .. MaxChanges /\ faults \in 0 .. MaxFaults
  /\ disturbed \subseteq Disturbances

IdleEC == [queue |-> << >>, at |-> "idle", event |-> << >>, copy |-> None, base |-> None]
IdlePC == [queue |-> << >>, put |-> << >>, peers |-> {}]

Init == /\ service = None /\ endpoints = None
        /\ k8 = {} /\ exports = {} /\ imports = [c \in Others |-> 0]
        /\ ec = [c \in Clusters |-> IdleEC]
        /\ pc = [c \in Clusters |-> IdlePC]
        /\ sc = None
        /\ changes = 0 /\ faults = 0
        /\ disturbed = {}

Disturb(kinds) == disturbed' = disturbed \cup kinds
If(condition, kind) == IF condition THEN {kind} ELSE {}

Fail == faults < MaxFaults /\ faults' = faults + 1 /\ Disturb({"failed"})

-----------------------------------------------------------------------------
(* Users.  The events of services go to all endpoints controllers.         *)
Tell(type, obj) ==
  ec' = [c \in Clusters |-> [ec[c] EXCEPT
           !.queue = Append(@, [type |-> type, gen |-> obj.gen])]]

User == changes < MaxChanges /\ changes' = changes + 1

UserCreates ==
  /\ service = None
  /\ User
  /\ service' = [gen |-> changes']
  /\ Tell("ADD", service')
  /\ UNCHANGED <<endpoints, world, pc, sc, faults, disturbed>>

UserDeletes ==
  /\ service # None
  /\ User
  /\ service' = None
  /\ Tell("DELETE", service)
  /\ UNCHANGED <<endpoints, world, pc, sc, faults, disturbed>>

-----------------------------------------------------------------------------
(* Writes of the Endpoints, and update_callback_fn of the proxy            *)
(* controllers.                                                            *)
ProxyWants(c, old, new) ==
  \/ c = Primary
  \/ Listed(old, c) # Listed(new, c)
  \/ Listed(new, c) /\ (old.of[c].num # new.of[c].num \/ ~new.of[c].exposed)

(* The API server looks whether there are Endpoints before it puts, and    *)
(* puts even if they are deleted in between: an addition then, for which   *)
(* proxy controllers have no callback.  pcs: the proxy controllers,        *)
(* without the one that puts.                                              *)
Resurrect(copy, pcs) ==
  /\ endpoints = None
  /\ endpoints' = copy
  /\ pc' = pcs
  /\ Disturb({"resurrected"})

PutEndpoints(copy, base, pcs) ==
  /\ endpoints # None
  /\ endpoints' = copy
  /\ pc' = [c \in Clusters |->
              IF ProxyWants(c, endpoints, copy)
              THEN [pcs[c] EXCEPT !.queue = Append(@, [type |-> "UPDATE", obj |-> copy])]
              ELSE pcs[c]]
  /\ Disturb(If(endpoints # base, "overwritten"))

DeleteEndpoints ==
  /\ endpoints' = None
  /\ pc' = [c \in Clusters |->
              [pc[c] EXCEPT !.queue = Append(@, [type |-> "DELETE", obj |-> endpoints])]]

-----------------------------------------------------------------------------
(* The endpoints controller.                                               *)
TakeServiceEvent(c) ==
  /\ ec[c].at = "idle" /\ ec[c].queue # << >>
  /\ Head(ec[c].queue).type # "DELETE"
  /\ ec' = [ec EXCEPT ![c] = [ec[c] EXCEPT !.queue = Tail(@), !.at = "fetch",
                                           !.event = << Head(ec[c].queue) >>]]
  /\ UNCHANGED <<service, endpoints, world, pc, sc, changes, faults, disturbed>>

DeleteService(c) == \/ k8' = k8 \ {c} /\ UNCHANGED <<faults, disturbed>>
                    \/ Fail /\ UNCHANGED k8

(* The primary's controller deletes the Endpoints, which raises if there   *)
(* are none, and every one the Kubernetes service of its cluster, which    *)
(* may fail.                                                               *)
TakeServiceDelete(c) ==
  /\ ec[c].at = "idle" /\ ec[c].queue # << >>
  /\ Head(ec[c].queue).type = "DELETE"
  /\ ec' = [ec EXCEPT ![c].queue = Tail(@)]
  /\ IF c = Primary
     THEN IF endpoints # None
          THEN DeleteEndpoints /\ DeleteService(c)
          ELSE Disturb({"late"}) /\ UNCHANGED <<endpoints, pc, k8, faults>>
     ELSE DeleteService(c) /\ UNCHANGED <<endpoints, pc>>
  /\ UNCHANGED <<service, exports, imports, sc, changes>>

(* _create_or_update_endpoint on obj, the Endpoints it has created or got: *)
(* the entry of c, and what becomes of its Kubernetes service.             *)
EventOf(c) == ec[c].event[1]

WithEntry(c, obj) ==
  IF obj.of[c].num = Pods[c] THEN obj
  ELSE [obj EXCEPT !.of[c] = [num |-> Pods[c], exposed |-> FALSE]]

(* Mutant of K8After: looks at the Endpoints after the entry is written.   *)
K8AfterEntry(c, obj) ==
  IF Pods[c] > 0 /\ ~Listed(WithEntry(c, obj), c) /\ ~NodePort THEN k8 \cup {c}
  ELSE IF Pods[c] = 0 /\ Listed(obj, c) THEN k8 \ {c}
  ELSE k8

K8After(c, obj) ==
  IF Pods[c] > 0 /\ ~Listed(obj, c) /\ ~NodePort THEN k8 \cup {c}
  ELSE IF Pods[c] = 0 /\ Listed(obj, c) THEN k8 \ {c}
  ELSE k8

Fetched(c, obj) ==
  ec' = [ec EXCEPT ![c] = [ec[c] EXCEPT !.at = "put", !.base = obj, !.copy = WithEntry(c, obj)]]

Create(c) ==
  /\ c = Primary /\ endpoints = None
  /\ endpoints' = [gen |-> EventOf(c).gen, of |-> [d \in Clusters |-> NoEntry]]

CreateEndpoints(c) ==
  /\ ec[c].at = "fetch" /\ Create(c)
  /\ Fetched(c, endpoints')
  /\ k8' = K8After(c, endpoints') \cup {c}
  /\ UNCHANGED <<service, exports, imports, pc, sc, changes, faults, disturbed>>

FetchEndpoints(c) ==
  /\ ec[c].at = "fetch" /\ endpoints # None
  /\ Fetched(c, endpoints)
  /\ k8' = K8After(c, endpoints)
  /\ Disturb(If(endpoints.gen # EventOf(c).gen, "crossed"))
  /\ UNCHANGED <<service, endpoints, exports, imports, pc, sc, changes, faults>>

(* A call to Kubernetes raises: the event is lost, and the Endpoints, or   *)
(* the primary's Kubernetes service too, may have been created before.     *)
KubernetesRaises(c) ==
  /\ ec[c].at = "fetch"
  /\ \/ Create(c) /\ k8' \in {k8, k8 \cup {c}}
     \/ endpoints # None /\ UNCHANGED <<endpoints, k8>>
  /\ ec' = [ec EXCEPT ![c] = [IdleEC EXCEPT !.queue = ec[c].queue]]
  /\ Fail
  /\ UNCHANGED <<service, exports, imports, pc, sc, changes>>

(* _retry_until_fetch_object gives up, and the event is lost.              *)
FetchGivesUp(c) ==
  /\ ec[c].at = "fetch" /\ c # Primary /\ endpoints = None
  /\ ec' = [ec EXCEPT ![c] = [IdleEC EXCEPT !.queue = ec[c].queue]]
  /\ Disturb({"late"})
  /\ UNCHANGED <<service, endpoints, world, pc, sc, changes, faults>>

(* An update that is refused puts the event back into the queue.           *)
PutFetched(c) ==
  /\ ec[c].at = "put"
  /\ \/ /\ \/ PutEndpoints(ec[c].copy, ec[c].base, pc)
           \/ Resurrect(ec[c].copy, pc)
        /\ ec' = [ec EXCEPT ![c] = [IdleEC EXCEPT !.queue = ec[c].queue]]
     \/ /\ endpoints = None
        /\ ec' = [ec EXCEPT ![c] = [IdleEC EXCEPT !.queue = Append(ec[c].queue, EventOf(c))]]
        /\ UNCHANGED <<endpoints, pc, disturbed>>
  /\ UNCHANGED <<service, world, sc, changes, faults>>

EndpointsController(c) ==
  \/ TakeServiceEvent(c) \/ TakeServiceDelete(c) \/ CreateEndpoints(c) \/ FetchEndpoints(c)
  \/ KubernetesRaises(c) \/ FetchGivesUp(c) \/ PutFetched(c)

-----------------------------------------------------------------------------
(* The proxy controller.                                                   *)
IsNext(c, type) == /\ pc[c].put = << >> /\ pc[c].peers = {} /\ pc[c].queue # << >>
                   /\ Head(pc[c].queue).type = type

NextObject(c) == Head(pc[c].queue).obj
Taken(c) == [pc EXCEPT ![c].queue = Tail(@)]

ExposedOthers(obj) == {c \in Others : obj.of[c].exposed}

(* Mutant of Unpublish: only clusters that are exposed take their export   *)
(* back.                                                                   *)
UnpublishExposed(c) ==
  /\ IsNext(c, "DELETE")
  /\ IF c = Primary
     THEN /\ pc' = [Taken(c) EXCEPT ![c].peers = ExposedOthers(NextObject(c))]
          /\ UNCHANGED <<exports, faults, disturbed>>
     ELSE /\ pc' = Taken(c)
          /\ exports' = IF NextObject(c).of[c].exposed THEN exports \ {c} ELSE exports
          /\ UNCHANGED <<faults, disturbed>>
  /\ UNCHANGED <<service, endpoints, k8, imports, ec, sc, changes>>

(* The Endpoints are gone: the primary goes through the peers it imported  *)
(* from, the others take their exports back.                               *)
Unpublish(c) ==
  /\ IsNext(c, "DELETE")
  /\ IF c = Primary
     THEN /\ pc' = [Taken(c) EXCEPT ![c].peers = ExposedOthers(NextObject(c))]
          /\ UNCHANGED <<exports, faults, disturbed>>
     ELSE /\ pc' = Taken(c)
          /\ \/ /\ exports' = IF Listed(NextObject(c), c) THEN exports \ {c} ELSE exports
                /\ UNCHANGED <<faults, disturbed>>
             \/ Listed(NextObject(c), c) /\ Fail /\ UNCHANGED exports
  /\ UNCHANGED <<service, endpoints, k8, imports, ec, sc, changes>>

(* delete_import_service: one occurrence of the peer is taken from the     *)
(* sources if they are several, which raises, and ends the loop, if there  *)
(* is none; else the import is deleted, whichever peer is its source.      *)
SeveralSources == \/ \E d \in Others : imports[d] > 1
                  \/ \E d, e \in Others : d # e /\ imports[d] > 0 /\ imports[e] > 0

DeleteImport(c, peer) ==
  /\ peer \in pc[c].peers
  /\ IF SeveralSources /\ imports[peer] = 0
     THEN pc' = [pc EXCEPT ![c].peers = {}] /\ UNCHANGED <<imports, faults, disturbed>>
     ELSE /\ pc' = [pc EXCEPT ![c].peers = @ \ {peer}]
          /\ \/ /\ imports' = IF SeveralSources THEN [imports EXCEPT ![peer] = @ - 1]
                                                ELSE [d \in Others |-> 0]
                /\ UNCHANGED <<faults, disturbed>>
             \/ Fail /\ UNCHANGED imports
  /\ UNCHANGED <<service, endpoints, k8, exports, ec, sc, changes>>

(* The ports are those of the service in the cache, which another informer *)
(* fills; if that is late, the event is lost to a KeyError.                *)
ServiceUnknown(c) ==
  /\ IsNext(c, "UPDATE")
  /\ faults < MaxFaults /\ faults' = faults + 1
  /\ pc' = Taken(c)
  /\ Disturb({"unseen"})
  /\ UNCHANGED <<service, endpoints, world, ec, sc, changes>>

(* import_service: every peer that is exposed is appended to the sources,  *)
(* again if it is among them; some of the calls may fail.                  *)
Import(c) ==
  /\ IsNext(c, "UPDATE") /\ c = Primary
  /\ pc' = Taken(c)
  /\ \E failing \in SUBSET ExposedOthers(NextObject(c)) :
       LET imported == ExposedOthers(NextObject(c)) \ failing
       IN  /\ imports' = [d \in Others |-> imports[d] + (IF d \in imported THEN 1 ELSE 0)]
           /\ IF failing = {}
              THEN /\ Disturb(If(\E d \in imported : imports[d] > 0, "repeated"))
                   /\ UNCHANGED faults
              ELSE Fail
  /\ UNCHANGED <<service, endpoints, k8, exports, ec, sc, changes>>

Wanted(c) == Listed(NextObject(c), c) /\ ~NextObject(c).of[c].exposed

Skip(c) ==
  /\ IsNext(c, "UPDATE") /\ c # Primary /\ ~Wanted(c)
  /\ pc' = Taken(c)
  /\ UNCHANGED <<service, endpoints, world, ec, sc, changes, faults, disturbed>>

(* _export_service, whose failure is not looked at.                        *)
Export(c) ==
  /\ IsNext(c, "UPDATE") /\ c # Primary /\ Wanted(c)
  /\ pc' = [pc EXCEPT ![c].put = << Head(pc[c].queue) >>, ![c].queue = Tail(@)]
  /\ \/ exports' = exports \cup {c} /\ UNCHANGED <<faults, disturbed>>
     \/ Fail /\ UNCHANGED exports
  /\ UNCHANGED <<service, endpoints, k8, imports, ec, sc, changes>>

(* Mutant of PutExposed: the event is put as it came.                      *)
PutExposedUnset(c) ==
  /\ pc[c].put # << >>
  /\ LET obj == pc[c].put[1].obj
         done == [pc EXCEPT ![c].put = << >>]
     IN  IF endpoints # None
         THEN PutEndpoints(obj, obj, done)
         ELSE pc' = done /\ UNCHANGED <<endpoints, disturbed>>
  /\ UNCHANGED <<service, world, ec, sc, changes, faults>>

(* ... and then the Endpoints of the event are put, with the cluster       *)
(* exposed; an update that is refused raises.                              *)
PutExposed(c) ==
  /\ pc[c].put # << >>
  /\ LET obj == pc[c].put[1].obj
         exposed == [obj EXCEPT !.of[c].exposed = TRUE]
         done == [pc EXCEPT ![c].put = << >>]
     IN  \/ PutEndpoints(exposed, obj, done) \/ Resurrect(exposed, done)
         \/ endpoints = None /\ pc' = done /\ UNCHANGED <<endpoints, disturbed>>
  /\ UNCHANGED <<service, world, ec, sc, changes, faults>>

ProxyController(c) == \/ Unpublish(c) \/ ServiceUnknown(c) \/ Import(c) \/ Skip(c)
                      \/ Export(c) \/ PutExposed(c) \/ \E d \in Others : DeleteImport(c, d)

-----------------------------------------------------------------------------
(* The service controller of the primary, whose cache may be behind when   *)
(* it puts.  The address that it reports is left out.                      *)
ReportCopies ==
  /\ sc = None
  /\ service # None /\ Primary \in k8
  /\ sc' = service
  /\ UNCHANGED <<service, endpoints, world, ec, pc, changes, faults, disturbed>>

(* update_svc: what it copied is put, whatever is there now.               *)
ReportPuts ==
  /\ sc # None
  /\ sc' = None
  /\ IF service # None
     THEN /\ service' = sc
          /\ Disturb(If(sc.gen # service.gen, "crossed"))
     ELSE UNCHANGED <<service, disturbed>>
  /\ UNCHANGED <<endpoints, world, ec, pc, changes, faults>>

-----------------------------------------------------------------------------
Next == \/ UserCreates \/ UserDeletes
        \/ \E c \in Clusters : EndpointsController(c) \/ ProxyController(c)
        \/ ReportCopies \/ ReportPuts

Spec == Init /\ [][Next]_vars

(* Threads run.                                                            *)
FairSpec == /\ Spec
            /\ \A c \in Clusters : /\ WF_vars(EndpointsController(c))
                                   /\ WF_vars(ProxyController(c))
            /\ WF_vars(ReportCopies \/ ReportPuts)

-----------------------------------------------------------------------------
AtRest == \A c \in Clusters : /\ ec[c].at = "idle" /\ ec[c].queue = << >>
                              /\ pc[c] = IdlePC

Imported == {c \in Others : imports[c] > 0}

(* When the controllers have nothing left to do, the Endpoints of a        *)
(* service list exactly the clusters with pods, all of them but the        *)
(* primary export it, the primary imports it from exactly these, and every *)
(* one has a Kubernetes service for it; unless one of the disturbances     *)
(* happened, a repeated import aside.                                      *)
ServiceReachesItsPods ==
  AtRest /\ service # None /\ disturbed \subseteq {"repeated"} =>
    LET there == {c \in Clusters : Pods[c] > 0}
    IN  /\ endpoints # None
        /\ \A c \in Clusters : endpoints.of[c].num = Pods[c]
        /\ Imported = there \ {Primary}
        /\ Imported \subseteq exports
        /\ (IF NodePort THEN {} ELSE there) \cup {Primary} \subseteq k8

(* ... and all parts keep their types.                                     *)
MeshIsSound == TypeOK /\ ServiceReachesItsPods

(* A deleted service leaves no Endpoints, no export and no Kubernetes      *)
(* service on any cluster, deleted at any moment, with the same            *)
(* exceptions; and no import, unless a source of it was imported again.    *)
DeletedServicesLeaveNothing ==
  AtRest /\ service = None /\ disturbed \subseteq {"repeated"} =>
    /\ endpoints = None /\ exports = {} /\ k8 = {}
    /\ disturbed = {} => Imported = {}

(* The controllers stop answering each other's writes.                     *)
ControllersSettle == <>[]AtRest
=============================================================================
