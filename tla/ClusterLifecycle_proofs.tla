----------------------- MODULE ClusterLifecycle_proofs -----------------------
(***************************************************************************)
(* ClusterLifecycle, for any numbers of nodes, creations, retries and      *)
(* faults: no machines without a cluster that needs them, or an event that *)
(* will remove them.                                                       *)
(***************************************************************************)
EXTENDS ClusterLifecycle, SequenceTheorems, TLAPS

Stages == {"idle", "launch", "nodes"} \cup WriteStages
Prov == [at : Stages, obj : Object \cup {None}, tries : 0 .. Retries, copy : Object \cup {None}]
ProvisionerEvent == [type : {"ADD", "DELETE"}, obj : Object]
SkyletEvent == [type : {"UPDATE", "DELETE"}, gen : 1 .. MaxCreations, provision : BOOLEAN]
Heart == [at : {"absent", "sleep", "get", "put", "dead"}, report : {"READY", "ERROR"},
          handling : BOOLEAN, failures : 0 .. RetryLimit + 1, copy : Object \cup {None}]
Skylet == [gen : 1 .. MaxCreations, provision : BOOLEAN, cc : Heart]
\* A skylet about to put has a copy.
Living == {s \in Skylet : s.cc.at = "put" => s.cc.copy # None}
Mixtures == {"overwritten", "muddled", "forgotten", "kept"}

(* The types, by the part of the system that keeps them.                   *)
StoreFits == /\ cluster \in Object \cup {None} /\ (Exists => Valid(cluster))
             /\ created \in 0 .. MaxCreations

CloudFits == /\ machines \subseteq Nodes /\ configDir \in BOOLEAN /\ up \in BOOLEAN
             /\ faults \in 0 .. MaxFaults

\* What the provisioner is going to put is valid: it keeps the error message
\* only with the status ERROR.
ProvisionerFits == /\ pq \in Seq(ProvisionerEvent) /\ prov \in Prov
                   /\ prov.copy # None => Valid(prov.copy)

SkyletFits == /\ sq \in Seq(SkyletEvent) /\ load \in {"discover", "list", "done"}
              /\ skylet = None \/ skylet \in Living

Typed == StoreFits /\ CloudFits /\ ProvisionerFits /\ SkyletFits /\ mixed \subseteq Mixtures

LEMMA TypedIsTypeOK == Typed => TypeOK
  BY DEF Typed, StoreFits, CloudFits, ProvisionerFits, SkyletFits, TypeOK, Prov, ProvisionerEvent,
         SkyletEvent, Heart, Skylet, Living, Mixtures, Stages

-----------------------------------------------------------------------------
(* The store.                                                              *)
LEMMA NewObjects ==
  ASSUME Typed, created < MaxCreations, NEW provision \in BOOLEAN
  PROVE  /\ NewObject(created + 1, provision) \in Object
         /\ Valid(NewObject(created + 1, provision))
         /\ created + 1 \in 0 .. MaxCreations
  BY ClusterAssumption DEF Typed, StoreFits, NewObject, Object, Valid, Statuses

LEMMA UpdatedTyped ==
  ASSUME Typed, NEW obj \in Object
  PROVE  Updated(obj) \in Seq(SkyletEvent)
  <1> DEFINE event == [type |-> "UPDATE", gen |-> obj.gen, provision |-> obj.provision]
  <1>1. event \in SkyletEvent
    BY DEF SkyletEvent, Object
  <1>2. sq \in Seq(SkyletEvent)
    BY DEF Typed, SkyletFits
  <1>3. Updated(obj) = Append(sq, event) \/ Updated(obj) = sq
    BY DEF Updated
  <1> HIDE DEF event
  <1>4. Append(sq, event) \in Seq(SkyletEvent)
    BY <1>1, <1>2, AppendProperties
  <1> QED
    BY <1>2, <1>3, <1>4

LEMMA PutTyped ==
  ASSUME Typed, NEW obj \in Object, Valid(obj), NEW gen, Put(obj, gen), created' = created
  PROVE  StoreFits' /\ sq' \in Seq(SkyletEvent) /\ mixed' \subseteq Mixtures
  BY UpdatedTyped DEF Put, Typed, StoreFits, Exists, Mixtures

LEMMA AddTyped ==
  ASSUME Typed, NEW provision \in BOOLEAN, Add(provision)
  PROVE  StoreFits' /\ pq' \in Seq(ProvisionerEvent)
  <1>1. /\ NewObject(created + 1, provision) \in Object
        /\ Valid(NewObject(created + 1, provision))
        /\ created + 1 \in 0 .. MaxCreations
    BY NewObjects DEF Add
  <1> DEFINE event == [type |-> "ADD", obj |-> NewObject(created + 1, provision)]
  <1>2. event \in ProvisionerEvent
    BY <1>1 DEF ProvisionerEvent
  <1>3. pq \in Seq(ProvisionerEvent) /\ pq' = Append(pq, event)
    BY DEF Typed, ProvisionerFits, Add
  <1> HIDE DEF event
  <1>4. pq' \in Seq(ProvisionerEvent)
    BY <1>2, <1>3, AppendProperties
  <1> QED
    BY <1>1, <1>4 DEF Add, StoreFits, Exists

LEMMA UserTyped ==
  ASSUME Typed, UserDeletes \/ \E provision \in Provisions : UserCreates(provision)
  PROVE  Typed'
  <1>1. ASSUME NEW provision \in Provisions, UserCreates(provision)
        PROVE  Typed'
    BY <1>1, AddTyped, ClusterAssumption DEF UserCreates, env, Typed, CloudFits, ProvisionerFits,
                                             SkyletFits
  <1>2. CASE UserDeletes
    <2>1. cluster \in Object
      BY <1>2 DEF UserDeletes, Exists, Typed, StoreFits
    <2> DEFINE p == [type |-> "DELETE", obj |-> cluster]
               s == [type |-> "DELETE", gen |-> cluster.gen, provision |-> cluster.provision]
    <2>2. p \in ProvisionerEvent /\ s \in SkyletEvent
      BY <2>1 DEF ProvisionerEvent, SkyletEvent, Object
    <2>3. pq' = Append(pq, p) /\ sq' = Append(sq, s)
      BY <1>2 DEF UserDeletes
    <2> HIDE DEF p, s
    <2>4. pq' \in Seq(ProvisionerEvent) /\ sq' \in Seq(SkyletEvent)
      BY <2>2, <2>3, AppendProperties DEF Typed, ProvisionerFits, SkyletFits
    <2> QED
      BY <1>2, <2>4 DEF UserDeletes, env, Typed, StoreFits, Exists, CloudFits, ProvisionerFits,
                        SkyletFits
  <1> QED
    BY <1>1, <1>2

-----------------------------------------------------------------------------
(* The provisioner.                                                        *)
LEMMA IdleTyped == /\ Idle \in Prov /\ Idle.at = "idle" /\ Idle.copy = None
  BY ClusterAssumption DEF Idle, Prov, Stages

LEMMA DoingTyped ==
  ASSUME Typed, NEW at \in Stages, Doing(at)
  PROVE  prov' \in Prov /\ prov'.at = at /\ prov'.copy = None
  <1>1. prov \in Prov
    BY DEF Typed, ProvisionerFits
  <1>2. 0 \in 0 .. Retries
    BY ClusterAssumption
  <1>3. prov' = [[[prov EXCEPT !.at = at] EXCEPT !.tries = 0] EXCEPT !.copy = None]
    BY DEF Doing
  <1> QED
    BY <1>1, <1>2, <1>3 DEF Prov

(* The events of the queue, the first and the others.                      *)
LEMMA FirstTyped ==
  ASSUME Typed, pq # << >>
  PROVE  /\ Head(pq) \in ProvisionerEvent /\ Tail(pq) \in Seq(ProvisionerEvent)
         /\ Head(pq).obj \in Object
  <1>1. Head(pq) \in ProvisionerEvent /\ Tail(pq) \in Seq(ProvisionerEvent)
    BY HeadTailProperties DEF Typed, ProvisionerFits
  <1> QED
    BY <1>1 DEF ProvisionerEvent

LEMMA TakeAddMoves ==
  ASSUME Typed, TakeAdd
  PROVE  /\ prov' \in Prov /\ prov'.copy = None
         /\ prov'.at \in {"provisioning", "ready", "error"}
         /\ prov'.at = "provisioning" => Head(pq).obj.provision
  <1> DEFINE obj == Head(pq).obj
             at == IF obj.provision THEN "provisioning"
                   ELSE IF Constructs(FALSE) THEN "ready" ELSE "error"
  <1>1. obj \in Object
    BY FirstTyped DEF TakeAdd
  <1>2. at \in {"provisioning", "ready", "error"} /\ (at = "provisioning" => obj.provision)
    OBVIOUS
  <1>3. prov' = [[Idle EXCEPT !.obj = obj] EXCEPT !.at = at]
    BY DEF TakeAdd
  <1> HIDE DEF obj, at
  <1>4. prov' \in Prov /\ prov'.copy = None /\ prov'.at = at
    BY <1>1, <1>2, <1>3, IdleTyped DEF Prov, Stages, WriteStages
  <1> QED
    BY <1>2, <1>4 DEF obj

LEMMA WriteGetsMoves ==
  ASSUME Typed, WriteGets
  PROVE  /\ prov' \in Prov /\ prov'.at = prov.at
         /\ prov'.copy \in Object /\ Valid(prov'.copy)
         /\ prov'.copy.gen = cluster.gen /\ prov'.copy.provision = cluster.provision
  <1> DEFINE stage == prov.at
             message == MessageAt(stage) /\ StatusAt(stage) = "ERROR"
             written == [[cluster EXCEPT !.status = StatusAt(stage)] EXCEPT !.message = message]
             copy == IF stage = "spec" THEN cluster ELSE written
  <1>1. cluster \in Object /\ Valid(cluster) /\ prov \in Prov
    BY DEF WriteGets, Exists, Typed, StoreFits, ProvisionerFits
  <1>2. stage # "spec" => StatusAt(stage) \in Statuses
    BY DEF WriteGets, WriteStages, StatusAt, Statuses
  <1>3. message \in BOOLEAN
    BY DEF MessageAt
  <1>4. stage # "spec" => /\ written \in Object /\ Valid(written)
                          /\ written.gen = cluster.gen /\ written.provision = cluster.provision
    <2> HIDE DEF message, stage
    <2>1. stage # "spec" => /\ written \in Object
                            /\ written.status = StatusAt(stage) /\ written.message = message
                            /\ written.gen = cluster.gen /\ written.provision = cluster.provision
      BY <1>1, <1>2, <1>3 DEF Object
    <2> QED
      BY <2>1 DEF Valid, message
  <1>5. /\ copy \in Object /\ Valid(copy)
        /\ copy.gen = cluster.gen /\ copy.provision = cluster.provision
    BY <1>1, <1>4
  <1>6. prov' = [prov EXCEPT !.copy = copy]
    BY DEF WriteGets
  <1> HIDE DEF copy
  <1>7. prov' \in Prov /\ prov'.at = prov.at /\ prov'.copy = copy
    BY <1>1, <1>5, <1>6 DEF Prov
  <1> QED
    BY <1>5, <1>7

LEMMA WritePutsMoves ==
  ASSUME Typed, WritePuts
  PROVE  /\ prov.copy \in Object /\ Valid(prov.copy)
         /\ prov' \in Prov /\ prov'.copy = None
         /\ \/ prov.at \in {"ready", "error"} /\ prov'.at = "idle"
            \/ prov.at \in {"provisioning", "spec", "specError"} /\ prov'.at \in {"launch", "nodes"}
  <1>1. prov.copy \in Object /\ Valid(prov.copy)
    BY DEF WritePuts, Typed, ProvisionerFits, Prov
  <1>2. CASE prov.at \in {"ready", "error"}
    <2>1. prov' = Idle
      BY <1>2 DEF WritePuts, After
    <2> QED
      BY <1>1, <1>2, <2>1, IdleTyped
  <1>3. CASE prov.at \in {"provisioning", "spec", "specError"}
    <2>1. PICK at \in {"launch", "nodes"} : Doing(at)
      BY <1>3 DEF WritePuts, After
    <2>2. prov' \in Prov /\ prov'.at = at /\ prov'.copy = None
      BY <2>1, DoingTyped DEF Stages
    <2> QED
      BY <1>1, <1>3, <2>1, <2>2
  <1> QED
    BY <1>2, <1>3 DEF WritePuts, WriteStages

LEMMA WriteFailsMoves ==
  ASSUME Typed, WriteFails
  PROVE  /\ prov' \in Prov /\ prov'.copy = None /\ configDir' \in BOOLEAN
         /\ \/ prov'.at \in {prov.at, "error", "idle"}
            \/ prov'.at = "specError" /\ prov.at = "spec"
  <1>1. prov \in Prov
    BY DEF Typed, ProvisionerFits
  <1>4. configDir' \in BOOLEAN
    <2>1. configDir' = configDir \/ configDir' = FALSE
      BY DEF WriteFails, Abandons, WriteStages
    <2> QED
      BY <2>1, Zenon DEF Typed, CloudFits
  <1>2. CASE prov.tries + 1 < Retries + (IF prov.at = "spec" THEN 0 ELSE 1)
    <2>1. prov.tries + 1 \in 0 .. Retries
      BY <1>1, <1>2, ClusterAssumption DEF Prov
    <2>2. prov' = [[prov EXCEPT !.tries = prov.tries + 1] EXCEPT !.copy = None]
      BY <1>1, <1>2 DEF WriteFails, Prov
    <2>3. prov' \in Prov /\ prov'.at = prov.at /\ prov'.copy = None
      BY <1>1, <2>1, <2>2 DEF Prov
    <2> QED
      BY <1>4, <2>3
  <1>3. CASE ~(prov.tries + 1 < Retries + (IF prov.at = "spec" THEN 0 ELSE 1))
    <2>1. CASE prov.at = "spec"
      <3>1. Doing("specError")
        BY <1>3, <2>1 DEF WriteFails
      <3> QED
        BY <1>4, <2>1, <3>1, DoingTyped DEF Stages, WriteStages
    <2>2. CASE prov.at \in {"provisioning", "specError"}
      <3>1. Doing("error")
        BY <1>3, <2>2 DEF WriteFails, Abandons
      <3> QED
        BY <1>4, <2>2, <3>1, DoingTyped DEF Stages, WriteStages
    <2>3. CASE prov.at \in {"ready", "error"}
      <3>1. prov' = Idle
        BY <1>3, <2>3 DEF WriteFails
      <3> QED
        BY <1>4, <3>1, IdleTyped
    <2> QED
      BY <2>1, <2>2, <2>3 DEF WriteFails, WriteStages
  <1> QED
    BY <1>2, <1>3

LEMMA CloudMoves ==
  ASSUME Typed, Launch \/ AddNodes
  PROVE  /\ prov' \in Prov /\ prov'.copy = None
         /\ prov.at \in {"launch", "nodes"}
         /\ prov'.at \in {"spec", "error", "ready"}
         /\ CloudFits'
  <1>1. PICK at \in {"spec", "error", "ready"} : Doing(at)
    BY DEF Launch, AddNodes, Abandons
  <1>2. prov' \in Prov /\ prov'.copy = None /\ prov'.at = at
    BY <1>1, DoingTyped DEF Stages, WriteStages
  <1>3. 0 \in Nodes /\ Workers \subseteq Nodes
    BY ClusterAssumption DEF Nodes, Workers
  <1>5. machines' \subseteq Nodes /\ faults' \in 0 .. MaxFaults /\ up' = up
    BY <1>3, ClusterAssumption DEF Launch, AddNodes, Typed, CloudFits
  <1>6. configDir' = configDir \/ configDir' = FALSE \/ configDir' = TRUE
    BY DEF Launch, AddNodes, Abandons
  <1>4. CloudFits'
    BY <1>5, <1>6, Zenon DEF Typed, CloudFits
  <1> QED
    BY <1>1, <1>2, <1>4 DEF Launch, AddNodes

LEMMA ProvisionerTyped ==
  ASSUME Typed, Provisioner
  PROVE  Typed'
  <1> USE DEF Typed, env
  <1>1. CASE TakeAdd
    <2>1. ProvisionerFits'
      BY <1>1, TakeAddMoves, FirstTyped DEF TakeAdd, ProvisionerFits
    <2> QED
      BY <1>1, <2>1 DEF TakeAdd, StoreFits, Exists, CloudFits, SkyletFits
  <1>2. CASE TakeDelete
    <2>1. ProvisionerFits'
      BY <1>2, FirstTyped DEF TakeDelete, ProvisionerFits
    <2>3. machines' \subseteq Nodes /\ faults' \in 0 .. MaxFaults /\ up' = up
      BY <1>2, ClusterAssumption DEF TakeDelete, CloudFits
    <2>4. configDir' = configDir \/ configDir' = FALSE
      BY <1>2 DEF TakeDelete
    <2>5. CloudFits'
      BY <2>3, <2>4, Zenon DEF CloudFits
    <2>2. CloudFits' /\ mixed' \subseteq Mixtures
      BY <1>2, <2>5 DEF TakeDelete, Mixtures
    <2> QED
      BY <1>2, <2>1, <2>2 DEF TakeDelete, StoreFits, Exists, SkyletFits
  <1>3. CASE WriteGets
    <2>1. ProvisionerFits'
      BY <1>3, WriteGetsMoves DEF WriteGets, ProvisionerFits
    <2> QED
      BY <1>3, <2>1 DEF WriteGets, StoreFits, Exists, CloudFits, SkyletFits
  <1>4. CASE WritePuts
    <2>1. StoreFits' /\ sq' \in Seq(SkyletEvent) /\ mixed' \subseteq Mixtures
      BY <1>4, WritePutsMoves, PutTyped DEF WritePuts
    <2>2. ProvisionerFits'
      BY <1>4, WritePutsMoves DEF WritePuts, ProvisionerFits
    <2> QED
      BY <1>4, <2>1, <2>2 DEF WritePuts, CloudFits, SkyletFits
  <1>5. CASE WriteFails
    <2>1. ProvisionerFits' /\ CloudFits'
      BY <1>5, WriteFailsMoves DEF WriteFails, ProvisionerFits, CloudFits
    <2> QED
      BY <1>5, <2>1 DEF WriteFails, StoreFits, Exists, SkyletFits
  <1>6. CASE Launch \/ AddNodes
    <2>1. ProvisionerFits' /\ CloudFits'
      BY <1>6, CloudMoves DEF Launch, AddNodes, ProvisionerFits
    <2> QED
      BY <1>6, <2>1 DEF Launch, AddNodes, StoreFits, Exists, SkyletFits
  <1> QED
    BY <1>1, <1>2, <1>3, <1>4, <1>5, <1>6 DEF Provisioner

-----------------------------------------------------------------------------
(* The skylets.                                                            *)
LEMMA LaunchSkyletTyped ==
  ASSUME Typed, NEW obj, obj.gen \in 1 .. MaxCreations, obj.provision \in BOOLEAN,
         LaunchSkylet(obj)
  PROVE  /\ skylet' = None \/ skylet' \in Living
         /\ skylet' = skylet \/ skylet'.cc.copy = None
  <1> DEFINE at == IF Constructs(obj.provision) THEN "sleep" ELSE "absent"
             cc == [at |-> at, report |-> "READY", handling |-> FALSE, failures |-> 0, copy |-> None]
             new == [gen |-> obj.gen, provision |-> obj.provision, cc |-> cc]
  <1>1. at \in {"sleep", "absent"}
    OBVIOUS
  <1>2. cc \in Heart /\ cc.copy = None /\ cc.at # "put"
    <2> HIDE DEF at
    <2> QED
      BY <1>1, ClusterAssumption DEF Heart
  <1>3. new \in Living /\ new.cc = cc
    <2> HIDE DEF cc
    <2> QED
      BY <1>2 DEF Skylet, Living
  <1>4. skylet' = skylet \/ skylet' = new
    BY DEF LaunchSkylet, NewSkylet
  <1> HIDE DEF new, cc
  <1> QED
    BY <1>2, <1>3, <1>4 DEF Typed, SkyletFits

LEMMA SkyletControllerTyped ==
  ASSUME Typed, SkyletController
  PROVE  /\ Typed'
         /\ skylet' = skylet \/ skylet' = None \/ skylet'.cc.copy = None
  <1> USE DEF Typed, env, provisionerVars
  <1>1. CASE Discover
    <2>1. CASE InKubeconfig /\ ~Exists /\ created < MaxCreations
      <3>1. Add(FALSE) /\ LaunchSkylet(NewObject(created + 1, FALSE))
        BY <1>1, <2>1 DEF Discover
      <3>2. NewObject(created + 1, FALSE) \in Object
        BY <2>1, NewObjects
      <3>3. /\ skylet' = None \/ skylet' \in Living
            /\ skylet' = skylet \/ skylet'.cc.copy = None
        BY <3>1, <3>2, LaunchSkyletTyped DEF Object
      <3>4. StoreFits' /\ pq' \in Seq(ProvisionerEvent)
        BY <3>1, AddTyped
      <3> QED
        BY <1>1, <3>3, <3>4 DEF Discover, CloudFits, ProvisionerFits, SkyletFits
    <2>2. CASE ~(InKubeconfig /\ ~Exists /\ created < MaxCreations)
      BY <1>1, <2>2 DEF Discover, StoreFits, Exists, CloudFits, ProvisionerFits, SkyletFits
    <2> QED
      BY <2>1, <2>2
  <1>2. CASE LoadListed
    <2>1. /\ skylet' = None \/ skylet' \in Living
          /\ skylet' = skylet \/ skylet'.cc.copy = None
      <3>1. CASE Exists
        <4>1. cluster \in Object /\ LaunchSkylet(cluster)
          BY <1>2, <3>1 DEF LoadListed, StoreFits, Exists
        <4> QED
          BY <4>1, LaunchSkyletTyped DEF Object
      <3>2. CASE ~Exists
        BY <1>2, <3>2 DEF LoadListed, SkyletFits
      <3> QED
        BY <3>1, <3>2
    <2>2. mixed' \subseteq Mixtures
      BY <1>2 DEF LoadListed, Mixtures
    <2> QED
      BY <1>2, <2>1, <2>2 DEF LoadListed, StoreFits, Exists, CloudFits, ProvisionerFits, SkyletFits
  <1>3. CASE OnUpdate \/ OnDelete
    <2>1. Head(sq) \in SkyletEvent /\ Tail(sq) \in Seq(SkyletEvent)
      BY <1>3, HeadTailProperties DEF OnUpdate, OnDelete, SkyletFits
    <2>2. /\ skylet' = None \/ skylet' \in Living
          /\ skylet' = skylet \/ skylet' = None \/ skylet'.cc.copy = None
      BY <1>3, <2>1, LaunchSkyletTyped DEF OnUpdate, OnDelete, SkyletEvent
    <2> QED
      BY <1>3, <2>1, <2>2 DEF OnUpdate, OnDelete, StoreFits, Exists, CloudFits, ProvisionerFits,
                              SkyletFits
  <1> QED
    BY <1>1, <1>2, <1>3 DEF SkyletController

(* The heart of a skylet beats on, with the copy it has or with none.      *)
LEMMA SetCCTyped ==
  ASSUME Typed, skylet # None, NEW cc \in Heart, SetCC(cc),
         cc.at = "put" => cc.copy # None
  PROVE  skylet' \in Living /\ skylet'.cc = cc
  BY DEF Typed, SkyletFits, SetCC, Skylet, Living

LEMMA BeatEnds ==
  ASSUME Typed, skylet # None,
         BeatRaises \/ \E failures \in 0 .. RetryLimit + 1 : EndBeat(failures)
  PROVE  skylet' \in Living /\ skylet'.cc.copy = None
  <1>1. CC \in Heart
    BY DEF Typed, SkyletFits, Living, Skylet, CC
  <1>2. ASSUME NEW failures \in 0 .. RetryLimit + 1, EndBeat(failures)
        PROVE  skylet' \in Living /\ skylet'.cc.copy = None
    <2> DEFINE over == failures > RetryLimit /\ ~CC.handling
               at == IF over THEN "get" ELSE "sleep"
               report == IF over THEN "ERROR" ELSE "READY"
               cc == [[[[[CC EXCEPT !.copy = None] EXCEPT !.failures = failures] EXCEPT !.at = at]
                        EXCEPT !.handling = over] EXCEPT !.report = report]
    <2>1. at \in {"get", "sleep"} /\ report \in {"READY", "ERROR"} /\ over \in BOOLEAN
      OBVIOUS
    <2>2. SetCC(cc)
      BY <1>2 DEF EndBeat
    <2>3. cc \in Heart /\ cc.copy = None /\ cc.at # "put"
      <3> HIDE DEF over, at, report
      <3> QED
        BY <1>1, <2>1 DEF Heart
    <2> HIDE DEF cc
    <2> QED
      BY <2>2, <2>3, SetCCTyped
  <1>3. CASE BeatRaises
    <2>1. CASE CC.handling
      <3> DEFINE cc == [[CC EXCEPT !.at = "dead"] EXCEPT !.copy = None]
      <3>1. SetCC(cc)
        BY <1>3, <2>1 DEF BeatRaises
      <3>2. cc \in Heart /\ cc.copy = None /\ cc.at # "put"
        BY <1>1 DEF Heart
      <3> HIDE DEF cc
      <3> QED
        BY <3>1, <3>2, SetCCTyped
    <2>2. CASE ~CC.handling
      <3> DEFINE failures == IF CC.failures > RetryLimit THEN CC.failures ELSE CC.failures + 1
      <3>1. EndBeat(failures)
        BY <1>3, <2>2 DEF BeatRaises
      <3>2. failures \in 0 .. RetryLimit + 1
        BY <1>1, ClusterAssumption DEF Heart
      <3> HIDE DEF failures
      <3> QED
        BY <1>2, <3>1, <3>2
    <2> QED
      BY <2>1, <2>2
  <1> QED
    BY <1>2, <1>3

LEMMA ClusterControllerTyped ==
  ASSUME Typed, ClusterController
  PROVE  /\ Typed' /\ skylet # None
         /\ \/ skylet'.cc.copy \in {None, skylet.cc.copy}
            \/ /\ BeatGets /\ Exists /\ skylet'.cc.copy.gen = cluster.gen
               /\ skylet'.cc.copy.provision = cluster.provision
  <1> USE DEF Typed, env, provisionerVars
  <1>1. skylet # None
    BY DEF ClusterController, BeatReads, BeatGets, BeatPuts, Beat
  <1>2. skylet \in Skylet /\ CC \in Heart /\ CC = skylet.cc
    BY <1>1 DEF SkyletFits, Living, Skylet, CC
  <1>3. CASE BeatReads
    <2>1. CASE SetCC([CC EXCEPT !.at = "get"])
      <3> DEFINE cc == [CC EXCEPT !.at = "get"]
      <3>1. cc \in Heart /\ cc.copy = CC.copy /\ cc.at = "get"
        BY <1>2 DEF Heart
      <3> HIDE DEF cc
      <3>2. skylet' \in Living /\ skylet'.cc.copy = skylet.cc.copy
        BY <1>1, <1>2, <2>1, <3>1, SetCCTyped DEF cc
      <3> QED
        BY <1>1, <1>3, <3>2 DEF BeatReads, StoreFits, Exists, CloudFits, ProvisionerFits, SkyletFits
    <2>2. CASE SetCC([CC EXCEPT !.at = "get", !.report = "ERROR"])
      <3> DEFINE cc == [[CC EXCEPT !.at = "get"] EXCEPT !.report = "ERROR"]
      <3>1. cc \in Heart /\ cc.copy = CC.copy /\ cc.at = "get"
        BY <1>2 DEF Heart
      <3>3. SetCC(cc)
        BY <2>2
      <3> HIDE DEF cc
      <3>2. skylet' \in Living /\ skylet'.cc.copy = skylet.cc.copy
        BY <1>1, <1>2, <3>1, <3>3, SetCCTyped
      <3> QED
        BY <1>1, <1>3, <3>2 DEF BeatReads, StoreFits, Exists, CloudFits, ProvisionerFits, SkyletFits
    <2>3. CASE BeatRaises
      BY <1>1, <1>3, <2>3, BeatEnds DEF BeatReads, StoreFits, Exists, CloudFits, ProvisionerFits,
                                        SkyletFits
    <2> QED
      BY <1>3, <2>1, <2>2, <2>3 DEF BeatReads
  <1>4. CASE BeatGets
    <2>1. CASE Exists
      <3> DEFINE copy == [cluster EXCEPT !.status = CC.report]
                 cc == [[CC EXCEPT !.at = "put"] EXCEPT !.copy = copy]
      <3>1. cluster \in Object /\ CC.report \in {"READY", "ERROR"}
        BY <1>2, <2>1 DEF StoreFits, Exists, Heart
      <3>2. copy \in Object /\ copy.gen = cluster.gen /\ copy.provision = cluster.provision
        BY <3>1 DEF Object, Statuses
      <3>3. SetCC(cc)
        BY <1>4, <2>1 DEF BeatGets
      <3>4. cc \in Heart /\ cc.copy = copy
        <4> HIDE DEF copy
        <4> QED
          BY <1>2, <3>2 DEF Heart
      <3>7. copy # None
        <4> HIDE DEF copy
        <4> QED
          BY <3>2 DEF Object, None
      <3> HIDE DEF cc
      <3>5. skylet' \in Living /\ skylet'.cc.copy = copy
        BY <1>1, <3>3, <3>4, <3>7, SetCCTyped
      <3> HIDE DEF copy
      <3>6. Typed'
        BY <1>4, <3>5 DEF BeatGets, StoreFits, Exists, CloudFits, ProvisionerFits, SkyletFits
      <3> QED
        BY <1>1, <1>4, <2>1, <3>2, <3>5, <3>6
    <2>2. CASE ~Exists
      BY <1>1, <1>4, <2>2, BeatEnds DEF BeatGets, StoreFits, Exists, CloudFits, ProvisionerFits,
                                        SkyletFits
    <2> QED
      BY <2>1, <2>2
  <1>5. CASE BeatPuts
    <2>1. CASE Exists /\ Valid(CC.copy)
      <3>1. Put(CC.copy, skylet.gen) /\ EndBeat(CC.failures) /\ created' = created
        BY <1>5, <2>1 DEF BeatPuts
      <3>2. CC.failures \in 0 .. RetryLimit + 1 /\ CC.copy \in Object
        BY <1>1, <1>2, <1>5 DEF Heart, BeatPuts, Beat, SkyletFits, Living
      <3>3. skylet' \in Living /\ skylet'.cc.copy = None
        BY <1>1, <3>1, <3>2, BeatEnds
      <3>4. StoreFits' /\ sq' \in Seq(SkyletEvent) /\ mixed' \subseteq Mixtures
        BY <2>1, <3>1, <3>2, PutTyped
      <3> QED
        BY <1>1, <1>5, <3>3, <3>4 DEF BeatPuts, CloudFits, ProvisionerFits, SkyletFits
    <2>2. CASE ~(Exists /\ Valid(CC.copy))
      <3>1. BeatRaises /\ cluster' = cluster /\ sq' = sq /\ mixed' = mixed
        BY <1>5, <2>2 DEF BeatPuts
      <3>2. skylet' \in Living /\ skylet'.cc.copy = None
        BY <1>1, <3>1, BeatEnds
      <3> QED
        BY <1>1, <1>5, <3>1, <3>2 DEF BeatPuts, StoreFits, Exists, CloudFits, ProvisionerFits,
                                      SkyletFits
    <2> QED
      BY <2>1, <2>2
  <1> QED
    BY <1>3, <1>4, <1>5 DEF ClusterController

-----------------------------------------------------------------------------
LEMMA EnvironmentTyped ==
  ASSUME Typed, Outage \/ Recovery \/ Restart
  PROVE  Typed'
  <1> USE DEF Typed, env, provisionerVars
  <1>1. faults' \in 0 .. MaxFaults
    BY ClusterAssumption DEF Outage, Recovery, Restart, CloudFits
  <1>2. up' \in BOOLEAN
    <2>1. up' = up \/ up' = TRUE \/ up' = FALSE
      BY DEF Outage, Recovery, Restart
    <2> QED
      BY <2>1, Zenon DEF CloudFits
  <1>3. CloudFits'
    BY <1>1, <1>2 DEF Outage, Recovery, Restart, CloudFits
  <1>4. CASE Outage \/ Recovery
    BY <1>3, <1>4 DEF Outage, Recovery, StoreFits, Exists, ProvisionerFits, SkyletFits
  <1>5. CASE Restart
    <2>1. << >> \in Seq(ProvisionerEvent) /\ << >> \in Seq(SkyletEvent)
      BY EmptySeq
    <2>2. ProvisionerFits'
      BY <1>5, <2>1, IdleTyped DEF Restart, ProvisionerFits
    <2> QED
      BY <1>3, <1>5, <2>1, <2>2 DEF Restart, StoreFits, Exists, SkyletFits, Mixtures
  <1> QED
    BY <1>4, <1>5

LEMMA InitTyped == Init => Typed
  <1> SUFFICES ASSUME Init PROVE Typed
    OBVIOUS
  <1>4. created \in 0 .. MaxCreations /\ faults \in 0 .. MaxFaults
    BY ClusterAssumption DEF Init
  <1>1. StoreFits /\ CloudFits /\ mixed \subseteq Mixtures
    BY <1>4 DEF Init, StoreFits, CloudFits, Exists
  <1>2. << >> \in Seq(ProvisionerEvent) /\ << >> \in Seq(SkyletEvent)
    BY EmptySeq
  <1>3. ProvisionerFits /\ SkyletFits
    BY <1>2, IdleTyped DEF Init, ProvisionerFits, SkyletFits
  <1> QED
    BY <1>1, <1>3 DEF Typed

LEMMA NextTyped == Typed /\ [Next]_vars => Typed'
  <1> SUFFICES ASSUME Typed, [Next]_vars PROVE Typed'
    OBVIOUS
  <1>1. CASE UNCHANGED vars
    BY <1>1 DEF vars, Typed, StoreFits, Exists, CloudFits, ProvisionerFits, SkyletFits
  <1> QED
    BY <1>1, UserTyped, ProvisionerTyped, SkyletControllerTyped, ClusterControllerTyped,
       EnvironmentTyped DEF Next

-----------------------------------------------------------------------------
(* Why no machines are forgotten.                                          *)
Clean == mixed \cap {"forgotten", "kept", "overwritten"} = {}

(* What machines there are, or are going to be started, ...                *)
Needed == machines # {} \/ prov.at \in {"provisioning", "launch", "spec", "specError", "nodes"}

(* ... belong to the cluster, or a deletion further behind in the queue    *)
(* will remove them.                                                       *)
Clears(event) == event.type = "DELETE" /\ event.obj.provision
Asks(event) == event.type = "ADD" /\ event.obj.provision
Claimed == Exists /\ cluster.provision
Provided(i) == Claimed \/ \E j \in DOMAIN pq : j > i /\ Clears(pq[j])

(* A copy of the stored object tells its provision rightly.                *)
Agrees(copy) == /\ copy.gen <= created
                /\ copy.gen = cluster.gen => copy.provision = cluster.provision
CopiesAgree == /\ cluster.gen <= created
               /\ prov.copy # None => Agrees(prov.copy)
               /\ skylet # None /\ skylet.cc.copy # None => Agrees(skylet.cc.copy)

Waiting == /\ Needed => Provided(0)
           /\ \A i \in DOMAIN pq : Asks(pq[i]) => Provided(i)

Removal == Clean => CopiesAgree /\ Waiting

LEMMA MixedGrows ==
  ASSUME [Next]_vars
  PROVE  mixed \subseteq mixed'
  <1>1. ASSUME NEW copy, NEW gen, Put(copy, gen)
        PROVE  mixed \subseteq mixed'
    BY <1>1 DEF Put
  <1>2. CASE Provisioner
    BY <1>1, <1>2 DEF Provisioner, TakeAdd, TakeDelete, WriteGets, WritePuts, WriteFails, Launch,
                      AddNodes
  <1>3. CASE SkyletController
    BY <1>3 DEF SkyletController, Discover, LoadListed, OnUpdate, OnDelete
  <1>4. CASE ClusterController
    BY <1>1, <1>4 DEF ClusterController, BeatReads, BeatGets, BeatPuts
  <1>5. CASE Outage \/ Recovery \/ Restart \/ UserDeletes
                \/ \E provision \in Provisions : UserCreates(provision)
    BY <1>5 DEF Outage, Recovery, Restart, UserDeletes, UserCreates
  <1>6. CASE UNCHANGED vars
    BY <1>6 DEF vars
  <1> QED
    BY <1>2, <1>3, <1>4, <1>5, <1>6 DEF Next

(* The queue, before and after.                                            *)
LEMMA QueueIs ==
  ASSUME Typed
  PROVE  Len(pq) \in Nat /\ DOMAIN pq = 1 .. Len(pq) /\ pq \in Seq(ProvisionerEvent)
  BY LenProperties DEF Typed, ProvisionerFits

LEMMA Appended ==
  ASSUME Typed, NEW event \in ProvisionerEvent, pq' = Append(pq, event)
  PROVE  /\ DOMAIN pq' = 1 .. Len(pq) + 1
         /\ \A i \in DOMAIN pq : pq'[i] = pq[i]
         /\ pq'[Len(pq) + 1] = event
  <1>1. pq' \in Seq(ProvisionerEvent) /\ Len(pq') = Len(pq) + 1
    BY QueueIs, AppendProperties
  <1>2. DOMAIN pq' = 1 .. Len(pq')
    BY <1>1, LenProperties
  <1>3. \A i \in 1 .. Len(pq) : pq'[i] = pq[i]
    BY QueueIs, AppendProperties
  <1>4. pq'[Len(pq) + 1] = event
    BY QueueIs, AppendProperties
  <1> QED
    BY <1>1, <1>2, <1>3, <1>4, QueueIs

LEMMA Taken ==
  ASSUME Typed, pq # << >>, pq' = Tail(pq)
  PROVE  /\ DOMAIN pq' = 1 .. Len(pq) - 1 /\ Len(pq) \in Nat \ {0} /\ Head(pq) = pq[1]
         /\ \A i \in DOMAIN pq : i > 1 => i - 1 \in DOMAIN pq' /\ pq'[i - 1] = pq[i]
         /\ \A i \in DOMAIN pq' : i + 1 \in DOMAIN pq /\ pq'[i] = pq[i + 1]
  <1>1. /\ pq' \in Seq(ProvisionerEvent) /\ Len(pq') = Len(pq) - 1
        /\ Len(pq) \in Nat \ {0} /\ Head(pq) = pq[1]
    BY QueueIs, HeadTailProperties, EmptySeq
  <1>2. DOMAIN pq' = 1 .. Len(pq')
    BY <1>1, LenProperties
  <1>3. \A i \in 1 .. Len(pq) - 1 : pq'[i] = pq[i + 1]
    BY QueueIs, HeadTailProperties
  <1> QED
    BY <1>1, <1>2, <1>3, QueueIs

(* A new cluster: the old one was gone, so that what was needed was in the *)
(* queue, and is.                                                          *)
LEMMA AddWaits ==
  ASSUME Typed, Waiting, NEW provision \in BOOLEAN, ~Exists, Add(provision), Needed' => Needed
  PROVE  Waiting'
  <1> DEFINE obj == NewObject(created + 1, provision)
             event == [type |-> "ADD", obj |-> obj]
  <1>1. obj \in Object /\ obj.provision = provision
    BY NewObjects DEF Add, NewObject
  <1>2. event \in ProvisionerEvent /\ event.type = "ADD" /\ event.obj = obj
    BY <1>1 DEF ProvisionerEvent
  <1>3. pq' = Append(pq, event) /\ cluster' = obj
    BY DEF Add
  <1> HIDE DEF event, obj
  <1>4. /\ DOMAIN pq' = 1 .. Len(pq) + 1
        /\ \A i \in DOMAIN pq : pq'[i] = pq[i]
        /\ pq'[Len(pq) + 1] = event
    BY <1>2, <1>3, Appended
  <1>5. \A i : Provided(i) => Provided(i)'
    BY <1>4, QueueIs DEF Provided, Claimed
  <1>6. Asks(event) => Claimed'
    BY <1>1, <1>2, <1>3 DEF Asks, Claimed, Exists, Object, None
  <1>7. \A i \in DOMAIN pq' : Asks(pq'[i]) => Provided(i)'
    <2>1. \A i \in DOMAIN pq' : i \in DOMAIN pq \/ i = Len(pq) + 1
      BY <1>4, QueueIs
    <2>2. \A i \in DOMAIN pq : Asks(pq'[i]) => Provided(i)'
      BY <1>4, <1>5 DEF Waiting
    <2>3. Asks(pq'[Len(pq) + 1]) => \A i : Provided(i)'
      BY <1>4, <1>6 DEF Provided
    <2> QED
      BY <2>1, <2>2, <2>3
  <1> QED
    BY <1>5, <1>7 DEF Waiting

(* A deletion takes the claim along, behind everything in the queue.       *)
LEMMA DeletionWaits ==
  ASSUME Typed, Waiting, UserDeletes
  PROVE  Waiting'
  <1> DEFINE event == [type |-> "DELETE", obj |-> cluster]
  <1>1. cluster \in Object
    BY DEF UserDeletes, Exists, Typed, StoreFits
  <1>2. event \in ProvisionerEvent /\ event.type = "DELETE" /\ event.obj = cluster
    BY <1>1 DEF ProvisionerEvent
  <1>3. pq' = Append(pq, event) /\ (Needed' => Needed)
    BY DEF UserDeletes, env, Needed
  <1> HIDE DEF event
  <1>4. /\ DOMAIN pq' = 1 .. Len(pq) + 1
        /\ \A i \in DOMAIN pq : pq'[i] = pq[i]
        /\ pq'[Len(pq) + 1] = event
    BY <1>2, <1>3, Appended
  <1>5. \A i \in 0 .. Len(pq) : Provided(i) => Provided(i)'
    <2> SUFFICES ASSUME NEW i \in 0 .. Len(pq), Provided(i)
                 PROVE  \E j \in DOMAIN pq' : j > i /\ Clears(pq'[j])
      BY DEF Provided
    <2>1. CASE Claimed
      <3>1. Clears(event)
        BY <1>2, <2>1 DEF Clears, Claimed
      <3>2. Len(pq) + 1 \in DOMAIN pq' /\ Len(pq) + 1 > i
        BY <1>4, QueueIs
      <3> QED
        BY <1>4, <3>1, <3>2
    <2>2. CASE ~Claimed
      BY <1>4, <2>2, QueueIs DEF Provided
    <2> QED
      BY <2>1, <2>2
  <1>6. \A i \in DOMAIN pq' : Asks(pq'[i]) => Provided(i)'
    <2>1. \A i \in DOMAIN pq' : i \in DOMAIN pq \/ i = Len(pq) + 1
      BY <1>4, QueueIs
    <2>2. \A i \in DOMAIN pq : Asks(pq'[i]) => Provided(i)'
      BY <1>4, <1>5, QueueIs DEF Waiting
    <2>3. ~Asks(pq'[Len(pq) + 1])
      BY <1>2, <1>4 DEF Asks
    <2> QED
      BY <2>1, <2>2, <2>3
  <1> QED
    BY <1>3, <1>5, <1>6, QueueIs DEF Waiting

(* Events are taken in their order, and each removes what it provides for. *)
LEMMA TakingWaits ==
  ASSUME Typed, Waiting, Clean', TakeAdd \/ TakeDelete
  PROVE  Waiting'
  <1>1. /\ DOMAIN pq' = 1 .. Len(pq) - 1 /\ Len(pq) \in Nat \ {0} /\ Head(pq) = pq[1]
        /\ \A i \in DOMAIN pq : i > 1 => i - 1 \in DOMAIN pq' /\ pq'[i - 1] = pq[i]
        /\ \A i \in DOMAIN pq' : i + 1 \in DOMAIN pq /\ pq'[i] = pq[i + 1]
    BY Taken DEF TakeAdd, TakeDelete
  <1>2. Claimed' <=> Claimed
    BY DEF TakeAdd, TakeDelete, Claimed, Exists
  <1>3. \A i \in DOMAIN pq : Provided(i) => Provided(i - 1)'
    <2> SUFFICES ASSUME NEW i \in DOMAIN pq, Provided(i), ~Claimed
                 PROVE  \E j \in DOMAIN pq' : j > i - 1 /\ Clears(pq'[j])
      BY <1>2 DEF Provided
    <2>1. PICK j \in DOMAIN pq : j > i /\ Clears(pq[j])
      BY DEF Provided
    <2>2. j - 1 \in DOMAIN pq' /\ j - 1 > i - 1 /\ pq'[j - 1] = pq[j]
      BY <1>1, <2>1, QueueIs
    <2> QED
      BY <2>1, <2>2
  <1>4. \A i \in DOMAIN pq' : Asks(pq'[i]) => Provided(i)'
    <2> SUFFICES ASSUME NEW i \in DOMAIN pq', Asks(pq'[i]) PROVE Provided(i)'
      OBVIOUS
    <2>1. i + 1 \in DOMAIN pq /\ Asks(pq[i + 1]) /\ i \in Nat /\ (i + 1) - 1 = i
      BY <1>1
    <2>2. Provided((i + 1) - 1)'
      BY <1>3, <2>1 DEF Waiting
    <2> QED
      BY <2>1, <2>2
  <1>5. 1 \in DOMAIN pq /\ 1 - 1 = 0
    BY <1>1, QueueIs
  <1>6. ~Clears(pq[1]) /\ Provided(0) => Provided(1)
    BY QueueIs DEF Provided
  <1>7. Needed' => Provided(1)
    <2>1. CASE TakeAdd
      <3>1. ~Clears(pq[1]) /\ pq[1].type = "ADD" /\ machines' = machines
        BY <1>1, <2>1 DEF TakeAdd, Clears, env
      <3>2. CASE machines # {}
        BY <1>6, <3>1, <3>2 DEF Waiting, Needed
      <3>3. CASE machines = {}
        BY <1>1, <1>5, <2>1, <3>1, <3>3, TakeAddMoves DEF Waiting, Needed, Asks
      <3> QED
        BY <3>2, <3>3
    <2>2. CASE TakeDelete
      <3>1. prov' = prov /\ prov.at = "idle"
        BY <2>2 DEF TakeDelete
      <3>2. CASE Head(pq).obj.provision
        <4>1. machines' = {}
          BY <2>2, <3>2 DEF TakeDelete, Clean
        <4> QED
          BY <3>1, <4>1 DEF Needed
      <3>3. CASE ~Head(pq).obj.provision
        <4>1. ~Clears(pq[1]) /\ machines' = machines
          BY <1>1, <2>2, <3>3 DEF TakeDelete, Clears
        <4> QED
          BY <1>6, <3>1, <4>1 DEF Waiting, Needed
      <3> QED
        BY <3>2, <3>3
    <2> QED
      BY <2>1, <2>2
  <1>8. Needed' => Provided(0)'
    <2>1. Provided(1) => Provided(1 - 1)'
      BY <1>3, <1>5
    <2> QED
      BY <1>5, <1>7, <2>1
  <1> QED
    BY <1>4, <1>8 DEF Waiting

(* A write, unless it overwrites another cluster, does not change what the *)
(* cluster is provided with.                                               *)
LEMMA PutWaits ==
  ASSUME Typed, CopiesAgree, Waiting, Clean', WritePuts \/ BeatPuts
  PROVE  /\ Waiting'
         /\ cluster'.gen = cluster.gen /\ cluster'.provision = cluster.provision
  <1>1. \/ /\ WritePuts /\ Put(prov.copy, prov.obj.gen) /\ Exists
           /\ prov.copy \in Object /\ Agrees(prov.copy)
        \/ /\ BeatPuts /\ Put(CC.copy, skylet.gen) /\ Exists
           /\ CC.copy \in Object /\ Agrees(CC.copy)
        \/ BeatPuts /\ cluster' = cluster
    <2>1. CASE WritePuts
      BY <2>1, WritePutsMoves DEF WritePuts, CopiesAgree
    <2>2. CASE BeatPuts
      <3>1. skylet # None /\ skylet \in Living /\ CC = skylet.cc /\ CC.at = "put"
        BY <2>2 DEF BeatPuts, Beat, Typed, SkyletFits, CC
      <3>2. CC.copy # None /\ CC.copy \in Object
        BY <3>1 DEF Living, Skylet, Heart
      <3>3. Agrees(CC.copy)
        BY <3>1, <3>2 DEF CopiesAgree
      <3> QED
        BY <2>2, <3>2, <3>3 DEF BeatPuts
    <2> QED
      BY <2>1, <2>2
  <1>2. /\ Claimed => Claimed'
        /\ cluster'.gen = cluster.gen /\ cluster'.provision = cluster.provision
    <2>1. ASSUME NEW copy \in Object, NEW gen, Put(copy, gen), Agrees(copy), Exists
          PROVE  /\ cluster'.gen = cluster.gen /\ cluster'.provision = cluster.provision
                 /\ Exists'
      <3>1. copy.gen = cluster.gen /\ cluster' = copy
        BY <2>1 DEF Put, Clean
      <3> QED
        BY <2>1, <3>1 DEF Agrees, Exists, Object, None
    <2> QED
      BY <1>1, <2>1 DEF Claimed, Exists
  <1>3. pq' = pq /\ machines' = machines
    BY DEF WritePuts, BeatPuts, env, provisionerVars
  <1>4. Needed' => Needed
    <2>1. CASE WritePuts
      BY <1>3, <2>1, WritePutsMoves DEF Needed
    <2>2. CASE BeatPuts
      BY <1>3, <2>2 DEF Needed, BeatPuts, provisionerVars
    <2> QED
      BY <2>1, <2>2
  <1> QED
    BY <1>2, <1>3, <1>4 DEF Waiting, Provided

(* All other steps leave the store and the queue alone.                    *)
LEMMA OthersWait ==
  ASSUME Typed, Waiting, Clean',
         \/ WriteGets \/ WriteFails \/ Launch \/ AddNodes
         \/ LoadListed \/ OnUpdate \/ OnDelete
         \/ BeatReads \/ BeatGets \/ Outage \/ Recovery \/ Restart \/ UNCHANGED vars
  PROVE  Waiting' /\ cluster' = cluster /\ created' = created
  <1>1. cluster' = cluster /\ created' = created
    BY DEF WriteGets, WriteFails, Launch, AddNodes, LoadListed, OnUpdate, OnDelete, BeatReads,
           BeatGets, Outage, Recovery, Restart, vars
  <1>2. pq' = pq
    BY DEF WriteGets, WriteFails, Launch, AddNodes, LoadListed, OnUpdate, OnDelete, BeatReads,
           BeatGets, Outage, Recovery, Restart, vars, provisionerVars, Clean
  <1>3. Needed' => Needed
    <2>1. CASE WriteGets
      BY <2>1, WriteGetsMoves DEF WriteGets, env, Needed
    <2>2. CASE WriteFails
      BY <2>2, WriteFailsMoves DEF WriteFails, Needed
    <2>3. CASE Launch \/ AddNodes
      BY <2>3, CloudMoves DEF Needed
    <2>4. CASE Restart
      BY <2>4 DEF Restart, env, Needed, Idle
    <2>5. CASE \/ LoadListed \/ OnUpdate \/ OnDelete \/ BeatReads \/ BeatGets
               \/ Outage \/ Recovery \/ UNCHANGED vars
      BY <2>5 DEF LoadListed, OnUpdate, OnDelete, BeatReads, BeatGets, Outage, Recovery, vars, env,
                  provisionerVars, Needed
    <2> QED
      BY <2>1, <2>2, <2>3, <2>4, <2>5
  <1> QED
    BY <1>1, <1>2, <1>3 DEF Waiting, Provided, Claimed, Exists

LEMMA WaitingStep ==
  ASSUME Typed, CopiesAgree, Waiting, Clean', [Next]_vars
  PROVE  Waiting'
  <1>1. CASE UserDeletes
    BY <1>1, DeletionWaits
  <1>2. ASSUME NEW provision \in Provisions, UserCreates(provision)
        PROVE  Waiting'
    <2>1. Needed' => Needed
      BY <1>2 DEF UserCreates, env, Needed
    <2> QED
      BY <1>2, <2>1, AddWaits, ClusterAssumption DEF UserCreates
  <1>3. CASE Discover
    <2>1. CASE InKubeconfig /\ ~Exists /\ created < MaxCreations
      <3>1. (Needed' => Needed) /\ Add(FALSE) /\ ~Exists
        BY <1>3, <2>1 DEF Discover, env, Needed
      <3> QED
        BY <3>1, AddWaits
    <2>2. CASE ~(InKubeconfig /\ ~Exists /\ created < MaxCreations)
      BY <1>3, <2>2 DEF Discover, env, Waiting, Provided, Claimed, Exists, Needed
    <2> QED
      BY <2>1, <2>2
  <1>4. CASE TakeAdd \/ TakeDelete
    BY <1>4, TakingWaits
  <1>5. CASE WritePuts \/ BeatPuts
    BY <1>5, PutWaits
  <1> QED
    BY <1>1, <1>2, <1>3, <1>4, <1>5, OthersWait DEF Next, Provisioner, SkyletController,
       ClusterController

(* Copies: taken from the store, and never of a cluster yet to come.       *)
LEMMA CopiesStep ==
  ASSUME Typed, CopiesAgree, Waiting, Clean', [Next]_vars
  PROVE  CopiesAgree'
  <1>1. /\ cluster.gen \in Nat /\ created \in Nat
        /\ prov.copy # None => prov.copy.gen \in 1 .. MaxCreations
        /\ skylet # None /\ skylet.cc.copy # None => skylet.cc.copy.gen \in 1 .. MaxCreations
    BY ClusterAssumption DEF Typed, StoreFits, ProvisionerFits, SkyletFits, Prov, Living, Skylet,
                             Heart, Object, None
  <1>2. /\ \/ prov'.copy \in {None, prov.copy}
           \/ WriteGets /\ prov'.copy.gen = cluster.gen /\ prov'.copy.provision = cluster.provision
        /\ \/ skylet' = skylet \/ skylet' = None \/ skylet'.cc.copy = None
           \/ skylet # None /\ skylet'.cc.copy = skylet.cc.copy
           \/ /\ BeatGets /\ skylet'.cc.copy.gen = cluster.gen
              /\ skylet'.cc.copy.provision = cluster.provision
    <2>1. CASE Provisioner
      <3>1. skylet' = skylet
        BY <2>1 DEF Provisioner, TakeAdd, TakeDelete, WriteGets, WritePuts, WriteFails, Launch, AddNodes
      <3>2. TakeDelete => prov' = prov
        BY DEF TakeDelete
      <3> QED
        BY <2>1, <3>1, <3>2, TakeAddMoves, WriteGetsMoves, WritePutsMoves, WriteFailsMoves, CloudMoves
           DEF Provisioner
    <2>2. CASE SkyletController
      <3>1. prov' = prov
        BY <2>2 DEF SkyletController, Discover, LoadListed, OnUpdate, OnDelete, provisionerVars
      <3> QED
        BY <2>2, <3>1, SkyletControllerTyped
    <2>3. CASE ClusterController
      <3>1. prov' = prov
        BY <2>3 DEF ClusterController, BeatReads, BeatGets, BeatPuts, provisionerVars
      <3> QED
        BY <2>3, <3>1, ClusterControllerTyped
    <2>4. CASE Outage \/ Recovery \/ UserDeletes \/ UNCHANGED vars
                  \/ \E provision \in Provisions : UserCreates(provision)
      BY <2>4 DEF Outage, Recovery, UserDeletes, UserCreates, vars, provisionerVars
    <2>5. CASE Restart
      BY <2>5, IdleTyped DEF Restart
    <2> QED
      BY <2>1, <2>2, <2>3, <2>4, <2>5 DEF Next
  <1>3. \/ /\ created' = created
           /\ \/ cluster'.gen = cluster.gen /\ cluster'.provision = cluster.provision
              \/ cluster' = None
        \/ /\ created' = created + 1 /\ cluster'.gen = created + 1
           /\ ~WriteGets /\ ~BeatGets
    <2>1. ASSUME NEW provision, Add(provision)
          PROVE  created' = created + 1 /\ cluster'.gen = created + 1
      BY <2>1 DEF Add, NewObject
    <2>2. CASE \E provision \in Provisions : UserCreates(provision)
      BY <2>1, <2>2 DEF UserCreates, WriteGets, BeatGets, Exists
    <2>3. CASE Discover
      BY <2>1, <2>3 DEF Discover, WriteGets, BeatGets, Exists
    <2>4. CASE UserDeletes
      BY <2>4 DEF UserDeletes
    <2>5. CASE TakeAdd \/ TakeDelete
      BY <2>5 DEF TakeAdd, TakeDelete
    <2>6. CASE WritePuts \/ BeatPuts
      <3>1. created' = created
        BY <2>6 DEF WritePuts, BeatPuts
      <3> QED
        BY <2>6, <3>1, PutWaits
    <2> QED
      BY <2>2, <2>3, <2>4, <2>5, <2>6, OthersWait DEF Next, Provisioner, SkyletController,
         ClusterController
  <1>4. None.gen = 0
    BY DEF None
  <1>5. ASSUME NEW copy, copy.gen \in 1 .. MaxCreations, Agrees(copy)
        PROVE  Agrees(copy)'
    BY <1>1, <1>3, <1>4, <1>5, ClusterAssumption DEF Agrees, CopiesAgree
  <1>6. cluster'.gen <= created'
    BY <1>1, <1>3, <1>4 DEF CopiesAgree
  <1>7. ASSUME NEW copy, copy.gen = cluster.gen, copy.provision = cluster.provision,
               WriteGets \/ BeatGets
        PROVE  Agrees(copy)'
    BY <1>7, <1>3, OthersWait DEF Agrees, CopiesAgree
  <1> QED
    BY <1>1, <1>2, <1>5, <1>6, <1>7 DEF CopiesAgree

(* When the provisioner is at rest, there are machines only of a cluster   *)
(* that was provisioned, however its creation, its failures, its deletion  *)
(* and the next creation of its name have overlapped; the exceptions are   *)
(* those that the property names.                                          *)
THEOREM MachinesBelongToClusters == Spec => []CloudIsSound
  <1>1. Init => Typed /\ Removal
    <2>1. Init => Removal
      BY DEF Init, Removal, CopiesAgree, Waiting, Needed, Idle, None
    <2> QED
      BY <2>1, InitTyped
  <1>2. Typed /\ Removal /\ [Next]_vars => (Typed /\ Removal)'
    <2> SUFFICES ASSUME Typed, Removal, [Next]_vars PROVE Removal'
      BY NextTyped
    <2>1. ASSUME Clean'
          PROVE  CopiesAgree' /\ Waiting'
      <3>1. Clean
        BY <2>1, MixedGrows DEF Clean
      <3> QED
        BY <2>1, <3>1, CopiesStep, WaitingStep DEF Removal
    <2> QED
      BY <2>1 DEF Removal
  <1>3. Typed /\ Removal => CloudIsSound
    <2> SUFFICES ASSUME Typed, Removal, AtRest, machines # {}, Clean
                 PROVE  Exists /\ cluster.provision
      BY TypedIsTypeOK DEF CloudIsSound, DeletedClustersLeaveNoMachines, Clean
    <2>1. Provided(0) /\ DOMAIN pq = {}
      BY EmptySeq, QueueIs DEF Removal, Waiting, Needed, AtRest
    <2> QED
      BY <2>1 DEF Provided, Claimed
  <1> QED
    BY <1>1, <1>2, <1>3, PTL DEF Spec
=============================================================================
