--------------------------- MODULE Network_proofs ---------------------------
(***************************************************************************)
(* Network, for any clusters, links and bounds: one fabric for all         *)
(* gateways, and peers that follow the links: for each direction, the last *)
(* pending event about the pair, or else the one in hand, or else the      *)
(* peers themselves say what there will be, and that is what the links say *)
(* (Linked).                                                               *)
(***************************************************************************)
EXTENDS Network, SequenceTheorems, TLAPS

(* The types, by the part of the system that keeps them.                   *)
Controller == [at : {"absent", "sleep", "wait", "take", "deploy", "init", "report",
                     "handle", "dead"} \cup Inside,
               failures : 0 .. RetryLimit + 1]

HostFits ==
  /\ fabric \in Nat /\ lock \in BOOLEAN
  /\ nc \in [Clusters -> Controller]
  /\ \A c \in Clusters : nc[c].at = "dead" <=> nc[c].failures > RetryLimit
  /\ network \in [Clusters -> BOOLEAN]
  /\ faults \in 0 .. MaxFaults
  /\ disturbed \subseteq {"raced", "killed", "early", "failed", "lost", "left", "shared",
                         "overwritten"}

\* A gateway that answers is deployed.
GatewaysFit ==
  /\ gateway \in [Clusters -> [cert : 0 .. fabric, up : BOOLEAN]]
  /\ \A c \in Clusters : gateway[c].up => gateway[c].cert # 0
  /\ peers \in [Clusters -> SUBSET Clusters]
  /\ \A c \in Clusters : peers[c] # {} => gateway[c].cert # 0

LinksFit ==
  /\ link \in [LinkNames -> Link \cup {None}]
  /\ queue \in Seq(LinkEvent)
  /\ doing = Nothing \/ doing \in [at : {"first", "second", "put"}, event : LinkEvent]
  /\ changes \in 0 .. MaxChanges

Typed == HostFits /\ GatewaysFit /\ LinksFit

(* The lock excludes; who makes a fabric has found none; and gateways have *)
(* certificates of the one on the host.                                    *)
Excludes ==
  "raced" \notin disturbed =>
    /\ \A c, d \in Clusters : nc[c].at \in Inside /\ nc[d].at \in Inside => c = d
    /\ \A c \in Clusters : nc[c].at = "make" => fabric = 0

LEMMA TypedIsTypeOK == Typed => TypeOK
  BY DEF Typed, HostFits, GatewaysFit, LinksFit, TypeOK, Controller

-----------------------------------------------------------------------------
(* The steps of a controller move it alone, and never to its end.          *)
LEMMA ControllerGoes ==
  ASSUME HostFits, NEW c \in Clusters, nc[c].at # "dead",
         NEW at \in {"sleep", "wait", "take", "deploy", "init", "report", "handle"} \cup Inside,
         Go(c, at)
  PROVE  /\ nc' \in [Clusters -> Controller]
         /\ \A d \in Clusters : nc'[d].at = "dead" <=> nc'[d].failures > RetryLimit
         /\ nc'[c].at = at
         /\ \A d \in Clusters : d # c => nc'[d] = nc[d]
  <1> DEFINE r == [nc[c] EXCEPT !.at = at]
  <1>1. nc[c] \in Controller /\ nc \in [Clusters -> Controller]
    BY DEF HostFits
  <1>2. r \in Controller /\ r.at = at /\ r.failures = nc[c].failures /\ at # "dead"
    BY <1>1 DEF Controller, Inside
  <1>3. nc' = [nc EXCEPT ![c] = r]
    BY DEF Go
  <1> HIDE DEF r
  <1>4. nc'[c] = r /\ \A d \in Clusters : d # c => nc'[d] = nc[d]
    BY <1>1, <1>3
  <1> QED
    BY <1>1, <1>2, <1>3, <1>4 DEF HostFits

(* All steps of a controller but Handle go somewhere.                      *)
LEMMA ControllerMoves ==
  ASSUME HostFits, NEW c \in Clusters, NetworkController(c), ~Handle(c)
  PROVE  /\ nc' \in [Clusters -> Controller]
         /\ \A d \in Clusters : nc'[d].at = "dead" <=> nc'[d].failures > RetryLimit
         /\ \A d \in Clusters : d # c => nc'[d] = nc[d]
         /\ nc'[c].at \in Inside => nc[c].at \in Inside \/ LockTaken(c)
         /\ nc'[c].at = "make" => FabricTest(c) /\ fabric = 0
  <1>1. PICK at \in {"sleep", "wait", "take", "deploy", "init", "report", "handle"} \cup Inside :
          /\ Go(c, at)
          /\ at \in Inside => nc[c].at \in Inside \/ LockTaken(c)
          /\ at = "make" => FabricTest(c) /\ fabric = 0
    BY DEF NetworkController, CheckStatus, LockIsFree, LockTaken, FabricTest, MakeFabric,
           InstallFails, LockReleased, Deploy, InitGateway, Report, At, Inside
  <1>2. nc[c].at # "dead"
    BY DEF NetworkController, CheckStatus, LockIsFree, LockTaken, FabricTest, MakeFabric,
           InstallFails, LockReleased, Deploy, InitGateway, Report, At, Inside
  <1> QED
    BY <1>1, <1>2, ControllerGoes

LEMMA ControllerTyped ==
  ASSUME Typed, NEW c \in Clusters, NetworkController(c)
  PROVE  Typed'
  <1>1. LinksFit'
    <2>1. UNCHANGED linkVars
      BY DEF NetworkController, CheckStatus, LockIsFree, LockTaken, FabricTest, MakeFabric,
             InstallFails, LockReleased, Deploy, InitGateway, Report, Handle
    <2> QED
      BY <2>1 DEF linkVars, LinksFit, Typed
  <1>2. fabric' \in Nat /\ fabric <= fabric'
    BY DEF NetworkController, CheckStatus, LockIsFree, LockTaken, FabricTest, MakeFabric,
           InstallFails, LockReleased, Deploy, InitGateway, Report, Handle, hostVars,
           Typed, HostFits
  <1>3. GatewaysFit'
    <2>1. peers' = peers
      BY DEF NetworkController, CheckStatus, LockIsFree, LockTaken, FabricTest, MakeFabric,
             InstallFails, LockReleased, Deploy, InitGateway, Report, Handle
    <2>2. gateway \in [Clusters -> [cert : Nat, up : BOOLEAN]]
      BY DEF Typed, HostFits, GatewaysFit
    <2>3. CASE gateway' = gateway
      BY <1>2, <2>1, <2>3 DEF Typed, HostFits, GatewaysFit
    <2>4. CASE gateway' # gateway /\ Deploy(c)
      <3> DEFINE r == [gateway[c] EXCEPT !.cert = IF @ = 0 THEN fabric ELSE @]
      <3>1. gateway[c] \in [cert : 0 .. fabric, up : BOOLEAN] /\ fabric \in Nat
        BY DEF Typed, HostFits, GatewaysFit
      <3>2. r \in [cert : 0 .. fabric, up : BOOLEAN] /\ r.up = gateway[c].up
            /\ (gateway[c].cert # 0 => r.cert # 0)
        BY <3>1
      <3>3. gateway' = [gateway EXCEPT ![c] = r] /\ fabric' = fabric
        BY <2>4 DEF Deploy, hostVars
      <3> HIDE DEF r
      <3> QED
        BY <2>1, <3>2, <3>3 DEF Typed, GatewaysFit
    <2>5. CASE gateway' # gateway /\ InitGateway(c)
      <3> DEFINE r == [gateway[c] EXCEPT !.up = TRUE]
      <3>1. gateway[c] \in [cert : 0 .. fabric, up : BOOLEAN] /\ gateway[c].cert # 0
        BY <2>5 DEF Typed, GatewaysFit, InitGateway
      <3>2. r \in [cert : 0 .. fabric, up : BOOLEAN] /\ r.cert # 0
        BY <3>1
      <3>3. gateway' = [gateway EXCEPT ![c] = r] /\ fabric' = fabric
        BY <2>5 DEF InitGateway, hostVars
      <3> HIDE DEF r
      <3> QED
        BY <2>1, <3>2, <3>3 DEF Typed, GatewaysFit
    <2> QED
      BY <2>3, <2>4, <2>5 DEF NetworkController, CheckStatus, LockIsFree, LockTaken, FabricTest,
         MakeFabric, InstallFails, LockReleased, Report, Handle
  <1>4. CASE Handle(c)
    <2> DEFINE r == [at |-> IF nc[c].failures + 1 > RetryLimit THEN "dead" ELSE "sleep",
                     failures |-> nc[c].failures + 1]
    <2>1. nc[c].failures \in 0 .. RetryLimit /\ RetryLimit \in Nat
      BY <1>4, NetworkAssumption DEF Handle, At, Typed, HostFits, Controller
    <2>2. r \in Controller /\ (r.at = "dead" <=> r.failures > RetryLimit)
      BY <2>1 DEF Controller
    <2>3. nc' = [nc EXCEPT ![c] = r]
      BY <1>4 DEF Handle
    <2> HIDE DEF r
    <2>4. HostFits'
      BY <1>4, <2>2, <2>3 DEF Handle, hostVars, Typed, HostFits
    <2> QED
      BY <1>1, <1>3, <2>4 DEF Typed
  <1>5. CASE ~Handle(c)
    <2>1. /\ nc' \in [Clusters -> Controller]
          /\ \A d \in Clusters : nc'[d].at = "dead" <=> nc'[d].failures > RetryLimit
      BY <1>5, ControllerMoves DEF Typed
    <2>2. faults' \in 0 .. MaxFaults
      BY NetworkAssumption DEF NetworkController, CheckStatus, LockIsFree, LockTaken, FabricTest,
         MakeFabric, InstallFails, LockReleased, Deploy, InitGateway, Report, Handle, Fault,
         Typed, HostFits
    <2>3. network' \in [Clusters -> BOOLEAN] /\ lock' \in BOOLEAN
      BY <1>5 DEF NetworkController, CheckStatus, LockIsFree, LockTaken, FabricTest, MakeFabric,
         InstallFails, LockReleased, Deploy, InitGateway, Report, hostVars, Typed, HostFits
    <2>4. disturbed' \subseteq {"raced", "killed", "early", "failed", "lost", "left", "shared",
                                "overwritten"}
      BY <1>5 DEF NetworkController, CheckStatus, LockIsFree, LockTaken, FabricTest, MakeFabric,
         InstallFails, LockReleased, Deploy, InitGateway, Report, Disturb, Typed, HostFits
    <2>5. HostFits'
      BY <1>2, <2>1, <2>2, <2>3, <2>4 DEF HostFits
    <2> QED
      BY <1>1, <1>3, <2>5 DEF Typed
  <1> QED
    BY <1>4, <1>5

(* The clusters come and go.                                               *)
LEMMA ClusterTyped ==
  ASSUME Typed, NEW c \in Clusters,
         Registers(c) \/ Leaves(c) \/ GatewayIsLost(c) \/ FlagIsOverwritten(c)
  PROVE  Typed'
  <1> USE DEF hostVars, linkVars
  <1>1. LinksFit'
    BY DEF Registers, Leaves, GatewayIsLost, FlagIsOverwritten, LinksFit, Typed
  <1>2. faults' \in 0 .. MaxFaults
    BY NetworkAssumption DEF Registers, Leaves, GatewayIsLost, FlagIsOverwritten, Fault, Typed,
                             HostFits
  <1>3. ASSUME NEW at \in {"sleep", "absent"}, nc' = [nc EXCEPT ![c] = [at |-> at, failures |-> 0]]
        PROVE  /\ nc' \in [Clusters -> Controller]
               /\ \A d \in Clusters : nc'[d].at = "dead" <=> nc'[d].failures > RetryLimit
    <2>1. [at |-> at, failures |-> 0] \in Controller /\ ~(0 > RetryLimit)
      BY NetworkAssumption DEF Controller
    <2> QED
      BY <1>3, <2>1 DEF Typed, HostFits
  <1>4. CASE Registers(c) \/ Leaves(c)
    <2>1. GatewaysFit'
      BY <1>4 DEF Registers, Leaves, Typed, GatewaysFit
    <2>2. HostFits'
      BY <1>2, <1>3, <1>4 DEF Registers, Leaves, Typed, HostFits, Disturb
    <2> QED
      BY <1>1, <2>1, <2>2 DEF Typed
  <1>5. CASE GatewayIsLost(c)
    <2>1. NoGateway \in [cert : 0 .. fabric, up : BOOLEAN] /\ ~NoGateway.up
      BY DEF NoGateway, Typed, HostFits
    <2>2. GatewaysFit'
      BY <1>5, <2>1 DEF GatewayIsLost, Typed, GatewaysFit
    <2>3. HostFits'
      BY <1>2, <1>5 DEF GatewayIsLost, Typed, HostFits, Disturb
    <2> QED
      BY <1>1, <2>2, <2>3 DEF Typed
  <1>6. CASE FlagIsOverwritten(c)
    BY <1>1, <1>6 DEF FlagIsOverwritten, Typed, HostFits, GatewaysFit
  <1> QED
    BY <1>4, <1>5, <1>6

-----------------------------------------------------------------------------
(* Users, and the link controller.                                         *)
LEMMA UserTyped ==
  ASSUME Typed, NEW l \in LinkNames, UserUnlinks(l) \/ \E pair \in Pairs : UserLinks(l, pair)
  PROVE  Typed'
  <1>1. GatewaysFit'
    BY DEF UserUnlinks, UserLinks, hostVars, Typed, GatewaysFit
  <1>2. HostFits'
    BY DEF UserUnlinks, UserLinks, hostVars, Typed, HostFits, Disturb
  <1>3. changes' \in 0 .. MaxChanges
    BY NetworkAssumption DEF UserUnlinks, UserLinks, Typed, LinksFit
  <1>4. \A object \in Link, type \in {"ADD", "DELETE"} : Event(type, l, object) \in LinkEvent
    BY DEF Event, LinkEvent
  <1>5. CASE UserUnlinks(l)
    <2>1. link[l] \in Link
      BY <1>5 DEF UserUnlinks, Typed, LinksFit
    <2>2. queue' \in Seq(LinkEvent)
      BY <1>4, <1>5, <2>1, AppendProperties DEF UserUnlinks, Typed, LinksFit
    <2>3. LinksFit'
      BY <1>3, <1>5, <2>2 DEF UserUnlinks, Typed, LinksFit
    <2> QED
      BY <1>1, <1>2, <2>3 DEF Typed
  <1>6. ASSUME NEW pair \in Pairs, UserLinks(l, pair)
        PROVE  Typed'
    <2> DEFINE object == [pair |-> pair, phase |-> "INIT"]
    <2>1. object \in Link
      BY DEF Link
    <2>2. link' = [link EXCEPT ![l] = object] /\ link'[l] = object
      BY <1>6 DEF UserLinks, Typed, LinksFit
    <2> HIDE DEF object
    <2>3. queue' \in Seq(LinkEvent)
      BY <1>4, <1>6, <2>1, <2>2, AppendProperties DEF UserLinks, Typed, LinksFit
    <2>4. LinksFit'
      BY <1>3, <1>6, <2>1, <2>2, <2>3 DEF UserLinks, Typed, LinksFit
    <2> QED
      BY <1>1, <1>2, <2>4 DEF Typed
  <1> QED
    BY <1>5, <1>6

(* The two ends of the link that is being handled are clusters.            *)
LEMMA EndsAreClusters ==
  ASSUME Typed, doing # Nothing
  PROVE  /\ doing.event \in LinkEvent /\ doing.at \in {"first", "second", "put"}
         /\ Here \in Clusters /\ There \in Clusters
         /\ \A at \in {"first", "second", "put"} :
              [doing EXCEPT !.at = at] \in [at : {"first", "second", "put"}, event : LinkEvent]
  <1>1. doing \in [at : {"first", "second", "put"}, event : LinkEvent]
    BY DEF Typed, LinksFit
  <1>2. doing.event.link.pair \in Pairs
    BY <1>1 DEF LinkEvent, Link
  <1>3. doing.event.link.pair[1] \in Clusters /\ doing.event.link.pair[2] \in Clusters
    BY <1>2, NetworkAssumption
  <1> QED
    BY <1>1, <1>3 DEF Here, There

LEMMA LinkControllerTyped ==
  ASSUME Typed, LinkController
  PROVE  Typed'
  <1> USE DEF hostVars
  <1>1. HostFits'
    BY NetworkAssumption DEF LinkController, TakeEvent, CreateDirection, DeleteDirection, PutLink,
                             Disturb, Fault, Typed, HostFits
  <1>2. CASE TakeEvent
    <2>1. Head(queue) \in LinkEvent /\ Tail(queue) \in Seq(LinkEvent)
      BY <1>2, HeadTailProperties DEF TakeEvent, Typed, LinksFit
    <2>2. doing' = Nothing \/ doing' \in [at : {"first", "second", "put"}, event : LinkEvent]
      BY <1>2, <2>1 DEF TakeEvent
    <2> QED
      BY <1>1, <1>2, <2>1, <2>2 DEF TakeEvent, Typed, GatewaysFit, LinksFit
  <1>3. CASE CreateDirection
    <2>1. doing # Nothing
      BY <1>3 DEF CreateDirection, Handling
    <2>2. doing' = Nothing \/ doing' \in [at : {"first", "second", "put"}, event : LinkEvent]
      BY <1>3, <2>1, EndsAreClusters DEF CreateDirection, NextStep, Then
    <2>3. GatewaysFit'
      <3>1. \/ peers' = peers
            \/ gateway[Here].up /\ peers' = [peers EXCEPT ![Here] = @ \cup {There}]
        BY <1>3 DEF CreateDirection
      <3>2. gateway' = gateway /\ fabric' = fabric
        BY <1>3 DEF CreateDirection
      <3> QED
        BY <2>1, <3>1, <3>2, EndsAreClusters DEF Typed, GatewaysFit
    <2> QED
      BY <1>1, <1>3, <2>2, <2>3 DEF CreateDirection, Typed, LinksFit
  <1>4. CASE DeleteDirection
    <2>1. doing # Nothing
      BY <1>4 DEF DeleteDirection, Handling
    <2>2. doing' = Nothing \/ doing' \in [at : {"first", "second", "put"}, event : LinkEvent]
      BY <1>4, <2>1, EndsAreClusters DEF DeleteDirection, NextStep, Then
    <2>3. GatewaysFit'
      <3>1. peers' = peers \/ peers' = [peers EXCEPT ![Here] = @ \ {There}]
        BY <1>4 DEF DeleteDirection
      <3>2. gateway' = gateway /\ fabric' = fabric
        BY <1>4 DEF DeleteDirection
      <3> QED
        BY <2>1, <3>1, <3>2, EndsAreClusters DEF Typed, GatewaysFit
    <2> QED
      BY <1>1, <1>4, <2>2, <2>3 DEF DeleteDirection, Typed, LinksFit
  <1>5. CASE PutLink
    <2> DEFINE object == [doing.event.link EXCEPT !.phase = "ACTIVE"]
    <2>1. doing.event.link \in Link /\ doing.event.name \in LinkNames
      BY <1>5, EndsAreClusters DEF PutLink, LinkEvent
    <2>2. object \in Link
      BY <2>1 DEF Link
    <2>3. link' = link \/ link' = [link EXCEPT ![doing.event.name] = object]
      BY <1>5 DEF PutLink
    <2> HIDE DEF object
    <2>4. LinksFit'
      BY <1>5, <2>1, <2>2, <2>3 DEF PutLink, Typed, LinksFit
    <2> QED
      BY <1>1, <1>5, <2>4 DEF PutLink, Typed, GatewaysFit
  <1> QED
    BY <1>2, <1>3, <1>4, <1>5 DEF LinkController

LEMMA InitTyped == Init => Typed
  <1> SUFFICES ASSUME Init PROVE Typed
    OBVIOUS
  <1> DEFINE r == [at |-> "absent", failures |-> 0]
  <1>1. r \in Controller /\ ~(0 > RetryLimit)
    BY NetworkAssumption DEF Controller
  <1>5. nc = [c \in Clusters |-> r] /\ r.at = "absent" /\ r.failures = 0
    BY DEF Init
  <1> HIDE DEF r
  <1>6. /\ nc \in [Clusters -> Controller]
        /\ \A c \in Clusters : nc[c].at = "dead" <=> nc[c].failures > RetryLimit
    BY <1>1, <1>5
  <1>7. fabric = 0 /\ lock = FALSE /\ network \in [Clusters -> BOOLEAN] /\ disturbed = {}
    BY DEF Init
  <1>8. faults \in 0 .. MaxFaults
    BY NetworkAssumption DEF Init
  <1>2. HostFits
    BY <1>6, <1>7, <1>8 DEF HostFits
  <1>3. GatewaysFit
    BY DEF Init, GatewaysFit, NoGateway
  <1>4. LinksFit
    BY EmptySeq, NetworkAssumption DEF Init, LinksFit
  <1> QED
    BY <1>2, <1>3, <1>4 DEF Typed

LEMMA NextTyped == Typed /\ [Next]_vars => Typed'
  <1> SUFFICES ASSUME Typed, [Next]_vars PROVE Typed'
    OBVIOUS
  <1>1. CASE UNCHANGED vars
    BY <1>1 DEF vars, Typed, HostFits, GatewaysFit, LinksFit
  <1> QED
    BY <1>1, ControllerTyped, ClusterTyped, UserTyped, LinkControllerTyped DEF Next

-----------------------------------------------------------------------------
(* What the lock gives, step by step of a network controller: nobody makes *)
(* a fabric that another one has made since the test.                      *)
LEMMA ControllerKeepsFabric ==
  ASSUME Typed, Excludes, OneFabric, NEW c \in Clusters, NetworkController(c)
  PROVE  (Excludes /\ OneFabric)'
  <1>1. disturbed \subseteq disturbed'
    BY DEF NetworkController, CheckStatus, LockIsFree, LockTaken, FabricTest, MakeFabric,
           InstallFails, LockReleased, Deploy, InitGateway, Report, Handle, Disturb
  <1> SUFFICES ASSUME "raced" \notin disturbed'
               PROVE  /\ \A d, e \in Clusters :
                            nc'[d].at \in Inside /\ nc'[e].at \in Inside => d = e
                      /\ \A d \in Clusters : nc'[d].at = "make" => fabric' = 0
                      /\ \A d \in Clusters : gateway'[d].cert \in {0, fabric'}
    BY DEF Excludes, OneFabric
  <1>2. /\ \A d, e \in Clusters : nc[d].at \in Inside /\ nc[e].at \in Inside => d = e
        /\ \A d \in Clusters : nc[d].at = "make" => fabric = 0
        /\ \A d \in Clusters : gateway[d].cert \in {0, fabric}
    BY <1>1 DEF Excludes, OneFabric
  <1>3. CASE Handle(c)
    <2>1. /\ fabric' = fabric /\ gateway' = gateway
          /\ \A d \in Clusters : d # c => nc'[d] = nc[d]
          /\ nc'[c].at \in {"dead", "sleep"}
      <3> DEFINE r == [at |-> IF nc[c].failures + 1 > RetryLimit THEN "dead" ELSE "sleep",
                       failures |-> nc[c].failures + 1]
      <3>1. nc' = [nc EXCEPT ![c] = r] /\ r.at \in {"dead", "sleep"}
        BY <1>3 DEF Handle
      <3> HIDE DEF r
      <3> QED
        BY <1>3, <3>1 DEF Handle, hostVars, Typed, HostFits
    <2> QED
      BY <1>2, <2>1 DEF Inside
  <1>4. CASE ~Handle(c)
    <2>1. /\ \A d \in Clusters : d # c => nc'[d] = nc[d]
          /\ nc'[c].at \in Inside => nc[c].at \in Inside \/ LockTaken(c)
          /\ nc'[c].at = "make" => FabricTest(c) /\ fabric = 0
      BY <1>4, ControllerMoves DEF Typed
    <2>2. LockTaken(c) => \A d \in Clusters \ {c} : nc[d].at \notin Inside
      BY DEF LockTaken, Disturb
    <2>3. \A d, e \in Clusters : nc'[d].at \in Inside /\ nc'[e].at \in Inside => d = e
      BY <1>2, <2>1, <2>2
    <2>4. CASE MakeFabric(c)
      <3>1. nc[c].at = "make" /\ fabric = 0 /\ gateway' = gateway /\ fabric' = 1
        BY <1>2, <2>4 DEF MakeFabric, At
      <3>2. \A d \in Clusters : nc'[d].at # "make"
        <4>1. nc'[c].at # "make"
          BY <2>1, <3>1 DEF FabricTest, At
        <4>2. \A d \in Clusters : d # c => nc[d].at # "make"
          BY <1>2, <3>1 DEF Inside
        <4> QED
          BY <2>1, <4>1, <4>2
      <3> QED
        BY <1>2, <2>3, <3>1, <3>2
    <2>5. CASE ~MakeFabric(c)
      <3>1. fabric' = fabric
        BY <1>4, <2>5 DEF NetworkController, CheckStatus, LockIsFree, LockTaken, FabricTest,
           InstallFails, LockReleased, Deploy, InitGateway, Report, hostVars
      <3>2. \A d \in Clusters : nc'[d].at = "make" => fabric' = 0
        BY <1>2, <2>1, <3>1
      <3>3. \A d \in Clusters : gateway'[d].cert \in {0, fabric'}
        <4>1. \A d \in Clusters : gateway[d] \in [cert : 0 .. fabric, up : BOOLEAN]
          BY DEF Typed, GatewaysFit
        <4>2. CASE gateway' = [gateway EXCEPT ![c].cert = IF @ = 0 THEN fabric ELSE @]
          BY <1>2, <3>1, <4>1, <4>2 DEF Typed, GatewaysFit
        <4>3. CASE gateway' = [gateway EXCEPT ![c].up = TRUE]
          BY <1>2, <3>1, <4>1, <4>3 DEF Typed, GatewaysFit
        <4> QED
          BY <1>2, <1>4, <2>5, <3>1, <4>2, <4>3 DEF NetworkController, CheckStatus, LockIsFree,
             LockTaken, FabricTest, InstallFails, LockReleased, Deploy, InitGateway, Report
      <3> QED
        BY <2>3, <3>2, <3>3
    <2> QED
      BY <2>4, <2>5
  <1> QED
    BY <1>3, <1>4

\* A cluster that comes or goes is not inside afterwards, and a gateway that is
\* lost has no certificate.
LEMMA ClusterKeepsFabric ==
  ASSUME Typed, Excludes, OneFabric, NEW c \in Clusters,
         Registers(c) \/ Leaves(c) \/ GatewayIsLost(c) \/ FlagIsOverwritten(c)
  PROVE  (Excludes /\ OneFabric)'
  <1>1. disturbed \subseteq disturbed' /\ fabric' = fabric
    BY DEF Registers, Leaves, GatewayIsLost, FlagIsOverwritten, Disturb, hostVars
  <1>2. \A d \in Clusters : nc'[d].at \in Inside => nc'[d] = nc[d]
    <2>1. CASE nc' = nc
      BY <2>1
    <2>2. ASSUME NEW at \in {"sleep", "absent"}, nc' = [nc EXCEPT ![c] = [at |-> at, failures |-> 0]]
          PROVE  \A d \in Clusters : nc'[d].at \in Inside => nc'[d] = nc[d]
      <3>1. nc'[c].at = at /\ \A d \in Clusters : d # c => nc'[d] = nc[d]
        BY <2>2 DEF Typed, HostFits
      <3> QED
        BY <3>1 DEF Inside
    <2> QED
      BY <2>1, <2>2 DEF Registers, Leaves, GatewayIsLost, FlagIsOverwritten
  <1>3. \A d \in Clusters : gateway'[d].cert \in {0, gateway[d].cert}
    <2>1. CASE gateway' = gateway
      BY <2>1
    <2>2. CASE GatewayIsLost(c)
      BY <2>2 DEF GatewayIsLost, NoGateway, Typed, GatewaysFit
    <2> QED
      BY <2>1, <2>2 DEF Registers, Leaves, FlagIsOverwritten
  <1>4. "make" \in Inside
    BY DEF Inside
  <1> QED
    BY <1>1, <1>2, <1>3, <1>4 DEF Excludes, OneFabric

LEMMA OthersKeepFabric ==
  ASSUME Excludes, OneFabric,
         \/ \E l \in LinkNames : UserUnlinks(l) \/ \E pair \in Pairs : UserLinks(l, pair)
         \/ LinkController \/ UNCHANGED vars
  PROVE  (Excludes /\ OneFabric)'
  <1>1. UNCHANGED <<hostVars, nc, gateway>> /\ disturbed \subseteq disturbed'
    BY DEF UserUnlinks, UserLinks, LinkController, TakeEvent, CreateDirection, DeleteDirection,
           PutLink, Disturb, vars, hostVars
  <1> QED
    BY <1>1 DEF hostVars, Excludes, OneFabric

(* However many skylets install, are killed, fail and try again: as long   *)
(* as no two have been inside the file lock at once, all gateways have     *)
(* certificates of the one fabric on the host, and every part of the state *)
(* keeps its type.                                                         *)
THEOREM GatewaysShareFabric == Spec => []FabricIsSound
  <1>1. Init => Typed /\ Excludes /\ OneFabric
    <2>1. Init => Excludes /\ OneFabric
      BY DEF Init, Excludes, OneFabric, Inside, NoGateway
    <2> QED
      BY <2>1, InitTyped
  <1>2. Typed /\ Excludes /\ OneFabric /\ [Next]_vars => (Typed /\ Excludes /\ OneFabric)'
    BY NextTyped, ControllerKeepsFabric, ClusterKeepsFabric, OthersKeepFabric DEF Next
  <1>3. Typed /\ OneFabric => FabricIsSound
    BY TypedIsTypeOK DEF FabricIsSound
  <1> QED
    BY <1>1, <1>2, <1>3, PTL DEF Spec

-----------------------------------------------------------------------------
(* The peers follow the links: what the pending events will make of them   *)
(* is what is stored.  A direction of two clusters is decided by the last  *)
(* event in the queue that concerns them, else by what is left to do of    *)
(* the event that is being handled, else by the peers as they are.         *)
Clean == disturbed \cap {"early", "failed", "lost", "left", "shared", "overwritten"} = {}

Concerns(e, c, d) == Joins(e.link, c, d)
Linked(c, d) == \E l \in LinkNames : Joins(link[l], c, d)

ToDo(c, d) == /\ doing # Nothing
              /\ \/ doing.at = "first" /\ Concerns(doing.event, c, d)
                 \/ doing.at = "second" /\ c = Here /\ d = There

Undecided(c, d) == \A i \in 1 .. Len(queue) : ~Concerns(queue[i], c, d)

QueueDecides(c, d) ==
  \A i \in 1 .. Len(queue) :
    Concerns(queue[i], c, d) /\ (\A j \in i + 1 .. Len(queue) : ~Concerns(queue[j], c, d))
      => (queue[i].type = "ADD" <=> Linked(c, d))

PeersDecide(c, d) ==
  Undecided(c, d) => IF ToDo(c, d) THEN doing.event.type = "ADD" <=> Linked(c, d)
                     ELSE d \in peers[c] <=> Linked(c, d)

Follows == \A c, d \in Clusters : QueueDecides(c, d) /\ PeersDecide(c, d)

\* A link that is not ACTIVE has its creation before it.
Activated ==
  \A l \in LinkNames : link[l] # None /\ link[l].phase # "ACTIVE" =>
    \/ \E i \in 1 .. Len(queue) : queue[i].type = "ADD" /\ queue[i].name = l
    \/ doing # Nothing /\ doing.event.type = "ADD" /\ doing.event.name = l

OneLinkEach ==
  \A k, l \in LinkNames, c, d \in Clusters :
    Joins(link[k], c, d) /\ Joins(link[l], c, d) => k = l

\* Who has peers answers; and only what was created is put.
PeersAnswer == \A c \in Clusters : peers[c] # {} => gateway[c].up
PutsCreated == doing # Nothing /\ doing.at = "put" => doing.event.type = "ADD"

LinksFollowed == /\ PeersAnswer /\ PutsCreated
                 /\ Clean => Follows /\ Activated /\ OneLinkEach

LEMMA LinkFacts ==
  ASSUME Typed
  PROVE  /\ \A o \in Link : /\ o # None /\ o.pair[1] \in Clusters /\ o.pair[2] \in Clusters
                            /\ o.pair[1] # o.pair[2]
         /\ \A l \in LinkNames : link[l] # None => link[l] \in Link
         /\ queue \in Seq(LinkEvent) /\ Len(queue) \in Nat
         /\ \A i \in 1 .. Len(queue) : queue[i] \in LinkEvent
         /\ \A e \in LinkEvent : e.link \in Link /\ e.name \in LinkNames /\ e.type \in {"ADD", "DELETE"}
         /\ doing # Nothing => doing.event \in LinkEvent /\ doing.at \in {"first", "second", "put"}
  <1>1. \A o \in Link : o # None /\ o.pair \in Pairs
    BY DEF Link, None
  <1>2. \A o \in Link : o.pair[1] \in Clusters /\ o.pair[2] \in Clusters /\ o.pair[1] # o.pair[2]
    BY <1>1, NetworkAssumption
  <1>3. \A e \in LinkEvent : e.link \in Link /\ e.name \in LinkNames /\ e.type \in {"ADD", "DELETE"}
    BY DEF LinkEvent
  <1>4. queue \in Seq(LinkEvent) /\ \A l \in LinkNames : link[l] \in Link \cup {None}
    BY DEF Typed, LinksFit
  <1> QED
    BY <1>1, <1>2, <1>3, <1>4, LenProperties, ElementOfSeq, EndsAreClusters

LEMMA QuietFollowed ==
  ASSUME LinksFollowed, UNCHANGED <<link, queue, doing, peers>>, disturbed \subseteq disturbed',
         \A c \in Clusters : gateway[c].up => gateway'[c].up
  PROVE  LinksFollowed'
  <1>1. Follows' <=> Follows
    BY DEF Follows, QueueDecides, PeersDecide, Undecided, ToDo, Linked, Concerns, Joins, Here, There
  <1>2. (Activated' <=> Activated) /\ (OneLinkEach' <=> OneLinkEach)
    BY DEF Activated, OneLinkEach, Joins
  <1> QED
    BY <1>1, <1>2 DEF LinksFollowed, Clean, PeersAnswer, PutsCreated

\* An event is put in the queue, and says what is stored by then.
\* Concerns is about the event alone.
LEMMA NextDecides ==
  ASSUME NEW c, NEW d
  PROVE  /\ Undecided(c, d)' <=> \A i \in 1 .. Len(queue') : ~Concerns(queue'[i], c, d)
         /\ QueueDecides(c, d)' <=>
              \A i \in 1 .. Len(queue') :
                Concerns(queue'[i], c, d)
                  /\ (\A j \in i + 1 .. Len(queue') : ~Concerns(queue'[j], c, d))
                  => (queue'[i].type = "ADD" <=> Linked(c, d)')
  BY DEF Undecided, QueueDecides, Concerns, Joins

LEMMA AppendFollows ==
  ASSUME Typed, Follows, UNCHANGED <<peers, doing>>, NEW e \in LinkEvent, queue' = Append(queue, e),
         \A c, d \in Clusters : IF Concerns(e, c, d) THEN e.type = "ADD" <=> Linked(c, d)'
                                ELSE Linked(c, d)' <=> Linked(c, d)
  PROVE  Follows'
  <1>1. /\ Len(queue) \in Nat /\ Len(queue') = Len(queue) + 1 /\ queue'[Len(queue) + 1] = e
        /\ \A i \in 1 .. Len(queue) : queue'[i] = queue[i]
    BY LinkFacts, AppendProperties
  <1>2. \A c, d : ToDo(c, d)' <=> ToDo(c, d)
    BY DEF ToDo, Concerns, Joins, Here, There
  <1> SUFFICES ASSUME NEW c \in Clusters, NEW d \in Clusters
               PROVE  QueueDecides(c, d)' /\ PeersDecide(c, d)'
    BY DEF Follows
  <1>3. QueueDecides(c, d) /\ PeersDecide(c, d)
    BY DEF Follows
  <1>4. \A g : Concerns(g, c, d)' <=> Concerns(g, c, d)
    BY DEF Concerns, Joins
  <1>5. CASE Concerns(e, c, d)
    <2>1. ~Undecided(c, d)'
      BY <1>1, <1>5, NextDecides
    <2>2. ASSUME NEW i \in 1 .. Len(queue'), \A j \in i + 1 .. Len(queue') : ~Concerns(queue'[j], c, d)
          PROVE  i = Len(queue) + 1
      <3>1. ~(Len(queue) + 1 \in i + 1 .. Len(queue'))
        BY <1>1, <1>5, <2>2
      <3> QED
        BY <1>1, <3>1
    <2> QED
      BY <1>1, <1>5, <2>1, <2>2, NextDecides DEF PeersDecide
  <1>6. CASE ~Concerns(e, c, d)
    <2>1. Undecided(c, d)' => Undecided(c, d)
      BY <1>1, NextDecides DEF Undecided
    <2>2. ASSUME NEW i \in 1 .. Len(queue'), Concerns(queue'[i], c, d),
                 \A j \in i + 1 .. Len(queue') : ~Concerns(queue'[j], c, d)
          PROVE  queue'[i].type = "ADD" <=> Linked(c, d)'
      <3>1. i \in 1 .. Len(queue) /\ queue'[i] = queue[i]
        BY <1>1, <1>6, <2>2
      <3>2. \A j \in i + 1 .. Len(queue) : ~Concerns(queue[j], c, d)
        BY <1>1, <2>2, <3>1
      <3> QED
        BY <1>3, <1>6, <2>2, <3>1, <3>2 DEF QueueDecides
    <2>3. QueueDecides(c, d)'
      BY <2>2, NextDecides
    <2>4. PeersDecide(c, d)'
      BY <1>2, <1>3, <1>6, <2>1 DEF PeersDecide
    <2> QED
      BY <2>3, <2>4
  <1> QED
    BY <1>5, <1>6

LEMMA TakeFollows ==
  ASSUME Typed, Follows, doing = Nothing, queue # << >>, UNCHANGED <<peers, link>>,
         queue' = Tail(queue), doing' = [at |-> "first", event |-> queue[1]]
  PROVE  Follows'
  <1> DEFINE e == queue[1]
             u == Tail(queue)
  <1>1. /\ queue \in Seq(LinkEvent) /\ Len(queue) \in Nat /\ Len(u) = Len(queue) - 1
        /\ 1 \in 1 .. Len(queue) /\ \A i \in 1 .. Len(u) : u[i] = queue[i + 1]
        /\ queue' = u
    BY LinkFacts, HeadTailProperties, EmptySeq
  <1>2. doing'.at = "first" /\ doing'.event = e /\ doing' # Nothing
    BY DEF Nothing
  <1> SUFFICES ASSUME NEW c \in Clusters, NEW d \in Clusters
               PROVE  QueueDecides(c, d)' /\ PeersDecide(c, d)'
    BY DEF Follows
  <1>3. QueueDecides(c, d) /\ PeersDecide(c, d) /\ ~ToDo(c, d)
    BY DEF Follows, ToDo
  <1>4. (ToDo(c, d)' <=> Concerns(e, c, d)) /\ (Linked(c, d)' <=> Linked(c, d))
    BY <1>2 DEF ToDo, Concerns, Joins, Linked
  <1>5. ASSUME NEW i \in 1 .. Len(u), Concerns(u[i], c, d),
               \A j \in i + 1 .. Len(u) : ~Concerns(u[j], c, d)
        PROVE  u[i].type = "ADD" <=> Linked(c, d)
    <2>1. i + 1 \in 1 .. Len(queue) /\ u[i] = queue[i + 1]
      BY <1>1
    <2>2. ASSUME NEW j \in (i + 1) + 1 .. Len(queue) PROVE ~Concerns(queue[j], c, d)
      <3>1. j - 1 \in i + 1 .. Len(u) /\ j - 1 \in 1 .. Len(u) /\ (j - 1) + 1 = j
        BY <1>1
      <3> QED
        BY <1>1, <1>5, <3>1
    <2> QED
      BY <1>3, <1>5, <2>1, <2>2 DEF QueueDecides
  <1>6. QueueDecides(c, d)'
    <2> HIDE DEF u
    <2> QED
      BY <1>1, <1>4, <1>5, NextDecides
  <1>7. PeersDecide(c, d)'
    <2> SUFFICES ASSUME Undecided(c, d)'
                 PROVE  IF Concerns(e, c, d) THEN e.type = "ADD" <=> Linked(c, d)
                        ELSE d \in peers[c] <=> Linked(c, d)
      BY <1>2, <1>4 DEF PeersDecide
    <2>1. ASSUME NEW j \in 2 .. Len(queue) PROVE ~Concerns(queue[j], c, d)
      <3>1. j - 1 \in 1 .. Len(u) /\ (j - 1) + 1 = j
        BY <1>1
      <3> QED
        BY <1>1, <3>1, NextDecides
    <2>2. CASE Concerns(e, c, d)
      BY <1>1, <1>3, <2>1, <2>2 DEF QueueDecides
    <2>3. CASE ~Concerns(e, c, d)
      <3>1. \A i \in 1 .. Len(queue) : i = 1 \/ i \in 2 .. Len(queue)
        BY <1>1
      <3>2. Undecided(c, d)
        BY <2>1, <2>3, <3>1 DEF Undecided
      <3> QED
        BY <1>3, <2>3, <3>2 DEF PeersDecide
    <2> QED
      BY <2>2, <2>3
  <1> QED
    BY <1>6, <1>7

\* One direction is made, respectively removed.
LEMMA DirectionFollows ==
  ASSUME Typed, PeersAnswer, Follows, CreateDirection \/ DeleteDirection, Clean'
  PROVE  Follows'
  <1> DEFINE e == doing.event
             a == e.link.pair[IF doing.at = "first" THEN 1 ELSE 2]
             b == e.link.pair[IF doing.at = "first" THEN 2 ELSE 1]
  <1>1. /\ UNCHANGED <<queue, link>> /\ doing # Nothing /\ doing.at \in {"first", "second"}
        /\ e \in LinkEvent /\ e.link \in Link /\ e.link # None
        /\ a = Here /\ b = There /\ a \in Clusters /\ b \in Clusters /\ a # b
        /\ peers \in [Clusters -> SUBSET Clusters]
        /\ doing \in [at : {"first", "second", "put"}, event : LinkEvent]
    <2>1. UNCHANGED <<queue, link>> /\ doing # Nothing /\ doing.at \in {"first", "second"}
      BY DEF CreateDirection, DeleteDirection, Handling
    <2>2. e \in LinkEvent /\ e.link \in Link /\ e.link # None
      BY <2>1, LinkFacts
    <2>3. a \in Clusters /\ b \in Clusters /\ a # b
      BY <2>1, <2>2, LinkFacts
    <2> QED
      BY <2>1, <2>2, <2>3 DEF Here, There, Typed, GatewaysFit, LinksFit
  <1>2. ~("early" \in disturbed') /\ ~("failed" \in disturbed')
    BY DEF Clean
  <1>3. /\ peers' \in [Clusters -> SUBSET Clusters]
        /\ b \in peers'[a] <=> e.type = "ADD"
        /\ \A c, d \in Clusters : c # a \/ d # b => (d \in peers'[c] <=> d \in peers[c])
    <2> HIDE DEF e, a, b
    <2>1. CASE CreateDirection
      <3>1. e.type = "ADD"
        BY <2>1 DEF CreateDirection, Handling, e
      <3>2. \/ b \in peers[a] /\ peers' = peers
            \/ peers' = [peers EXCEPT ![a] = @ \cup {b}]
        BY <1>1, <1>2, <2>1 DEF CreateDirection, ArePeers, Disturb
      <3> QED
        BY <1>1, <3>1, <3>2
    <2>2. CASE DeleteDirection
      <3>1. e.type = "DELETE"
        BY <2>2 DEF DeleteDirection, Handling, e
      <3>2. b \in peers[a] => ArePeers(a, b)
        BY <1>1 DEF ArePeers, PeersAnswer
      <3>3. \/ b \notin peers[a] /\ peers' = peers
            \/ peers' = [peers EXCEPT ![a] = @ \ {b}]
        BY <1>1, <1>2, <2>2, <3>2 DEF DeleteDirection, Disturb
      <3> QED
        BY <1>1, <3>1, <3>3
    <2> QED
      BY <2>1, <2>2
  <1>4. /\ doing.at = "first" => doing' # Nothing /\ doing'.at = "second" /\ doing'.event = e
        /\ doing.at = "second" => doing' = Nothing \/ doing'.at = "put"
    <2>1. \A at \in {"first", "second", "put"} :
            LET r == [doing EXCEPT !.at = at]
            IN  r # Nothing /\ r.at = at /\ r.event = e
      BY <1>1 DEF Nothing
    <2>2. doing.at = "first" => Then("second")
      BY <1>1, <1>2 DEF CreateDirection, DeleteDirection, NextStep, Disturb, Then
    <2>3. doing.at = "second" => doing' = Nothing \/ Then("put")
      BY <1>1, <1>2 DEF CreateDirection, DeleteDirection, NextStep, Disturb
    <2> QED
      BY <2>1, <2>2, <2>3 DEF Then
  <1> SUFFICES ASSUME NEW c \in Clusters, NEW d \in Clusters
               PROVE  QueueDecides(c, d)' /\ PeersDecide(c, d)'
    BY DEF Follows
  <1>5. QueueDecides(c, d) /\ PeersDecide(c, d)
    BY DEF Follows
  <1>6. /\ Linked(c, d)' <=> Linked(c, d)
        /\ Undecided(c, d)' <=> Undecided(c, d)
        /\ QueueDecides(c, d)' <=> QueueDecides(c, d)
    BY <1>1 DEF Linked, Undecided, QueueDecides, Concerns, Joins
  <1>7. Concerns(e, c, d) <=> (c = a /\ d = b) \/ (c = b /\ d = a)
    BY <1>1 DEF Concerns, Joins
  <1>8. ToDo(c, d) <=> (c = a /\ d = b) \/ (doing.at = "first" /\ c = b /\ d = a)
    <2> HIDE DEF a, b
    <2> QED
      BY <1>1, <1>7 DEF ToDo, e
  <1>9. ToDo(c, d)' <=> doing.at = "first" /\ c = b /\ d = a
    BY <1>1, <1>4 DEF ToDo, Here, There
  <1>10. PeersDecide(c, d)'
    <2> SUFFICES ASSUME Undecided(c, d)
                 PROVE  IF ToDo(c, d)' THEN doing'.event.type = "ADD" <=> Linked(c, d)
                        ELSE d \in peers'[c] <=> Linked(c, d)
      BY <1>6 DEF PeersDecide
    <2> HIDE DEF a, b
    <2>1. CASE c = a /\ d = b
      BY <1>1, <1>3, <1>5, <1>8, <1>9, <2>1 DEF PeersDecide
    <2>2. CASE ToDo(c, d)'
      BY <1>1, <1>4, <1>5, <1>8, <1>9, <2>2 DEF PeersDecide
    <2>3. CASE ~(c = a /\ d = b) /\ ~ToDo(c, d)'
      BY <1>1, <1>3, <1>5, <1>8, <1>9, <2>3 DEF PeersDecide
    <2> QED
      BY <2>1, <2>2, <2>3
  <1> QED
    BY <1>5, <1>6, <1>10

LEMMA PutFollows ==
  ASSUME Typed, PutsCreated, Follows, Activated, OneLinkEach, PutLink, Clean'
  PROVE  Follows' /\ Activated' /\ OneLinkEach'
  <1> DEFINE e == doing.event
             l == e.name
             object == [e.link EXCEPT !.phase = "ACTIVE"]
  <1>1. /\ UNCHANGED <<queue, peers>> /\ doing # Nothing /\ doing.at = "put" /\ doing' = Nothing
        /\ e \in LinkEvent /\ e.link \in Link /\ l \in LinkNames
    BY LinkFacts DEF PutLink
  <1>2. object \in Link /\ object.pair = e.link.pair /\ object.phase = "ACTIVE"
    BY <1>1 DEF Link
  <1>3. link' = IF link[l] = None THEN link ELSE [link EXCEPT ![l] = object]
    BY DEF PutLink
  <1>4. link[l] = None \/ Joins(link[l], e.link.pair[1], e.link.pair[2])
    BY DEF PutLink, Disturb, Clean
  <1> HIDE DEF object, e, l
  <1>5. /\ \A k \in LinkNames : k # l => link'[k] = link[k]
        /\ link'[l] = IF link[l] = None THEN None ELSE object
    BY <1>1, <1>3 DEF Typed, LinksFit
  <1>6. ASSUME NEW k \in LinkNames, NEW c, NEW d
        PROVE  Joins(link'[k], c, d) <=> Joins(link[k], c, d)
    <2>1. CASE k # l \/ link[l] = None
      BY <1>5, <2>1
    <2>2. CASE k = l /\ link[l] # None
      BY <1>2, <1>4, <1>5, <2>2, LinkFacts DEF Joins
    <2> QED
      BY <2>1, <2>2
  <1>7. /\ \A c, d : \A k \in LinkNames : Joins(link[k], c, d)' <=> Joins(link[k], c, d)
        /\ \A c, d : Linked(c, d)' <=> Linked(c, d)
    <2>1. \A c, d : \A k \in LinkNames : Joins(link[k], c, d)' <=> Joins(link'[k], c, d)
      BY DEF Joins
    <2>2. \A c, d : Linked(c, d)' <=> \E k \in LinkNames : Joins(link'[k], c, d)
      BY <2>1 DEF Linked
    <2> QED
      BY <1>6, <2>1, <2>2 DEF Linked
  <1>8. \A c, d : ~ToDo(c, d) /\ ~ToDo(c, d)'
    BY <1>1 DEF ToDo
  <1>9. Follows'
    <2> SUFFICES ASSUME NEW c \in Clusters, NEW d \in Clusters
                 PROVE  QueueDecides(c, d)' /\ PeersDecide(c, d)'
      BY DEF Follows
    <2>1. QueueDecides(c, d) /\ PeersDecide(c, d)
      BY DEF Follows
    <2>2. (Undecided(c, d)' <=> Undecided(c, d)) /\ (QueueDecides(c, d)' <=> QueueDecides(c, d))
      BY <1>1, <1>7, NextDecides DEF Undecided, QueueDecides
    <2> QED
      BY <1>1, <1>7, <1>8, <2>1, <2>2 DEF PeersDecide
  <1>10. Activated'
    <2> SUFFICES ASSUME NEW k \in LinkNames, link'[k] # None, link'[k].phase # "ACTIVE"
                 PROVE  \E i \in 1 .. Len(queue) : queue[i].type = "ADD" /\ queue[i].name = k
      BY <1>1 DEF Activated
    <2>1. k # l /\ link'[k] = link[k]
      BY <1>2, <1>5
    <2> QED
      BY <2>1 DEF Activated, e, l
  <1>11. OneLinkEach'
    BY <1>7 DEF OneLinkEach
  <1> QED
    BY <1>9, <1>10, <1>11

\* What joins two clusters afterwards, in terms of the links that are there.
LEMMA NextLinked ==
  ASSUME NEW c, NEW d
  PROVE  /\ \A k \in LinkNames : Joins(link[k], c, d)' <=> Joins(link'[k], c, d)
         /\ Linked(c, d)' <=> \E k \in LinkNames : Joins(link'[k], c, d)
  <1>1. \A k \in LinkNames : Joins(link[k], c, d)' <=> Joins(link'[k], c, d)
    BY DEF Joins
  <1> QED
    BY <1>1 DEF Linked

LEMMA UserLinksFollowed ==
  ASSUME Typed, LinksFollowed, NEW l \in LinkNames, NEW pair \in Pairs, UserLinks(l, pair)
  PROVE  LinksFollowed'
  <1> DEFINE r == [pair |-> pair, phase |-> "INIT"]
             e == Event("ADD", l, r)
  <1>1. /\ link[l] = None /\ link' = [link EXCEPT ![l] = r] /\ queue' = Append(queue, Event("ADD", l, link'[l]))
        /\ UNCHANGED <<peers, doing, gateway>> /\ disturbed \subseteq disturbed'
    BY DEF UserLinks, Disturb
  <1>2. link'[l] = r /\ \A k \in LinkNames : k # l => link'[k] = link[k]
    BY <1>1 DEF Typed, LinksFit
  <1>3. queue' = Append(queue, e) /\ r \in Link /\ r.pair = pair /\ r # None
    BY <1>1, <1>2 DEF Link, None
  <1>4. e \in LinkEvent /\ e.type = "ADD" /\ e.name = l /\ e.link = r
    BY <1>3 DEF Event, LinkEvent
  <1> HIDE DEF r, e
  <1>5. PeersAnswer' /\ PutsCreated'
    BY <1>1 DEF LinksFollowed, PeersAnswer, PutsCreated
  <1> SUFFICES ASSUME Clean'
               PROVE  Follows' /\ Activated' /\ OneLinkEach'
    BY <1>5 DEF LinksFollowed
  <1>6. Follows /\ Activated /\ OneLinkEach
    BY <1>1 DEF LinksFollowed, Clean
  <1>7. \A k \in LinkNames : ~Joins(link[k], pair[1], pair[2])
    BY DEF UserLinks, Disturb, Clean
  <1>8. ASSUME NEW c, NEW d
        PROVE  /\ Concerns(e, c, d) <=> {pair[1], pair[2]} = {c, d}
               /\ Joins(link'[l], c, d) <=> Concerns(e, c, d)
               /\ ~Joins(link[l], c, d)
               /\ Concerns(e, c, d) => \A k \in LinkNames : ~Joins(link[k], c, d)
    BY <1>1, <1>2, <1>3, <1>4, <1>7 DEF Concerns, Joins
  <1>9. Follows'
    <2>1. ASSUME NEW c \in Clusters, NEW d \in Clusters
          PROVE  IF Concerns(e, c, d) THEN e.type = "ADD" <=> Linked(c, d)'
                 ELSE Linked(c, d)' <=> Linked(c, d)
      BY <1>2, <1>4, <1>8, NextLinked DEF Linked
    <2> QED
      BY <1>1, <1>3, <1>4, <1>6, <2>1, AppendFollows
  <1>10. Activated'
    <2>1. /\ Len(queue) \in Nat /\ Len(queue') = Len(queue) + 1 /\ queue'[Len(queue) + 1] = e
          /\ \A i \in 1 .. Len(queue) : queue'[i] = queue[i]
      BY <1>3, <1>4, LinkFacts, AppendProperties
    <2> SUFFICES ASSUME NEW k \in LinkNames, link'[k] # None, link'[k].phase # "ACTIVE"
                 PROVE  \/ \E i \in 1 .. Len(queue') : queue'[i].type = "ADD" /\ queue'[i].name = k
                        \/ doing # Nothing /\ doing.event.type = "ADD" /\ doing.event.name = k
      BY <1>1 DEF Activated
    <2>2. CASE k = l
      BY <1>4, <2>1, <2>2
    <2>3. CASE k # l
      BY <1>2, <1>6, <2>1, <2>3 DEF Activated
    <2> QED
      BY <2>2, <2>3
  <1>11. OneLinkEach'
    <2>1. ASSUME NEW k \in LinkNames, NEW m \in LinkNames, NEW c \in Clusters, NEW d \in Clusters,
                 Joins(link'[k], c, d), Joins(link'[m], c, d)
          PROVE  k = m
      BY <1>2, <1>6, <1>8, <2>1 DEF OneLinkEach
    <2> QED
      BY <2>1, NextLinked DEF OneLinkEach
  <1> QED
    BY <1>9, <1>10, <1>11

LEMMA UserUnlinksFollowed ==
  ASSUME Typed, LinksFollowed, NEW l \in LinkNames, UserUnlinks(l)
  PROVE  LinksFollowed'
  <1> DEFINE e == Event("DELETE", l, link[l])
  <1>1. /\ link[l] # None /\ link[l] \in Link /\ link' = [link EXCEPT ![l] = None]
        /\ queue' = Append(queue, e)
        /\ UNCHANGED <<peers, doing, gateway, disturbed>>
    BY LinkFacts DEF UserUnlinks
  <1>2. link'[l] = None /\ \A k \in LinkNames : k # l => link'[k] = link[k]
    BY <1>1 DEF Typed, LinksFit
  <1>3. e \in LinkEvent /\ e.type = "DELETE" /\ e.name = l /\ e.link = link[l]
    BY <1>1 DEF Event, LinkEvent
  <1> HIDE DEF e
  <1>4. PeersAnswer' /\ PutsCreated'
    BY <1>1 DEF LinksFollowed, PeersAnswer, PutsCreated
  <1> SUFFICES ASSUME Clean'
               PROVE  Follows' /\ Activated' /\ OneLinkEach'
    BY <1>4 DEF LinksFollowed
  <1>5. Follows /\ Activated /\ OneLinkEach
    BY <1>1 DEF LinksFollowed, Clean
  <1>6. ASSUME NEW c, NEW d
        PROVE  (Concerns(e, c, d) <=> Joins(link[l], c, d)) /\ ~Joins(link'[l], c, d)
    BY <1>2, <1>3 DEF Concerns, Joins
  <1>7. Follows'
    <2>1. ASSUME NEW c \in Clusters, NEW d \in Clusters
          PROVE  IF Concerns(e, c, d) THEN e.type = "ADD" <=> Linked(c, d)'
                 ELSE Linked(c, d)' <=> Linked(c, d)
      BY <1>2, <1>3, <1>5, <1>6, NextLinked DEF Linked, OneLinkEach
    <2> QED
      BY <1>1, <1>3, <1>5, <2>1, AppendFollows
  <1>8. Activated'
    <2>1. /\ Len(queue) \in Nat /\ Len(queue') = Len(queue) + 1
          /\ \A i \in 1 .. Len(queue) : queue'[i] = queue[i]
      BY <1>1, <1>3, LinkFacts, AppendProperties
    <2> SUFFICES ASSUME NEW k \in LinkNames, link'[k] # None, link'[k].phase # "ACTIVE"
                 PROVE  \/ \E i \in 1 .. Len(queue') : queue'[i].type = "ADD" /\ queue'[i].name = k
                        \/ doing # Nothing /\ doing.event.type = "ADD" /\ doing.event.name = k
      BY <1>1 DEF Activated
    <2> QED
      BY <1>2, <1>5, <2>1 DEF Activated
  <1>9. OneLinkEach'
    <2>1. ASSUME NEW k \in LinkNames, NEW m \in LinkNames, NEW c \in Clusters, NEW d \in Clusters,
                 Joins(link'[k], c, d), Joins(link'[m], c, d)
          PROVE  k = m
      BY <1>2, <1>5, <1>6, <2>1 DEF OneLinkEach
    <2> QED
      BY <2>1, NextLinked DEF OneLinkEach
  <1> QED
    BY <1>7, <1>8, <1>9

LEMMA TakeEventFollowed ==
  ASSUME Typed, LinksFollowed, TakeEvent
  PROVE  LinksFollowed'
  <1>1. /\ queue # << >> /\ queue' = Tail(queue) /\ doing = Nothing
        /\ UNCHANGED <<peers, link, gateway>> /\ disturbed \subseteq disturbed'
    BY DEF TakeEvent, Disturb
  <1>2. /\ queue \in Seq(LinkEvent) /\ Len(queue) \in Nat /\ Head(queue) = queue[1]
        /\ Len(queue') = Len(queue) - 1
        /\ \A i \in 1 .. Len(queue') : queue'[i] = queue[i + 1]
    BY <1>1, LinkFacts, HeadTailProperties, EmptySeq
  <1>3. \/ doing' = [at |-> "first", event |-> queue[1]]
        \/ doing' = Nothing /\ "early" \in disturbed'
    BY <1>2 DEF TakeEvent, Disturb
  <1>4. PeersAnswer' /\ PutsCreated'
    BY <1>1, <1>3 DEF LinksFollowed, PeersAnswer, PutsCreated, Nothing
  <1> SUFFICES ASSUME Clean'
               PROVE  Follows' /\ Activated' /\ OneLinkEach'
    BY <1>4 DEF LinksFollowed
  <1>5. Follows /\ Activated /\ OneLinkEach
    BY <1>1 DEF LinksFollowed, Clean
  <1>6. doing' = [at |-> "first", event |-> queue[1]]
    BY <1>3 DEF Clean
  <1>7. Follows'
    BY <1>1, <1>5, <1>6, TakeFollows
  <1>8. Activated'
    <2>1. doing' # Nothing /\ doing'.event = queue[1]
      BY <1>6 DEF Nothing
    <2> SUFFICES ASSUME NEW k \in LinkNames, link[k] # None, link[k].phase # "ACTIVE"
                 PROVE  \/ \E i \in 1 .. Len(queue') : queue'[i].type = "ADD" /\ queue'[i].name = k
                        \/ doing' # Nothing /\ doing'.event.type = "ADD" /\ doing'.event.name = k
      BY <1>1 DEF Activated
    <2>2. PICK i \in 1 .. Len(queue) : queue[i].type = "ADD" /\ queue[i].name = k
      BY <1>1, <1>5 DEF Activated
    <2>3. CASE i = 1
      BY <2>1, <2>2, <2>3
    <2>4. CASE i # 1
      <3>1. i - 1 \in 1 .. Len(queue') /\ (i - 1) + 1 = i
        BY <1>2, <2>4
      <3> QED
        BY <1>2, <2>2, <3>1
    <2> QED
      BY <2>3, <2>4
  <1>9. OneLinkEach'
    BY <1>1, <1>5, NextLinked DEF OneLinkEach
  <1> QED
    BY <1>7, <1>8, <1>9

LEMMA DirectionFollowed ==
  ASSUME Typed, LinksFollowed, CreateDirection \/ DeleteDirection
  PROVE  LinksFollowed'
  <1>1. /\ UNCHANGED <<queue, link, gateway>> /\ disturbed \subseteq disturbed'
        /\ doing # Nothing /\ doing.at \in {"first", "second"}
        /\ doing \in [at : {"first", "second", "put"}, event : LinkEvent]
        /\ peers \in [Clusters -> SUBSET Clusters]
    BY DEF CreateDirection, DeleteDirection, Handling, NextStep, Then, Disturb, Typed, LinksFit,
           GatewaysFit
  <1>2. \A at \in {"second", "put"} :
          LET r == [doing EXCEPT !.at = at] IN r # Nothing /\ r.at = at /\ r.event = doing.event
    BY <1>1 DEF Nothing
  <1>3. PeersAnswer'
    <2>1. CASE CreateDirection
      <3>1. \/ peers' = peers
            \/ gateway[Here].up /\ peers' = [peers EXCEPT ![Here] = @ \cup {There}]
        BY <2>1 DEF CreateDirection
      <3> HIDE DEF Here, There
      <3> QED
        BY <1>1, <3>1 DEF LinksFollowed, PeersAnswer
    <2>2. CASE DeleteDirection
      <3>1. peers' = peers \/ peers' = [peers EXCEPT ![Here] = @ \ {There}]
        BY <2>2 DEF DeleteDirection
      <3> HIDE DEF Here, There
      <3> QED
        BY <1>1, <3>1 DEF LinksFollowed, PeersAnswer
    <2> QED
      BY <2>1, <2>2
  <1>4. /\ CreateDirection => /\ doing.event.type = "ADD"
                              /\ \/ Then("second") \/ Then("put")
                                 \/ doing' = Nothing /\ "early" \in disturbed'
        /\ DeleteDirection => doing.event.type = "DELETE" /\ (Then("second") \/ doing' = Nothing)
    BY <1>1 DEF CreateDirection, DeleteDirection, Handling, NextStep, Disturb
  <1>5. PutsCreated'
    BY <1>1, <1>2, <1>4 DEF PutsCreated, Then
  <1> SUFFICES ASSUME Clean'
               PROVE  Follows' /\ Activated' /\ OneLinkEach'
    BY <1>3, <1>5 DEF LinksFollowed
  <1>6. Follows /\ Activated /\ OneLinkEach /\ PeersAnswer
    BY <1>1 DEF LinksFollowed, Clean
  <1>7. Follows'
    BY <1>6, DirectionFollows
  <1>8. Activated'
    <2>1. doing.event.type = "ADD" => doing' # Nothing /\ doing'.event = doing.event
      BY <1>1, <1>2, <1>4 DEF Then, Clean
    <2> QED
      BY <1>1, <1>6, <2>1 DEF Activated
  <1>9. OneLinkEach'
    BY <1>1, <1>6, NextLinked DEF OneLinkEach
  <1> QED
    BY <1>7, <1>8, <1>9

LEMMA PutLinkFollowed ==
  ASSUME Typed, LinksFollowed, PutLink
  PROVE  LinksFollowed'
  <1>1. UNCHANGED <<peers, gateway>> /\ doing' = Nothing /\ disturbed \subseteq disturbed'
    BY DEF PutLink, Disturb
  <1>2. PeersAnswer' /\ PutsCreated'
    BY <1>1 DEF LinksFollowed, PeersAnswer, PutsCreated
  <1>3. ASSUME Clean' PROVE Follows' /\ Activated' /\ OneLinkEach'
    <2>1. PutsCreated /\ Follows /\ Activated /\ OneLinkEach
      BY <1>1, <1>3 DEF LinksFollowed, Clean
    <2> QED
      BY <1>3, <2>1, PutFollows
  <1> QED
    BY <1>2, <1>3 DEF LinksFollowed

LEMMA NetworkControllerFollowed ==
  ASSUME Typed, LinksFollowed, NEW c \in Clusters, NetworkController(c)
  PROVE  LinksFollowed'
  <1>1. UNCHANGED <<link, queue, doing, peers>> /\ disturbed \subseteq disturbed'
    BY DEF NetworkController, CheckStatus, LockIsFree, LockTaken, FabricTest, MakeFabric, InstallFails,
           LockReleased, Deploy, InitGateway, Report, Handle, linkVars, Disturb
  <1>2. \A d \in Clusters : gateway[d].up => gateway'[d].up
    <2>1. CASE gateway' = gateway
      BY <2>1
    <2>2. CASE gateway' # gateway /\ InitGateway(c)
      <3>1. gateway' = [gateway EXCEPT ![c].up = TRUE]
        BY <2>2 DEF InitGateway
      <3> QED
        BY <3>1 DEF Typed, GatewaysFit
    <2>3. CASE Deploy(c)
      <3>1. gateway' = gateway \/ \E cert : gateway' = [gateway EXCEPT ![c].cert = cert]
        BY <2>3 DEF Deploy
      <3> QED
        BY <3>1 DEF Typed, GatewaysFit
    <2> QED
      BY <2>1, <2>2, <2>3
         DEF NetworkController, CheckStatus, LockIsFree, LockTaken, FabricTest, MakeFabric,
             InstallFails, LockReleased, Report, Handle
  <1> QED
    BY <1>1, <1>2, QuietFollowed

LEMMA ClusterFollowed ==
  ASSUME Typed, LinksFollowed, NEW c \in Clusters,
         Registers(c) \/ Leaves(c) \/ GatewayIsLost(c) \/ FlagIsOverwritten(c)
  PROVE  LinksFollowed'
  <1>1. CASE Registers(c) \/ Leaves(c) \/ FlagIsOverwritten(c)
    <2>1. UNCHANGED <<link, queue, doing, peers, gateway>> /\ disturbed \subseteq disturbed'
      BY <1>1 DEF Registers, Leaves, FlagIsOverwritten, linkVars, Disturb
    <2> QED
      BY <2>1, QuietFollowed
  <1>2. CASE GatewayIsLost(c)
    <2>1. /\ "lost" \in disturbed' /\ UNCHANGED doing
          /\ gateway' = [gateway EXCEPT ![c] = NoGateway] /\ peers' = [peers EXCEPT ![c] = {}]
      BY <1>2 DEF GatewayIsLost, linkVars, Disturb
    <2>2. PeersAnswer' /\ PutsCreated'
      BY <2>1 DEF LinksFollowed, PeersAnswer, PutsCreated, Typed, GatewaysFit
    <2> QED
      BY <2>1, <2>2 DEF LinksFollowed, Clean
  <1> QED
    BY <1>1, <1>2

LEMMA NextFollowed ==
  ASSUME Typed, LinksFollowed, [Next]_vars
  PROVE  LinksFollowed'
  <1>1. CASE UNCHANGED vars
    BY <1>1, QuietFollowed DEF vars
  <1>2. CASE LinkController
    BY <1>2, TakeEventFollowed, DirectionFollowed, PutLinkFollowed DEF LinkController
  <1>3. CASE \E l \in LinkNames : UserUnlinks(l) \/ \E pair \in Pairs : UserLinks(l, pair)
    BY <1>3, UserLinksFollowed, UserUnlinksFollowed
  <1>4. CASE \E c \in Clusters : \/ Registers(c) \/ Leaves(c) \/ GatewayIsLost(c)
                                 \/ FlagIsOverwritten(c)
                                 \/ NetworkController(c)
    BY <1>4, ClusterFollowed, NetworkControllerFollowed
  <1> QED
    BY <1>1, <1>2, <1>3, <1>4 DEF Next

LEMMA InitFollowed == Init => LinksFollowed
  <1> SUFFICES ASSUME Init
               PROVE  LinksFollowed
    OBVIOUS
  <1>1. /\ Len(queue) = 0 /\ doing = Nothing
        /\ \A c \in Clusters : peers[c] = {}
        /\ \A l \in LinkNames : link[l] = None
    BY DEF Init
  <1>2. Follows
    BY <1>1 DEF Follows, QueueDecides, PeersDecide, ToDo, Linked, Joins
  <1> QED
    BY <1>1, <1>2 DEF LinksFollowed, PeersAnswer, PutsCreated, Activated, OneLinkEach, Joins

LEMMA FollowedIsPeers ==
  ASSUME Typed, LinksFollowed
  PROVE  PeersFollowLinks
  <1> SUFFICES ASSUME AtRest, Clean, NEW c \in Clusters, NEW d \in Clusters
               PROVE  d \in peers[c] <=> \E l \in LinkNames : Joins(link[l], c, d) /\ link[l].phase = "ACTIVE"
    BY DEF PeersFollowLinks, Clean
  <1>1. Len(queue) = 0 /\ doing = Nothing
    BY DEF AtRest
  <1>2. Undecided(c, d) /\ ~ToDo(c, d)
    BY <1>1 DEF Undecided, ToDo
  <1>3. d \in peers[c] <=> Linked(c, d)
    BY <1>2 DEF LinksFollowed, Follows, PeersDecide
  <1>4. \A l \in LinkNames : link[l] # None => link[l].phase = "ACTIVE"
    BY <1>1 DEF LinksFollowed, Activated
  <1>5. \A l \in LinkNames : Joins(link[l], c, d) => link[l] # None
    BY DEF Joins
  <1> QED
    BY <1>3, <1>4, <1>5 DEF Linked

(* When the link controller has nothing left to do, two gateways are peers *)
(* of each other exactly if an ACTIVE link joins their clusters, whatever  *)
(* links were created and deleted in whatever order, also those that use a *)
(* name again; unless one of the disturbances that the property names has  *)
(* happened.                                                               *)
THEOREM PeersFollowTheLinks == Spec => []PeersFollowLinks
  <1>1. Init => Typed /\ LinksFollowed
    BY InitTyped, InitFollowed
  <1>2. Typed /\ LinksFollowed /\ [Next]_vars => (Typed /\ LinksFollowed)'
    BY NextTyped, NextFollowed
  <1>3. Typed /\ LinksFollowed => PeersFollowLinks
    BY FollowedIsPeers
  <1> QED
    BY <1>1, <1>2, <1>3, PTL DEF Spec
=============================================================================
