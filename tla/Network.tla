------------------------------- MODULE Network -------------------------------
(***************************************************************************)
(* How clusters come to speak to each other.  The network controller of    *)
(* every skylet installs a clusterlink gateway on its cluster, all of them *)
(* from files of one host that a lock file guards; the link controller of  *)
(* the Sky Manager makes the gateways of a link peers of each other.       *)
(*                                                                         *)
(* A fabric is a pair of root certificates; it has a number.  Gateways     *)
(* trust each other if their certificates are of one fabric.               *)
(***************************************************************************)
EXTENDS Naturals, Sequences, FiniteSets

CONSTANTS Clusters, LinkNames,
          Pairs,        \* the <<source, target>> that users link
          KindClusters, \* those that run in Docker, and have a fixed address
          RetryLimit,   \* DEFAULT_RETRY_LIMIT of the network controllers
          MaxChanges, MaxFaults \* bounds; a change is a link created or
                        \* deleted; a fault is a command that fails, a gateway
                        \* lost, or a cluster deleted

ASSUME NetworkAssumption ==
  /\ Pairs \subseteq {p \in Clusters \X Clusters : p[1] # p[2]}
  /\ KindClusters \subseteq Clusters
  /\ {RetryLimit, MaxChanges, MaxFaults} \subseteq Nat

VARIABLES fabric,    \* the root certificates on the host, 0 for none
          lock,      \* install.lock exists
          nc,        \* nc[c]: the network controller of c: [at, failures]
          gateway,   \* gateway[c]: [cert, up]; cert is that of the gateway
                     \*   deployed on c, 0 for none; up: gwctl reaches it
          peers,     \* peers[c]: what the gateway of c knows
          network,   \* network[c]: status.network_enabled
          link,      \* link[l]: the stored link, or None
          queue,     \* the events of the link controller
          doing,     \* the event it handles, or Nothing
          changes, faults,
          disturbed  \* history: what has come between links and peers

hostVars == <<fabric, lock>>
linkVars == <<link, queue, doing, changes>>
vars == <<fabric, lock, nc, gateway, peers, network, link, queue, doing,
          changes, faults, disturbed>>

None == [pair |-> << >>]
Nothing == [at |-> "idle"]
NoGateway == [cert |-> 0, up |-> FALSE]

Inside == {"test", "make", "release", "failing"}  \* between the lock's two ends

Link == [pair : Pairs, phase : {"INIT", "ACTIVE"}]
LinkEvent == [type : {"ADD", "DELETE"}, name : LinkNames, link : Link]

TypeOK ==
  /\ fabric \in Nat /\ lock \in BOOLEAN
  /\ nc \in [Clusters -> [at : {"absent", "sleep", "wait", "take", "deploy", "init", "report",
                                "handle", "dead"} \cup Inside,
                          failures : 0 .. RetryLimit + 1]]
  /\ \A c \in Clusters : nc[c].at = "dead" <=> nc[c].failures > RetryLimit
  /\ gateway \in [Clusters -> [cert : 0 .. fabric, up : BOOLEAN]]
  /\ peers \in [Clusters -> SUBSET Clusters]
  /\ \A c \in Clusters : peers[c] # {} => gateway[c].cert # 0
  /\ network \in [Clusters -> BOOLEAN]
  /\ link \in [LinkNames -> Link \cup {None}]
  /\ queue \in Seq(LinkEvent)
  /\ doing = Nothing \/ doing \in [at : {"first", "second", "put"}, event : LinkEvent]
  /\ changes \in 0 .. MaxChanges /\ faults \in 0 .. MaxFaults
  /\ disturbed \subseteq {"raced", "killed", "early", "failed", "lost", "left", "shared",
                         "overwritten"}

Init == /\ fabric = 0 /\ lock = FALSE
        /\ nc = [c \in Clusters |-> [at |-> "absent", failures |-> 0]]
        /\ gateway = [c \in Clusters |-> NoGateway]
        /\ peers = [c \in Clusters |-> {}]
        /\ network = [c \in Clusters |-> FALSE]
        /\ link = [l \in LinkNames |-> None]
        /\ queue = << >> /\ doing = Nothing
        /\ changes = 0 /\ faults = 0
        /\ disturbed = {}

Fault == faults < MaxFaults /\ faults' = faults + 1
Disturb(kinds) == disturbed' = disturbed \cup kinds

-----------------------------------------------------------------------------
(* The clusters and their skylets.  A deleted cluster's skylet is killed   *)
(* where it stands.                                                        *)
Known(c) == nc[c].at # "absent"

Registers(c) ==
  /\ ~Known(c)
  /\ nc' = [nc EXCEPT ![c] = [at |-> "sleep", failures |-> 0]]
  /\ UNCHANGED <<hostVars, gateway, peers, network, linkVars, faults, disturbed>>

Leaves(c) ==
  /\ Known(c)
  /\ Fault
  /\ nc' = [nc EXCEPT ![c] = [at |-> "absent", failures |-> 0]]
  /\ network' = [network EXCEPT ![c] = FALSE]
  /\ Disturb({"left"} \cup IF nc[c].at \in Inside THEN {"killed"} ELSE {})
  /\ UNCHANGED <<hostVars, gateway, peers, linkVars>>

GatewayIsLost(c) ==
  /\ gateway[c].cert # 0
  /\ Fault
  /\ gateway' = [gateway EXCEPT ![c] = NoGateway]
  /\ peers' = [peers EXCEPT ![c] = {}]
  /\ Disturb({"lost"})
  /\ UNCHANGED <<hostVars, nc, network, linkVars>>

(* The other controllers put the whole cluster object back as they got it, *)
(* with the flag as it was some time before.                               *)
FlagIsOverwritten(c) ==
  /\ Known(c) /\ network[c]
  /\ network' = [network EXCEPT ![c] = FALSE]
  /\ UNCHANGED <<hostVars, nc, gateway, peers, linkVars, faults, disturbed>>

-----------------------------------------------------------------------------
(* The network controller: controller_loop and launch_clusterlink.         *)
At(c, at) == nc[c].at = at
Go(c, at) == nc' = [nc EXCEPT ![c].at = at]

CheckStatus(c) ==
  /\ At(c, "sleep")
  /\ Go(c, IF gateway[c].up THEN "report" ELSE "wait")
  /\ UNCHANGED <<hostVars, gateway, peers, network, linkVars, faults, disturbed>>

(* _install_lock_acquire: the file is looked for, and then created, which  *)
(* succeeds if it has come to be there.                                    *)
LockIsFree(c) ==
  /\ At(c, "wait") /\ ~lock
  /\ Go(c, "take")
  /\ UNCHANGED <<hostVars, gateway, peers, network, linkVars, faults, disturbed>>

LockTaken(c) ==
  /\ At(c, "take")
  /\ lock' = TRUE
  /\ Go(c, "test")
  /\ Disturb(IF \E d \in Clusters \ {c} : nc[d].at \in Inside THEN {"raced"} ELSE {})
  /\ UNCHANGED <<fabric, gateway, peers, network, linkVars, faults>>

(* Mutant of FabricTest: the certificates are made anew each time.         *)
FabricTestAlways(c) ==
  /\ At(c, "test")
  /\ Go(c, "make")
  /\ UNCHANGED <<hostVars, gateway, peers, network, linkVars, faults, disturbed>>

(* Under the lock: the binary is installed, and the fabric created, if     *)
(* they are not there.  The binary is the same whoever installs it.        *)
FabricTest(c) ==
  /\ At(c, "test")
  /\ Go(c, IF fabric = 0 THEN "make" ELSE "release")
  /\ UNCHANGED <<hostVars, gateway, peers, network, linkVars, faults, disturbed>>

(* clusterlink create fabric writes over what is there.                    *)
MakeFabric(c) ==
  /\ At(c, "make")
  /\ fabric' = fabric + 1
  /\ Go(c, "release")
  /\ UNCHANGED <<lock, gateway, peers, network, linkVars, faults, disturbed>>

InstallFails(c) ==
  /\ nc[c].at \in {"test", "make"}
  /\ Fault
  /\ Go(c, "failing")
  /\ UNCHANGED <<hostVars, gateway, peers, network, linkVars, disturbed>>

(* Mutant of LockReleased: not in a finally block.                         *)
LockReleasedOnSuccess(c) ==
  /\ nc[c].at \in {"release", "failing"}
  /\ lock' = (lock /\ At(c, "failing"))
  /\ Go(c, IF lock /\ At(c, "release") THEN "deploy" ELSE "handle")
  /\ UNCHANGED <<fabric, gateway, peers, network, linkVars, faults, disturbed>>

(* _install_lock_release, in the finally block: os.remove raises if the    *)
(* file is gone.                                                           *)
LockReleased(c) ==
  /\ nc[c].at \in {"release", "failing"}
  /\ lock' = FALSE
  /\ Go(c, IF lock /\ At(c, "release") THEN "deploy" ELSE "handle")
  /\ UNCHANGED <<fabric, gateway, peers, network, linkVars, faults, disturbed>>

(* A new certificate for the peer; what is deployed already stays, with    *)
(* the certificate it has (a conflict is passed over).                     *)
Deploy(c) ==
  /\ At(c, "deploy")
  /\ \/ /\ gateway' = [gateway EXCEPT ![c].cert = IF @ = 0 THEN fabric ELSE @]
        /\ Go(c, "init")
        /\ UNCHANGED faults
     \/ /\ Fault
        /\ Go(c, "handle")
        /\ gateway' \in {gateway, [gateway EXCEPT ![c].cert = IF @ = 0 THEN fabric ELSE @]}
  /\ UNCHANGED <<hostVars, peers, network, linkVars, disturbed>>

(* _init_clusterlink_gateway: gwctl init, which may fail, and a wait for   *)
(* the gateway to answer that has no end.                                  *)
InitGateway(c) ==
  /\ At(c, "init")
  /\ \/ /\ gateway[c].cert # 0
        /\ gateway' = [gateway EXCEPT ![c].up = TRUE]
        /\ Go(c, "report")
        /\ UNCHANGED faults
     \/ /\ Fault
        /\ Go(c, "handle")
        /\ UNCHANGED gateway
  /\ UNCHANGED <<hostVars, peers, network, linkVars, disturbed>>

(* update_network_state: a get, and a put if the flag differs.  What is    *)
(* written in between is written over, so that one step is enough.         *)
Report(c) ==
  /\ At(c, "report")
  /\ network' = [network EXCEPT ![c] = TRUE]
  /\ Go(c, "sleep")
  /\ UNCHANGED <<hostVars, gateway, peers, linkVars, faults, disturbed>>

(* heartbeat_error_handler: over the limit, the thread ends.               *)
Handle(c) ==
  /\ At(c, "handle")
  /\ network' = [network EXCEPT ![c] = FALSE]
  /\ nc' = [nc EXCEPT ![c] = [at |-> IF @.failures + 1 > RetryLimit THEN "dead" ELSE "sleep",
                              failures |-> @.failures + 1]]
  /\ UNCHANGED <<hostVars, gateway, peers, linkVars, faults, disturbed>>

NetworkController(c) ==
  \/ CheckStatus(c) \/ LockIsFree(c) \/ LockTaken(c) \/ FabricTest(c) \/ MakeFabric(c)
  \/ InstallFails(c) \/ LockReleased(c) \/ Deploy(c) \/ InitGateway(c)
  \/ Report(c) \/ Handle(c)

-----------------------------------------------------------------------------
(* Users and links.                                                        *)
Event(type, l, object) == [type |-> type, name |-> l, link |-> object]
Joins(object, c, d) == object # None /\ {object.pair[1], object.pair[2]} = {c, d}

UserLinks(l, pair) ==
  /\ link[l] = None
  /\ changes < MaxChanges
  /\ changes' = changes + 1
  /\ link' = [link EXCEPT ![l] = [pair |-> pair, phase |-> "INIT"]]
  /\ queue' = Append(queue, Event("ADD", l, link'[l]))
  /\ Disturb(IF \E k \in LinkNames : Joins(link[k], pair[1], pair[2]) THEN {"shared"} ELSE {})
  /\ UNCHANGED <<hostVars, nc, gateway, peers, network, doing, faults>>

UserUnlinks(l) ==
  /\ link[l] # None
  /\ changes < MaxChanges
  /\ changes' = changes + 1
  /\ link' = [link EXCEPT ![l] = None]
  /\ queue' = Append(queue, Event("DELETE", l, link[l]))
  /\ UNCHANGED <<hostVars, nc, gateway, peers, network, doing, faults, disturbed>>

-----------------------------------------------------------------------------
(* The link controller: one event at a time, one direction after the       *)
(* other.  An exception other than of a command drops the event.           *)
TakeEvent ==
  /\ doing = Nothing /\ queue # << >>
  /\ queue' = Tail(queue)
  /\ LET event == Head(queue)
         known == \A i \in {1, 2} : Known(event.link.pair[i])
     IN  /\ doing' = IF known THEN [at |-> "first", event |-> event] ELSE Nothing
         /\ Disturb(IF known THEN {} ELSE {"early"})
  /\ UNCHANGED <<hostVars, nc, gateway, peers, network, link, changes, faults>>

Handling(type) == doing # Nothing /\ doing.at \in {"first", "second"} /\ doing.event.type = type

Here == doing.event.link.pair[IF doing.at = "first" THEN 1 ELSE 2]
There == doing.event.link.pair[IF doing.at = "first" THEN 2 ELSE 1]

(* check_link_status.                                                      *)
ArePeers(c, d) == gateway[c].up /\ d \in peers[c]

(* _get_clusterlink_gw_target raises if there is no gateway's service, and *)
(* answers None while that one has no address yet.                         *)
HasAddress(c) == c \in KindClusters \/ gateway[c].cert # 0

Then(at) == doing' = [doing EXCEPT !.at = at]
NextStep(last) == IF doing.at = "first" THEN Then("second") ELSE last

(* Mutant of CreateDirection: the link is taken to be the same both ways.  *)
CreateDirectionOnce ==
  /\ Handling("ADD")
  /\ \/ /\ HasAddress(There) /\ gateway[Here].up
        /\ peers' = [peers EXCEPT ![Here] = @ \cup {There}]
        /\ Then("put")
        /\ UNCHANGED <<faults, disturbed>>
     \/ /\ ~(HasAddress(There) /\ gateway[Here].up)
        /\ doing' = Nothing
        /\ Disturb({"early"})
        /\ UNCHANGED <<peers, faults>>
  /\ UNCHANGED <<hostVars, nc, gateway, network, link, queue, changes>>

(* _create_directional_link.  If the gateway here does not answer, the     *)
(* command fails, which create_link returns and no one looks at.           *)
CreateDirection ==
  /\ Handling("ADD")
  /\ \/ /\ ArePeers(Here, There)
        /\ NextStep(Then("put"))
        /\ UNCHANGED <<peers, faults, disturbed>>
     \/ /\ ~ArePeers(Here, There) /\ ~HasAddress(There)
        /\ \/ doing' = Nothing /\ UNCHANGED peers
           \/ /\ At(There, "deploy") /\ gateway[Here].up
              /\ peers' = [peers EXCEPT ![Here] = @ \cup {There}]
              /\ NextStep(Then("put"))
        /\ Disturb({"early"})
        /\ UNCHANGED faults
     \/ /\ ~ArePeers(Here, There) /\ HasAddress(There) /\ gateway[Here].up
        /\ peers' = [peers EXCEPT ![Here] = @ \cup {There}]
        /\ NextStep(Then("put"))
        /\ UNCHANGED <<faults, disturbed>>
     \/ /\ ~ArePeers(Here, There) /\ HasAddress(There)
        /\ IF gateway[Here].up THEN Fault /\ Disturb({"failed"})
           ELSE Disturb({"early"}) /\ UNCHANGED faults
        /\ Then("put")
        /\ UNCHANGED peers
  /\ UNCHANGED <<hostVars, nc, gateway, network, link, queue, changes>>

(* _delete_directional_link.                                               *)
DeleteDirection ==
  /\ Handling("DELETE")
  /\ \/ /\ peers' = IF ArePeers(Here, There) THEN [peers EXCEPT ![Here] = @ \ {There}] ELSE peers
        /\ NextStep(doing' = Nothing)
        /\ UNCHANGED <<faults, disturbed>>
     \/ /\ ArePeers(Here, There)
        /\ Fault
        /\ Disturb({"failed"})
        /\ doing' = Nothing
        /\ UNCHANGED peers
  /\ UNCHANGED <<hostVars, nc, gateway, network, link, queue, changes>>

(* The link of the event is put, over whatever link has its name now: also *)
(* over one that joins other clusters.  The phase is ACTIVE, and FAILED    *)
(* only for an exception that no command raises.                           *)
PutLink ==
  /\ doing # Nothing /\ doing.at = "put"
  /\ LET l == doing.event.name
         pair == doing.event.link.pair
     IN  /\ link' = IF link[l] = None THEN link
                    ELSE [link EXCEPT ![l] = [doing.event.link EXCEPT !.phase = "ACTIVE"]]
         /\ Disturb(IF link[l] = None \/ Joins(link[l], pair[1], pair[2]) THEN {}
                    ELSE {"overwritten"})
  /\ doing' = Nothing
  /\ UNCHANGED <<hostVars, nc, gateway, peers, network, queue, changes, faults>>

LinkController == TakeEvent \/ CreateDirection \/ DeleteDirection \/ PutLink

-----------------------------------------------------------------------------
Next == \/ \E c \in Clusters : \/ Registers(c) \/ Leaves(c) \/ GatewayIsLost(c)
                               \/ FlagIsOverwritten(c)
                               \/ NetworkController(c)
        \/ \E l \in LinkNames : UserUnlinks(l) \/ \E pair \in Pairs : UserLinks(l, pair)
        \/ LinkController

Spec == Init /\ [][Next]_vars

(* Threads run; a file that is there again and again is not promised to    *)
(* let a particular one pass.                                              *)
FairSpec == /\ Spec
            /\ \A c \in Clusters : WF_vars(NetworkController(c))
            /\ WF_vars(LinkController)

-----------------------------------------------------------------------------
AtRest == queue = << >> /\ doing = Nothing

(* All gateways have certificates of the fabric on the host, and trust     *)
(* each other, although every skylet installs for itself, is killed, fails *)
(* and tries again; unless two of them were inside the lock.               *)
OneFabric ==
  "raced" \notin disturbed => \A c \in Clusters : gateway[c].cert \in {0, fabric}

(* ... and all parts keep their types.                                     *)
FabricIsSound == TypeOK /\ OneFabric

(* _install_lock_acquire "blocks until lock using a file".                 *)
LockExcludes ==
  \A c, d \in Clusters : nc[c].at \in Inside /\ nc[d].at \in Inside => c = d

(* When the link controller has nothing to do, two gateways are peers of   *)
(* each other, both ways, exactly if an ACTIVE link joins their clusters,  *)
(* in whatever order links of one name were created, deleted and created   *)
(* again; unless one of the named disturbances has happened.  One of them  *)
(* is that the controller puts a link over one of its name that joins      *)
(* other clusters: what is deleted then is not what was made.              *)
PeersFollowLinks ==
  AtRest /\ disturbed \cap {"early", "failed", "lost", "left", "shared", "overwritten"} = {} =>
    \A c, d \in Clusters :
      d \in peers[c] <=> \E l \in LinkNames : Joins(link[l], c, d) /\ link[l].phase = "ACTIVE"

(* A pathway for every ACTIVE link, without the exceptions.                *)
ActiveLinksWork ==
  AtRest => \A l \in LinkNames :
    link[l] # None /\ link[l].phase = "ACTIVE" => link[l].pair[2] \in peers[link[l].pair[1]]

(* A network controller that waits for the installation lock, or holds it, *)
(* comes out again; unless another one was killed inside.                  *)
InstallersGetThrough ==
  \A c \in Clusters :
    nc[c].at \in {"wait", "take"} \cup Inside ~>
      (nc[c].at \notin {"wait", "take"} \cup Inside \/ "killed" \in disturbed)
=============================================================================
