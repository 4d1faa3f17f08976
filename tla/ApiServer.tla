------------------------------ MODULE ApiServer ------------------------------
(***************************************************************************)
(* The API server (api_server/api_server.py) over etcd: the handlers that  *)
(* create, read, update, patch and delete the objects of one kind, and the *)
(* clients that use the ETCD client's conditional update directly.         *)
(*                                                                         *)
(* uvicorn runs several worker processes.  In each, the `async def`        *)
(* handlers run one at a time on the event loop (they never await between  *)
(* two etcd calls), while delete_object is a plain `def` and runs on a     *)
(* thread of the worker's pool.  So a loop and a thread are processes      *)
(* here; each works on one request at a time, and every etcd call of a     *)
(* handler is a step of its own that those of other processes may come     *)
(* between.                                                                *)
(***************************************************************************)
EXTENDS Etcd

CONSTANTS Loops,        \* event loops: one per worker process
          Threads,      \* pool threads, which run delete_object
          Clients,      \* users of ETCDClient.update with a resource_version
          MaxRevision,  \* bound: no new writing request at this revision
          EtcdMayFail   \* whether an etcd call may raise

ASSUME ApiAssumption == MaxRevision \in Nat /\ EtcdMayFail \in BOOLEAN

VARIABLES handler,  \* handler[p]: the request p works on, and how far it is
          reply     \* reply[p]: what p answered last

vars == <<kv, revision, raw, handler, reply>>

Procs == Loops \cup Threads \cup Clients

NoRequest == [stage |-> "idle"]

(* stage: the next etcd call.  seen: the pair a "swap" read beforehand.    *)
Request == [op : {"create", "get", "update", "patch", "delete", "swap"},
            stage : {"check", "write", "reread", "put", "read", "txn"},
            name : Names, value : Values, seen : KeyValue \cup {Absent}]

Replies == {"none", "ok", "bad", "notfound", "conflict", "error"}

TypeOK == /\ EtcdTypeOK
          /\ handler \in [Procs -> Request \cup {NoRequest}]
          /\ reply \in [Procs -> Replies]

Init == /\ EtcdInit
        /\ handler = [p \in Procs |-> NoRequest]
        /\ reply = [p \in Procs |-> "none"]

-----------------------------------------------------------------------------
Serving(p, op, stage) == /\ handler[p] # NoRequest
                         /\ handler[p].op = op
                         /\ handler[p].stage = stage

Name(p) == handler[p].name

GoOn(p, stage) == /\ handler' = [handler EXCEPT ![p].stage = stage]
                  /\ UNCHANGED reply

Answer(p, r) == /\ handler' = [handler EXCEPT ![p] = NoRequest]
                /\ reply' = [reply EXCEPT ![p] = r]

(* The answer to a write that etcd applied: its response may still be lost *)
(* on the way, which the handler sees as an exception.                     *)
AnswerWrite(p) == \/ Answer(p, "ok")
                  \/ EtcdMayFail /\ Answer(p, "error")

FirstStage(op) == CASE op = "swap" -> "read"
                    [] op = "delete" -> "write"
                    [] OTHER -> "check"

OpsOf(p) == IF p \in Loops THEN {"create", "get", "update", "patch"}
            ELSE IF p \in Threads THEN {"delete"} ELSE {"swap"}

Receive(p, op, n, v) ==
  /\ handler[p] = NoRequest
  /\ op \in OpsOf(p)
  /\ revision < MaxRevision \/ op = "get"
  /\ handler' = [handler EXCEPT ![p] = [op |-> op, stage |-> FirstStage(op),
                                        name |-> n, value |-> v, seen |-> Absent]]
  /\ reply' = [reply EXCEPT ![p] = "none"]
  /\ UNCHANGED etcdVars

(* create_object: list the kind, refuse a name that is listed, ...         *)
CreateCheck(p) ==
  /\ Serving(p, "create", "check")
  /\ IF Exists(Name(p)) THEN Answer(p, "conflict") ELSE GoOn(p, "write")
  /\ UNCHANGED etcdVars

(* ... refuse a READY cluster that cannot be reached, ...                  *)
CreateUnreachable(p) ==
  /\ Serving(p, "create", "write")
  /\ Answer(p, "bad")
  /\ UNCHANGED etcdVars

(* ... and write the object, whatever is under its key by now.             *)
CreateWrite(p) ==
  /\ Serving(p, "create", "write")
  /\ Put(Name(p), handler[p].value)
  /\ AnswerWrite(p)

(* get_object *)
Get(p) ==
  /\ Serving(p, "get", "check")
  /\ Answer(p, IF Exists(Name(p)) THEN "ok" ELSE "notfound")
  /\ UNCHANGED etcdVars

(* update_object: list the kind and look for the name, ...                 *)
UpdateCheck(p) ==
  /\ Serving(p, "update", "check")
  /\ IF Exists(Name(p)) THEN GoOn(p, "reread") ELSE Answer(p, "bad")
  /\ UNCHANGED etcdVars

(* Mutant of PatchCheck: the spec is lost in the object it is taken from.  *)
PatchNests(p) ==
  /\ Serving(p, "patch", "check")
  /\ IF Exists(Name(p))
     THEN /\ handler' = [handler EXCEPT
                 ![p].stage = "reread",
                 ![p].value = [spec |-> kv[Name(p)].value,
                               status |-> handler[p].value.status]]
          /\ UNCHANGED reply
     ELSE Answer(p, "notfound")
  /\ UNCHANGED etcdVars

(* patch_object: read the object and apply the patch to what was read (a   *)
(* patch of the status, the one the repository's comments show), ...       *)
PatchCheck(p) ==
  /\ Serving(p, "patch", "check")
  /\ IF Exists(Name(p))
     THEN /\ handler' = [handler EXCEPT
                 ![p].stage = "reread",
                 ![p].value = [spec |-> kv[Name(p)].value.spec,
                               status |-> handler[p].value.status]]
          /\ UNCHANGED reply
     ELSE Answer(p, "notfound")
  /\ UNCHANGED etcdVars

(* ... ETCDClient.update without a version: read the key again, ...        *)
UpdateReread(p) ==
  /\ Serving(p, "update", "reread") \/ Serving(p, "patch", "reread")
  /\ IF Exists(Name(p)) THEN GoOn(p, "put") ELSE Answer(p, "notfound")
  /\ UNCHANGED etcdVars

(* ... and put the value, whatever happened to the key since.              *)
UpdatePut(p) ==
  /\ Serving(p, "update", "put") \/ Serving(p, "patch", "put")
  /\ Put(Name(p), handler[p].value)
  /\ Answer(p, "ok")

(* The put of an update is wrapped in suppress(Exception): when it fails,  *)
(* the handler goes on as if it had not.                                   *)
UpdatePutSuppressed(p) ==
  /\ EtcdMayFail
  /\ Serving(p, "update", "put") \/ Serving(p, "patch", "put")
  /\ Answer(p, "ok")
  /\ UNCHANGED etcdVars

(* delete_object *)
DeleteObject(p) ==
  /\ Serving(p, "delete", "write")
  /\ \/ Delete(Name(p)) /\ AnswerWrite(p)
     \/ ~Exists(Name(p)) /\ Answer(p, "notfound") /\ UNCHANGED etcdVars

(* A caller of ETCDClient.update with a resource_version reads the object, *)
SwapRead(p) ==
  /\ Serving(p, "swap", "read")
  /\ IF Exists(Name(p))
     THEN /\ handler' = [handler EXCEPT ![p].stage = "reread",
                                        ![p].seen = kv[Name(p)]]
          /\ UNCHANGED reply
     ELSE Answer(p, "notfound")
  /\ UNCHANGED etcdVars

(* update reads the key once more for its existence,                       *)
SwapReread(p) ==
  /\ Serving(p, "swap", "reread")
  /\ IF Exists(Name(p)) THEN GoOn(p, "txn") ELSE Answer(p, "notfound")
  /\ UNCHANGED etcdVars

(* and puts in a transaction that compares the revision the caller read.   *)
SwapTxn(p) ==
  /\ Serving(p, "swap", "txn")
  /\ IF TxnSucceeds(Name(p), handler[p].seen)
     THEN Put(Name(p), handler[p].value) /\ AnswerWrite(p)
     ELSE Answer(p, "conflict") /\ UNCHANGED etcdVars

(* A call that raises without effect on the store, in a handler that lets  *)
(* the exception through: the answer is an error.                          *)
CallRaises(p) ==
  /\ EtcdMayFail
  /\ handler[p] # NoRequest /\ handler[p].stage # "put"
  /\ Answer(p, "error")
  /\ UNCHANGED etcdVars

Step(p) == \/ CreateCheck(p) \/ CreateUnreachable(p) \/ CreateWrite(p)
           \/ Get(p)
           \/ UpdateCheck(p) \/ PatchCheck(p)
           \/ UpdateReread(p) \/ UpdatePut(p) \/ UpdatePutSuppressed(p)
           \/ DeleteObject(p)
           \/ SwapRead(p) \/ SwapReread(p) \/ SwapTxn(p)
           \/ CallRaises(p)

Next == \E p \in Procs :
          \/ \E op \in OpsOf(p), n \in Names, v \in Values : Receive(p, op, n, v)
          \/ Step(p)

Spec == Init /\ [][Next]_vars

-----------------------------------------------------------------------------
(* Every etcd-level change is one the abstract object log allows, and is   *)
(* announced by the event that fits: the version counter of the key tells  *)
(* watch_generator_fn a creation from an update even after deletions.      *)
Log == INSTANCE ObjectLog WITH store <- VisibleStore, log <- VisibleLog

ImplementsObjectLog == Log!Spec

(* The events the watch reports are a complete account of the store.       *)
WatchDescribesStore == Log!LogDescribesStore

(* A watcher that follows the events from the start is never told of an    *)
(* update or a deletion of a name it does not know, nor of a creation of   *)
(* one it does.                                                            *)
WatchEventsFit == Log!EventsFit

(* p changes the store in this step.                                       *)
WritesFor(p, ops) == /\ handler[p] # NoRequest
                     /\ handler[p].op \in ops
                     /\ handler'[p] # handler[p]
                     /\ revision' # revision

(* create_object promises a 409 for a name that is taken: it never writes  *)
(* over an object, though its check and its write are separate calls.      *)
(* Another worker that creates the name in between breaks the promise.     *)
NoCreateOverwrite ==
  [][\A p \in Procs : WritesFor(p, {"create"}) => ~Exists(Name(p))]_vars

(* An update with a resource_version only ever replaces the very pair its  *)
(* caller read: whatever happened in between, a deletion and re-creation   *)
(* under the same name included, leads to a ConflictError.                 *)
SwapReplacesWhatWasRead ==
  [][\A p \in Procs : WritesFor(p, {"swap"}) => kv[Name(p)] = handler[p].seen]_vars
=============================================================================
