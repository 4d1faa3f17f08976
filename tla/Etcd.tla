-------------------------------- MODULE Etcd --------------------------------
(***************************************************************************)
(* The etcd store behind the API server, as the ETCD client               *)
(* (skyshift/etcd_client/etcd_client.py) uses it: single-key puts, deletes *)
(* and compare-and-put transactions, and a watch that reports every change *)
(* as a raw gRPC event, which watch_generator_fn turns into an ADD, UPDATE *)
(* or DELETE.  A call to etcd is one atomic step of the server; everything *)
(* the client does with two calls takes two steps of the modules above.    *)
(***************************************************************************)
EXTENDS Naturals, Sequences

CONSTANTS Names,     \* names of the objects of one kind (one key prefix)
          Specs,     \* contents of an object's "spec" field
          Statuses,  \* contents of its "status" field
          Absent     \* no key-value pair

Values == [spec : Specs, status : Statuses]

VARIABLES kv,        \* kv[n]: value, version and mod_revision, or Absent
          revision,  \* the store's revision: one more for every change
          raw        \* the gRPC events of the changes, oldest first

etcdVars == <<kv, revision, raw>>

Positive == Nat \ {0}

KeyValue == [value : Values, version : Positive, mod : Positive]

ASSUME EtcdAbsentAssumption == Absent \notin Values /\ Absent \notin KeyValue

RawEvent == [type : {"PUT", "DEL"}, name : Names, kv : KeyValue]

EtcdTypeOK == /\ kv \in [Names -> KeyValue \cup {Absent}]
              /\ revision \in Nat
              /\ raw \in Seq(RawEvent)

EtcdInit == /\ kv = [n \in Names |-> Absent]
            /\ revision = 0
            /\ raw = << >>

Exists(n) == kv[n] # Absent

(* A put counts the versions of a key from its creation: 1 for a new key.  *)
NextVersion(n) == IF Exists(n) THEN kv[n].version + 1 ELSE 1

Put(n, v) ==
  LET new == [value |-> v, version |-> NextVersion(n), mod |-> revision + 1]
  IN  /\ kv' = [kv EXCEPT ![n] = new]
      /\ revision' = revision + 1
      /\ raw' = Append(raw, [type |-> "PUT", name |-> n, kv |-> new])

(* Only a delete of an existing key changes the store; its event carries   *)
(* the deleted pair (prev_kv).                                             *)
Delete(n) ==
  /\ Exists(n)
  /\ kv' = [kv EXCEPT ![n] = Absent]
  /\ revision' = revision + 1
  /\ raw' = Append(raw, [type |-> "DEL", name |-> n, kv |-> kv[n]])

(* Mutant of TxnSucceeds: it compares the key's version counter.           *)
TxnComparesVersion(n, seen) ==
  (IF Exists(n) THEN kv[n].version ELSE 0) = seen.version

(* The compare of update's transaction: the key's mod_revision (0 for a    *)
(* key that does not exist) against the one of the pair the caller read.   *)
TxnSucceeds(n, seen) == (IF Exists(n) THEN kv[n].mod ELSE 0) = seen.mod

(* Mutants of WatchEventType: a creation is told by the revision of the    *)
(* store; a deletion is not told from a put.                               *)
WatchEventTypeByRevision(e) ==
  IF e.type = "DEL" THEN "DELETE" ELSE IF e.kv.mod = 1 THEN "ADD" ELSE "UPDATE"
WatchEventTypeOfPuts(e) == IF e.kv.version = 1 THEN "ADD" ELSE "UPDATE"

(* watch_generator_fn: the type of event a watcher of the API is told.     *)
WatchEventType(e) ==
  IF e.type = "DEL" THEN "DELETE" ELSE IF e.kv.version = 1 THEN "ADD" ELSE "UPDATE"

WatchEvent(e) ==
  [type |-> WatchEventType(e), name |-> e.name, value |-> e.kv.value]

(* What a client of the API sees of the store: values by name, and events. *)
VisibleStore == [n \in Names |-> IF Exists(n) THEN kv[n].value ELSE Absent]
VisibleLog == [i \in 1 .. Len(raw) |-> WatchEvent(raw[i])]
=============================================================================
