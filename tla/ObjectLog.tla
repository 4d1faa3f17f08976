------------------------------ MODULE ObjectLog ------------------------------
(***************************************************************************)
(* What the object store of SkyShift promises to everything built on it:   *)
(* a map from names to values whose every change is announced by exactly   *)
(* one event, and by the event that fits.  An object that did not exist is *)
(* announced with ADD, one that did with UPDATE, and one that goes away    *)
(* with a DELETE that carries its last value.  An informer that replays    *)
(* the log from the beginning therefore never meets an UPDATE or a DELETE  *)
(* of a name it does not know, which is what its event controller assumes. *)
(*                                                                         *)
(* ApiServer.tla (etcd, the ETCD client and the request handlers) is shown *)
(* to implement this module.                                               *)
(***************************************************************************)
EXTENDS Naturals, Sequences

CONSTANTS Names,    \* the names of the objects of one kind
          Values,   \* what an object may hold
          Absent    \* the store's answer for a name without an object,
                  \*   which its users take from outside Values

VARIABLES store,    \* store[n]: the value under name n, or Absent
          log       \* the events announced so far, oldest first

vars == <<store, log>>

Event == [type : {"ADD", "UPDATE", "DELETE"}, name : Names, value : Values]

TypeOK == /\ store \in [Names -> Values \cup {Absent}]
          /\ log \in Seq(Event)

Announce(type, n, v) ==
  log' = Append(log, [type |-> type, name |-> n, value |-> v])

Init == /\ store = [n \in Names |-> Absent]
        /\ log = << >>

Add(n, v) == /\ store[n] = Absent
             /\ store' = [store EXCEPT ![n] = v]
             /\ Announce("ADD", n, v)

Modify(n, v) == /\ store[n] # Absent
                /\ store' = [store EXCEPT ![n] = v]
                /\ Announce("UPDATE", n, v)

Remove(n) == /\ store[n] # Absent
             /\ store' = [store EXCEPT ![n] = Absent]
             /\ Announce("DELETE", n, store[n])

Next == \E n \in Names : \/ \E v \in Values : Add(n, v) \/ Modify(n, v)
                         \/ Remove(n)

Spec == Init /\ [][Next]_vars

-----------------------------------------------------------------------------
(* Event i is the latest of the first k events about its name.             *)
LatestAmong(i, k) == /\ i \in 1 .. k
                     /\ \A j \in 1 .. k : log[j].name = log[i].name => j <= i

(* The log is a complete account of the store: a name has an object        *)
(* exactly if some event is about it and the latest is not a DELETE, and   *)
(* the object is then the one that event carries.                          *)
LogDescribesStore ==
  \A n \in Names :
    IF store[n] = Absent
    THEN \A i \in 1 .. Len(log) :
           log[i].name = n /\ LatestAmong(i, Len(log)) => log[i].type = "DELETE"
    ELSE \E i \in 1 .. Len(log) :
           /\ log[i].name = n
           /\ LatestAmong(i, Len(log))
           /\ log[i].type # "DELETE"
           /\ log[i].value = store[n]

(* An UPDATE or a DELETE of a name always follows an ADD or an UPDATE of   *)
(* it as the latest earlier event, and an ADD never does: a watcher that   *)
(* applies the events in order always finds the name present, respectively *)
(* absent.                                                                 *)
EventsFit ==
  \A k \in 1 .. Len(log) :
    LET known == \E i \in 1 .. (k - 1) : /\ log[i].name = log[k].name
                                         /\ LatestAmong(i, k - 1)
                                         /\ log[i].type # "DELETE"
    IN  log[k].type = "ADD" <=> ~known
=============================================================================
