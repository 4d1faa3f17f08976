------------------------------ MODULE Informer ------------------------------
(***************************************************************************)
(* One informer (skyshift/structs/informer.py) over the objects of a kind. *)
(* Its reflector thread lists the API server and then follows a watch,     *)
(* putting events into the informer queue; its event controller thread     *)
(* takes them out, applies them to the cache and calls the callbacks, and  *)
(* lists the API server itself when the queue stays empty for the resync   *)
(* period.  The store is the abstract one of ObjectLog, which the API      *)
(* server implements: an object's value is the revision that wrote it.     *)
(*                                                                         *)
(* A watch begins at the revision of the moment it opens, so it does not   *)
(* report what happened since the list before it; a broken watch loses     *)
(* what the server had not sent.  Both are repaired by lists only.         *)
(***************************************************************************)
EXTENDS Naturals, Sequences, FiniteSets

CONSTANTS Names,
          MaxRevision,    \* bound: changes made to the store
          MaxReconnects,  \* bound: times the reflector starts over
          Resyncs,        \* whether the resync period may elapse
          ListMayFail     \* whether lists may raise

ASSUME InformerAssumption == /\ IsFiniteSet(Names)
                             /\ MaxRevision \in Nat
                             /\ MaxReconnects \in Nat
                             /\ Resyncs \in BOOLEAN
                             /\ ListMayFail \in BOOLEAN

NotThere == 0
Revisions == Nat \ {NotThere}

VARIABLES store, log,   \* the API server's objects and their events
          cache,        \* cache[n]: the revision cached for n, or NotThere
          queue,        \* informer_queue
          reflector,    \* what the reflector thread does next
          pos,          \* the last event of the log put in the watch stream
          reconnects,   \* times the reflector started over so far
          controller,   \* what the event controller thread does next
          listed,       \* listed[t]: the last list answered to thread t,
                        \*   and the length of the log at that moment
          disturbed     \* history: the kinds of disturbance so far

vars == <<store, log, cache, queue, reflector, pos, reconnects, controller,
          listed, disturbed>>

Objects == INSTANCE ObjectLog WITH Values <- Revisions, Absent <- NotThere

Snapshot == [Names -> Nat]

(* An object changed between a list and the opening of the watch; a list   *)
(* was compared with the cache while events were pending; a resync put     *)
(* events in the queue; it did so beside pending events or an open watch;  *)
(* a resync failed.                                                        *)
Disturbances == {"gap", "overlap", "resync", "clash", "failed"}

TypeOK == /\ Objects!TypeOK
          /\ cache \in Snapshot
          /\ queue \in Seq(Objects!Event)
          /\ reflector \in {"start", "list", "compare", "open", "watch", "dead"}
          /\ pos \in 0 .. Len(log)
          /\ reconnects \in 0 .. MaxReconnects
          /\ controller \in {"start", "wait", "compare", "dead"}
          /\ listed \in [{"reflector", "controller"} -> [at : Nat, objects : Snapshot]]
          /\ disturbed \subseteq Disturbances

Nothing == [n \in Names |-> NotThere]

Init == /\ Objects!Init
        /\ cache = Nothing
        /\ queue = << >>
        /\ reflector = "start"
        /\ pos = 0
        /\ reconnects = 0
        /\ controller = "start"
        /\ listed = [t \in {"reflector", "controller"} |-> [at |-> 0, objects |-> Nothing]]
        /\ disturbed = {}

-----------------------------------------------------------------------------
(* The users of the API server.  A change writes the next revision.        *)
Change ==
  /\ Len(log) < MaxRevision
  /\ \E n \in Names : \/ Objects!Add(n, Len(log) + 1)
                      \/ Objects!Modify(n, Len(log) + 1)
                      \/ Objects!Remove(n)
  /\ UNCHANGED <<cache, queue, reflector, pos, reconnects, controller, listed, disturbed>>

(* start(): sync_cache fills the cache from a list, then the threads run.  *)
Start ==
  /\ reflector = "start"
  /\ cache' = store
  /\ reflector' = "list"
  /\ controller' = "wait"
  /\ UNCHANGED <<store, log, queue, pos, reconnects, listed, disturbed>>

-----------------------------------------------------------------------------
(* resync_cache, first half: the answer to the list.                       *)
TakeList(t) ==
  listed' = [listed EXCEPT ![t] = [at |-> Len(log), objects |-> store]]

(* Mutant of NewOrChanged: all events carry the same object.               *)
NewOrChangedMixed(objects) ==
  LET some == {m \in Names : objects[m] # NotThere /\ objects[m] # cache[m]}
  IN  {[type |-> IF cache[n] = NotThere THEN "ADD" ELSE "UPDATE",
        name |-> n, value |-> objects[CHOOSE m \in some : TRUE]] : n \in some}

(* resync_cache, second half: an event for every difference between the    *)
(* list and the cache as it is by now: first the listed objects, then the  *)
(* cached ones that were not listed.  The pending queue is not looked at.  *)
NewOrChanged(objects) ==
  {[type |-> IF cache[n] = NotThere THEN "ADD" ELSE "UPDATE",
    name |-> n, value |-> objects[n]] :
     n \in {m \in Names : objects[m] # NotThere /\ objects[m] # cache[m]}}

(* Mutant of Gone: objects that are no longer listed are not noticed.      *)
GoneUnnoticed(objects) == {e \in NewOrChanged(objects) : FALSE}

Gone(objects) ==
  {[type |-> "DELETE", name |-> n, value |-> cache[n]] :
     n \in {m \in Names : objects[m] = NotThere /\ cache[m] # NotThere}}

Disturbed(kinds) == disturbed' = disturbed \cup kinds

Orders(S) == {s \in [1 .. Cardinality(S) -> S] : \A x \in S : \E i \in DOMAIN s : s[i] = x}

Enqueue(some, gone) ==
  \E first \in Orders(some), rest \in Orders(gone) : queue' = queue \o first \o rest

Compare(objects) == Enqueue(NewOrChanged(objects), Gone(objects))

(* It raises on the way: an object is in the cache when it is looked for,  *)
(* and not when it is read, or the cache grows or shrinks while it is gone *)
(* through.                                                                *)
CompareInPart(objects) ==
  \E some \in SUBSET NewOrChanged(objects), gone \in SUBSET Gone(objects) :
    /\ gone # {} => some = NewOrChanged(objects)
    /\ Enqueue(some, gone)

-----------------------------------------------------------------------------
(* The reflector thread: _reflect_events.  A list that raises is retried   *)
(* after a backoff, with nothing changed, but not for ever.                *)
ReflectorList ==
  /\ reflector = "list"
  /\ TakeList("reflector")
  /\ reflector' = "compare"
  /\ UNCHANGED <<store, log, cache, queue, pos, reconnects, controller, disturbed>>

ReflectorCompare ==
  /\ reflector = "compare"
  /\ Compare(listed["reflector"].objects)
  /\ reflector' = "open"
  /\ Disturbed({d \in {"overlap"} : queue # << >> \/ controller = "compare"})
  /\ UNCHANGED <<store, log, cache, pos, reconnects, controller, listed>>

(* The event controller handles an event while the reflector compares: the *)
(* comparison raises, and the reflector starts over.                       *)
ReflectorCompareRaises ==
  /\ reflector = "compare"
  /\ controller = "wait"
  /\ reconnects < MaxReconnects
  /\ CompareInPart(listed["reflector"].objects)
  /\ queue' # << >>
  /\ reconnects' = reconnects + 1
  /\ reflector' = "list"
  /\ Disturbed({d \in {"overlap"} : queue # << >>})
  /\ UNCHANGED <<store, log, cache, pos, controller, listed>>

(* Mutants of WatchOpens: the watch begins after the next change; at the   *)
(* first one.                                                              *)
WatchOpensLate ==
  /\ reflector = "open"
  /\ pos' = Len(log) + 1
  /\ reflector' = "watch"
  /\ Disturbed({d \in {"gap"} : Len(log) # listed["reflector"].at})
  /\ UNCHANGED <<store, log, cache, queue, reconnects, controller, listed>>
WatchOpensAtStart ==
  /\ reflector = "open"
  /\ pos' = 0
  /\ reflector' = "watch"
  /\ Disturbed({d \in {"gap"} : Len(log) # listed["reflector"].at})
  /\ UNCHANGED <<store, log, cache, queue, reconnects, controller, listed>>

WatchOpens ==
  /\ reflector = "open"
  /\ pos' = Len(log)
  /\ reflector' = "watch"
  /\ Disturbed({d \in {"gap"} : Len(log) # listed["reflector"].at})
  /\ UNCHANGED <<store, log, cache, queue, reconnects, controller, listed>>

WatchDelivers ==
  /\ reflector = "watch"
  /\ pos < Len(log)
  /\ queue' = Append(queue, log[pos + 1])
  /\ pos' = pos + 1
  /\ UNCHANGED <<store, log, cache, reflector, reconnects, controller, listed, disturbed>>

(* Lists raise until the retry limit is reached: the thread ends.          *)
ReflectorGivesUp ==
  /\ ListMayFail
  /\ reflector = "list"
  /\ reflector' = "dead"
  /\ UNCHANGED <<store, log, cache, queue, pos, reconnects, controller, listed, disturbed>>

(* The stream ends or raises, or could not be opened: list again.          *)
WatchEnds ==
  /\ reflector \in {"open", "watch"}
  /\ reconnects < MaxReconnects
  /\ reconnects' = reconnects + 1
  /\ reflector' = "list"
  /\ UNCHANGED <<store, log, cache, queue, pos, controller, listed, disturbed>>

-----------------------------------------------------------------------------
(* The event controller thread: _event_controller.  An UPDATE or a DELETE  *)
(* of a name that is not cached raises a KeyError no one catches: the      *)
(* thread ends, and with it every change of the cache.                     *)
HandleEvent ==
  /\ controller = "wait"
  /\ queue # << >>
  /\ queue' = Tail(queue)
  /\ LET e == Head(queue)
         raises == e.type # "ADD" /\ cache[e.name] = NotThere
     IN  IF raises
         THEN controller' = "dead" /\ UNCHANGED cache
         ELSE /\ cache' = [cache EXCEPT ![e.name] =
                             IF e.type = "DELETE" THEN NotThere ELSE e.value]
              /\ UNCHANGED controller
  /\ UNCHANGED <<store, log, reflector, pos, reconnects, listed, disturbed>>

(* The queue stayed empty for the resync period.                           *)
ControllerLists ==
  /\ Resyncs
  /\ controller = "wait"
  /\ queue = << >>
  /\ TakeList("controller")
  /\ controller' = "compare"
  /\ UNCHANGED <<store, log, cache, queue, reflector, pos, reconnects, disturbed>>

(* The same, but the list raises: nothing in the thread catches that.      *)
ControllerListRaises ==
  /\ Resyncs /\ ListMayFail
  /\ controller = "wait"
  /\ queue = << >>
  /\ controller' = "dead"
  /\ Disturbed({"failed"})
  /\ UNCHANGED <<store, log, cache, queue, reflector, pos, reconnects, listed>>

ControllerCompares ==
  /\ controller = "compare"
  /\ Compare(listed["controller"].objects)
  /\ controller' = "wait"
  /\ Disturbed(IF listed["controller"].objects = cache THEN {}
               ELSE {"resync"} \cup {d \in {"clash"} : queue # << >> \/ reflector = "watch"})
  /\ UNCHANGED <<store, log, cache, reflector, pos, reconnects, listed>>

Reflect == ReflectorList \/ ReflectorCompare \/ WatchOpens \/ WatchDelivers
Control == HandleEvent \/ ControllerLists \/ ControllerCompares

Next == \/ Change \/ Start
        \/ Reflect \/ ReflectorCompareRaises \/ ReflectorGivesUp \/ WatchEnds
        \/ Control \/ ControllerListRaises

Spec == Init /\ [][Next]_vars

(* The threads run, the API server answers them again or the reflector     *)
(* gives up, and the resync period elapses.                                *)
FairSpec == Spec /\ WF_vars(Start) /\ WF_vars(Reflect) /\ WF_vars(Control)

-----------------------------------------------------------------------------
About(s, n) == {i \in 1 .. Len(s) : s[i].name = n}

LatestAbout(s, n) == CHOOSE i \in About(s, n) : \A j \in About(s, n) : j <= i

(* What is known of n after the events s are applied to base in order.     *)
After(base, s, n) ==
  IF About(s, n) = {} THEN base[n]
  ELSE LET e == s[LatestAbout(s, n)]
       IN  IF e.type = "DELETE" THEN NotThere ELSE e.value

(* Every pending event finds its name as it expects it: an ADD finds it    *)
(* uncached, an UPDATE and a DELETE find it cached.                        *)
QueueFits ==
  \A k \in 1 .. Len(queue) :
    queue[k].type = "ADD" <=>
      After(cache, SubSeq(queue, 1, k - 1), queue[k].name) = NotThere

(* The informer keeps its promise as long as nothing disturbs it: the      *)
(* event controller lives, no object is added twice or changed before it   *)
(* is known, and cache and queue together are the store at the watch's     *)
(* position.  It is disturbed when an object changes between a list and    *)
(* the opening of the watch, when a list is compared with the cache while  *)
(* events are pending (a reconnect or the other thread's resync), when a   *)
(* resync runs ahead of an open watch, and when the resync's list raises.  *)
PromiseWhileUndisturbed ==
  disturbed \subseteq {"resync"} =>
    /\ controller # "dead"
    /\ QueueFits
    /\ reflector = "watch" =>
         \A n \in Names :
           After(cache, queue, n) = After(Nothing, SubSeq(log, 1, pos), n)

(* Whatever is cached or pending was at some time the state of the object: *)
(* disturbances lose, repeat and reorder events, but never invent one.     *)
WasStored(n, rv) == \E i \in 1 .. Len(log) : /\ log[i].name = n
                                             /\ log[i].type # "DELETE"
                                             /\ log[i].value = rv

CacheIsHistorical ==
  /\ \A n \in Names : cache[n] # NotThere => WasStored(n, cache[n])
  /\ \A k \in 1 .. Len(queue) : WasStored(queue[k].name, queue[k].value)

(* Until a resync of the event controller puts events in the queue, an     *)
(* object never goes back to an older revision while it stays cached,      *)
(* whatever the reflector lists and lists again: the cache and the pending *)
(* events of an object are in the order in which they were written.        *)
NeverGoesBack ==
  "resync" \notin disturbed =>
    \A k \in 1 .. Len(queue) : queue[k].type # "DELETE" =>
      /\ cache[queue[k].name] <= queue[k].value
      /\ \A j \in 1 .. k : queue[j].name = queue[k].name /\ queue[j].type # "DELETE"
                            => queue[j].value <= queue[k].value

(* Once the writers stop, the periodic resync makes up for every event     *)
(* that was lost, unless the event controller thread has ended.            *)
ConvergesOrDies == <>[](controller = "dead" \/ cache = store)

(* The module's promise: the cache comes to hold the most recent state.    *)
Converges == <>[](cache = store)
=============================================================================
