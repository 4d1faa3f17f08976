------------------------------ MODULE MCJobFlow ------------------------------
(***************************************************************************)
(* Instances of JobFlow for TLC; see the MCJobFlow_*.cfg files.            *)
(***************************************************************************)
EXTENDS JobFlow, SequencesExt, TLC

Symmetry == Permutations(Clusters)

(* What is left of the log for the controllers: the events that each still *)
(* has to take, the caches that a job controller with a heartbeat to go    *)
(* may still see, and the length.  Two states that agree on this and on    *)
(* all other variables have the same future, so that a run of invariants   *)
(* and action properties may identify them (VIEW).                         *)
Pending(at, Filter(_)) == SelectSeq(SubSeq(log, at + 1, Len(log)), Filter)

MayCopy(c) == beats < MaxBeats \/ beat[c].stage = "listed" \/ retries[c] >= RetryLimit

Caches(c) == IF ~MayCopy(c) THEN << >>
             ELSE [i \in 1 .. (Len(log) - cacheAt[c] + 1) |-> StoreAt(cacheAt[c] + i - 1)]

View == <<jobs, created, clusters, clusterEvents, workload, submitted, tasks, beat,
          retries, beats, failures, restarts, losses, Len(log),
          Pending(schedulerAt, SchedulerWants),
          [c \in Clusters |-> Pending(flowAt[c], LAMBDA e : FlowWants(c, e))],
          [c \in Clusters |-> Caches(c)]>>

=============================================================================
