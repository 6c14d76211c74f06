------------------------------ MODULE Cluster -------------------------------
(***************************************************************************)
(* What happens around the limiter: users and the Kubernetes control plane *)
(* change the objects it watches, pods and metrics come and go, and the    *)
(* process itself may crash.  None of this is code of the repository; it   *)
(* is modelled from how the repository's code uses it.  Except for the     *)
(* garbage collector and the informer, every step here is bounded.         *)
(***************************************************************************)
EXTENDS LimiterState

(* A user creates or changes the SmartLimiter of s.  Every change gets a    *)
(* number of its own; the uid of an object is that of its creation.         *)
Apply(s, p, rev) ==
  LET gen == used["user"] + 1
      obj == [policy |-> p, rev |-> rev, gen |-> gen,
              uid |-> IF sl[s] = Nil THEN gen ELSE sl[s].uid]
  IN  /\ sl[s] # Nil => <<sl[s].policy, sl[s].rev>> # <<p, rev>>
      /\ Spend("user")
      /\ sl' = [sl EXCEPT ![s] = obj]
      /\ queue' = queue \cup {s}
      /\ UNCHANGED <<status, ef, efCache, cmVars, envVars, memVars, rec, prod, cons>>

Delete(s) ==
  /\ sl[s] # Nil
  /\ Spend("user")
  /\ sl' = [sl EXCEPT ![s] = Nil]
  /\ status' = [status EXCEPT ![s] = Nil]
  /\ queue' = queue \cup {s}
  /\ UNCHANGED <<ef, efCache, cmVars, envVars, memVars, rec, prod, cons>>

(* The periodic resync of the informer reports an object that did not change. *)
Resync(s) ==
  /\ sl[s] # Nil
  /\ Spend("resync")
  /\ queue' = queue \cup {s}
  /\ UNCHANGED <<objVars, cmVars, envVars, memVars, rec, prod, cons>>

(* The API server removes objects whose controller reference dangles.       *)
Orphan(s, x) ==
  /\ ef[s][x] # Nil
  /\ ef[s][x].owner # Nil
  /\ sl[s] # Nil => sl[s].uid # ef[s][x].owner

GarbageCollect(s, x) ==
  /\ Orphan(s, x)
  /\ WriteEnvoyFilter(s, x, Nil)
  /\ UNCHANGED <<sl, status, cmVars, envVars, queue, memVars, rec, prod, cons>>

(* A user changes the subsets of a DestinationRule.                         *)
SetSubsets(s, list) ==
  /\ list # dr[s]
  /\ Spend("subset")
  /\ dr' = [dr EXCEPT ![s] = list]
  /\ UNCHANGED <<objVars, cmVars, subsets, world, queue, memVars, rec, prod, cons>>

(* The DestinationRule reconciler of the framework, in the same process,    *)
(* replaces the subsets of a host in HostSubsetMapping.                     *)
ReconcileDestinationRule(s) ==
  /\ subsets[s] # dr[s]
  /\ subsets' = [subsets EXCEPT ![s] = dr[s]]
  /\ UNCHANGED <<objVars, cmVars, dr, world, queue, memVars, rec, prod, cons, used>>

SubsetLists == SetToAllKPermutations(Subset)

(* Pods start and stop, load changes.  The pods of a subset are among the   *)
(* pods of the service.                                                     *)
PodsConsistent(w) == \A x \in Subset : w[<<x, "pod">>] <= w[<<Base, "pod">>]

ChangeWorld(s, k, v) ==
  LET new == [world[s] EXCEPT ![k] = v]
  IN  /\ new # world[s]
      /\ PodsConsistent(new)
      /\ Spend("world")
      /\ world' = [world EXCEPT ![s] = new]
      /\ UNCHANGED <<objVars, cmVars, dr, subsets, queue, memVars, rec, prod, cons>>

SyncCache ==
  /\ SyncConfigMapCache
  /\ UNCHANGED <<objVars, envVars, queue, memVars, rec, prod, cons, used>>

(* The informer's copies of all EnvoyFilters are as the API server has them. *)
SyncedEnvoyFilters == [s \in Svc |-> [x \in SetNames |-> Synced(ef[s][x])]]

(* The watch of the EnvoyFilters, one stream for all of them, catches up.   *)
SyncEnvoyFilters ==
  /\ efCache # SyncedEnvoyFilters
  /\ efCache' = SyncedEnvoyFilters
  /\ UNCHANGED <<sl, status, ef, cmVars, envVars, queue, memVars, rec, prod, cons, used>>

(* The process dies and a new one starts: its memory is gone, and the       *)
(* initial lists of the informers fill the caches and queue every           *)
(* SmartLimiter there is.                                                   *)
Crash ==
  /\ Spend("crash")
  /\ RestartMemory
  /\ queue' = {s \in Svc : sl[s] # Nil}
  /\ RestartConfigMap
  /\ efCache' = SyncedEnvoyFilters
  /\ UNCHANGED <<sl, status, ef, dr, world>>

Users == \E s \in Svc :
  \/ \E p \in PolicyOf[s], rev \in Revs : Apply(s, p, rev)
  \/ Delete(s)
  \/ Resync(s)

Surroundings == \E s \in Svc :
  \/ \E list \in SubsetLists : SetSubsets(s, list)
  \/ \E k \in PodKeys, v \in PodCounts : ChangeWorld(s, k, v)
  \/ \E k \in MetricKeys, v \in MetricValues : ChangeWorld(s, k, v)

ClusterNext ==
  \/ Users
  \/ Surroundings
  \/ \E s \in Svc, x \in SetNames : GarbageCollect(s, x)
  \/ \E s \in Svc : ReconcileDestinationRule(s)
  \/ SyncCache
  \/ SyncEnvoyFilters
  \/ Crash
=============================================================================
