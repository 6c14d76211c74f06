------------------------- MODULE MultiClusterProofs -------------------------
(***************************************************************************)
(* No notification is lost between the informer and the member clusters,   *)
(* for any secrets, clusters, data and number of steps.                    *)
(*                                                                         *)
(* The two invariants speak of the moment when the controller has caught   *)
(* up.  To be inductive they have to say what makes up for the difference  *)
(* until then: a secret whose clusters are not what the cache says is      *)
(* Pending, somewhere between its notification and a retry, was abandoned, *)
(* or is what the worker has just looked up.                               *)
(***************************************************************************)
EXTENDS MultiCluster, TLAPS

Pending == events \cup queue \cup delayed

(* A member comes from data its secret may hold.                            *)
Offered ==
  \A c \in Clusters : cs[c] # Nil =>
    \E data \in DataOf[cs[c]] : Accepted(data, c)

(* What the worker has looked up is still so, or will be looked up again,   *)
(* or has been updated without notification.                                *)
WorkerCurrent ==
  worker.pc # "idle" =>
    \/ worker.secret \in Pending
    \/ worker.obj = store[worker.secret]
    \/ worker.secret \in updated /\ store[worker.secret] # Nil /\ worker.pc = "add"

WorkerObj == worker.pc = "delete" => worker.obj = Nil

Backed ==
  \A c \in Clusters : cs[c] # Nil =>
    \/ store[cs[c]] # Nil
    \/ cs[c] \in Pending \cup abandoned
    \/ worker.pc = "delete" /\ worker.secret = cs[c]

Complete ==
  \A s \in Secrets \ updated : \A c \in Clusters :
    store[s] # Nil /\ Accepted(store[s], c) /\ Sole(s, c) =>
      \/ cs[c] = s
      \/ s \in Pending \cup abandoned
      \/ worker.pc = "add" /\ worker.secret = s /\ worker.obj = store[s]

IInv == TypeOK /\ Offered /\ WorkerCurrent /\ WorkerObj /\ Backed /\ Complete

-----------------------------------------------------------------------------
(* Initially there are no members, and every secret is notified of.         *)
LEMMA InitIInv == Init => IInv
  <1> SUFFICES ASSUME Init PROVE IInv
    OBVIOUS
  <1> USE MultiClusterAssumption DEF Init
  <1>1. TypeOK
    BY DEF TypeOK, Idle, Existing, OptionalData
  <1>2. Offered /\ WorkerCurrent /\ WorkerObj /\ Backed
    BY DEF Offered, WorkerCurrent, WorkerObj, Backed, Idle
  <1>3. Complete
    BY DEF Complete, Pending, Existing
  <1> QED
    BY <1>1, <1>2, <1>3 DEF IInv

(* Users change the API server only, the queue and the cache do not see it. *)
LEMMA PutIInv ==
  ASSUME IInv, NEW s \in Secrets, NEW data \in OptionalData(s), Put(s, data)
  PROVE  IInv'
  <1> USE MultiClusterAssumption DEF IInv, Put, memVars
  <1>1. TypeOK'
    BY DEF TypeOK, OptionalData
  <1>2. Offered' /\ WorkerCurrent' /\ WorkerObj' /\ Backed' /\ Complete'
    BY DEF Offered, WorkerCurrent, WorkerObj, Backed, Complete, Pending
  <1> QED
    BY <1>1, <1>2

(* The cache changes with a notification, or the secret becomes updated.    *)
LEMMA SyncStoreIInv ==
  ASSUME IInv, NEW s \in Secrets, SyncStore(s)
  PROVE  IInv'
  <1> USE MultiClusterAssumption DEF IInv, SyncStore, memVars
  <1>1. TypeOK'
    BY DEF TypeOK, OptionalData
  <1>2. \A t \in Secrets : t # s => store'[t] = store[t]
    BY DEF TypeOK
  <1>3. store'[s] = secrets[s]
    BY DEF TypeOK
  <1>4. WorkerCurrent'
    BY <1>2, <1>3 DEF WorkerCurrent, WorkerObj, Pending, TypeOK
  <1>5. Offered' /\ WorkerObj'
    BY DEF Offered, WorkerObj
  <1>6. Backed'
    BY <1>2, <1>3 DEF Backed, Pending, TypeOK
  <1>7. Complete'
    BY <1>2, <1>3 DEF Complete, Pending, TypeOK
  <1> QED
    BY <1>1, <1>4, <1>5, <1>6, <1>7

(* Pending secrets stay so on their way into the queue.                     *)
LEMMA QueueIInv ==
  ASSUME IInv, NEW s \in Secrets, HandleEvent(s) \/ AddDelayed(s)
  PROVE  IInv'
  <1> USE MultiClusterAssumption DEF IInv, HandleEvent, AddDelayed, infVars, memVars
  <1>1. TypeOK'
    BY DEF TypeOK, OptionalData
  <1>2. Pending' = Pending
    BY DEF Pending
  <1>3. Offered' /\ WorkerObj' /\ WorkerCurrent'
    BY <1>2 DEF Offered, WorkerObj, WorkerCurrent
  <1>4. Backed' /\ Complete'
    BY <1>2 DEF Backed, Complete
  <1> QED
    BY <1>1, <1>3, <1>4

(* The worker takes over, with the data of this moment.                     *)
LEMMA ProcessItemIInv ==
  ASSUME IInv, NEW s \in Secrets, ProcessItem(s)
  PROVE  IInv'
  <1> USE MultiClusterAssumption DEF IInv, ProcessItem, infVars, memVars
  <1>1. TypeOK'
    BY DEF TypeOK, OptionalData
  <1>2. Pending \subseteq Pending' \cup {s}
    BY DEF Pending
  <1>3. Offered' /\ WorkerObj' /\ WorkerCurrent'
    BY DEF Offered, WorkerObj, WorkerCurrent
  <1>4. Backed'
    BY <1>2 DEF Backed, TypeOK
  <1>5. Complete'
    BY <1>2 DEF Complete
  <1> QED
    BY <1>1, <1>3, <1>4, <1>5

(* A failed lookup is tried again or given up.                              *)
LEMMA ProcessItemFailsIInv ==
  ASSUME IInv, NEW s \in Secrets, ProcessItemFails(s)
  PROVE  IInv'
  <1> USE MultiClusterAssumption DEF IInv, ProcessItemFails, infVars, memVars
  <1>1. TypeOK'
    BY DEF TypeOK, OptionalData
  <1>2. Pending \cup abandoned \subseteq Pending' \cup abandoned'
    BY DEF Pending
  <1>3. Offered' /\ WorkerObj' /\ WorkerCurrent'
    BY DEF Offered, WorkerObj, WorkerCurrent
  <1>4. Backed' /\ Complete'
    BY <1>2 DEF Backed, Complete
  <1> QED
    BY <1>1, <1>3, <1>4

(* After an addition the clusters of the secret are members, and if it has  *)
(* gone meanwhile, that is pending.                                         *)
LEMMA AddMemberIInv ==
  ASSUME IInv, addMemberCluster
  PROVE  IInv'
  <1> USE MultiClusterAssumption DEF IInv, infVars
  <1> DEFINE s == worker.secret
             new == {c \in Clusters : cs[c] = Nil /\ Accepted(worker.obj, c)}
  <1>0. /\ worker.pc = "add" /\ s \in Secrets /\ worker.obj \in DataOf[s]
        /\ worker' = Idle
        /\ cs' = [c \in Clusters |-> IF c \in new THEN s ELSE cs[c]]
        /\ Pending' = Pending /\ store' = store /\ updated' = updated
        /\ abandoned' = abandoned \ {s}
    BY DEF addMemberCluster, ItemDone, TypeOK, Pending
  <1>1. TypeOK'
    BY DEF TypeOK, OptionalData, addMemberCluster, ItemDone, Idle, Accepted
  <1>2. Offered'
    BY <1>0 DEF Offered, TypeOK
  <1>3. WorkerObj' /\ WorkerCurrent'
    BY <1>0 DEF WorkerObj, WorkerCurrent, Idle
  <1>4. store[s] = Nil => s \in Pending
    BY <1>0 DEF WorkerCurrent
  <1>5. Backed'
    BY <1>0, <1>4 DEF Backed, TypeOK
  <1>6. Complete'
    <2> SUFFICES ASSUME NEW t \in Secrets \ updated, NEW c \in Clusters,
                        store[t] # Nil, Accepted(store[t], c), Sole(t, c),
                        t \notin Pending \cup abandoned'
                 PROVE  cs'[c] = t
      BY <1>0 DEF Complete
    <2>1. CASE t # s
      <3>1. cs[c] = t
        BY <1>0, <2>1 DEF Complete
      <3> QED
        BY <1>0, <3>1
    <2>2. CASE t = s
      <3>1. worker.obj = store[t]
        BY <1>0, <2>2 DEF WorkerCurrent
      <3>2. cs[c] # Nil => cs[c] = t
        BY DEF Offered, Sole, TypeOK
      <3> QED
        BY <1>0, <2>2, <3>1, <3>2
    <2> QED
      BY <2>1, <2>2
  <1> QED
    BY <1>1, <1>2, <1>3, <1>5, <1>6

(* After a deletion the secret has no members, and if it has come back      *)
(* meanwhile, that is pending.                                              *)
LEMMA DeleteMemberIInv ==
  ASSUME IInv, deleteMemberCluster
  PROVE  IInv'
  <1> USE MultiClusterAssumption DEF IInv, infVars
  <1> DEFINE s == worker.secret
  <1>0. /\ worker.pc = "delete" /\ s \in Secrets
        /\ worker' = Idle
        /\ cs' = [c \in Clusters |-> IF cs[c] = s THEN Nil ELSE cs[c]]
        /\ Pending' = Pending /\ store' = store /\ updated' = updated
        /\ abandoned' = abandoned \ {s}
    BY DEF deleteMemberCluster, ItemDone, TypeOK, Pending
  <1>1. TypeOK'
    BY DEF TypeOK, OptionalData, deleteMemberCluster, ItemDone, Idle
  <1>2. Offered'
    BY <1>0 DEF Offered
  <1>3. WorkerObj' /\ WorkerCurrent'
    BY <1>0 DEF WorkerObj, WorkerCurrent, Idle
  <1>4. store[s] # Nil => s \in Pending
    BY <1>0 DEF WorkerCurrent, WorkerObj
  <1>5. Backed'
    BY <1>0 DEF Backed, TypeOK
  <1>6. Complete'
    BY <1>0, <1>4 DEF Complete, TypeOK
  <1> QED
    BY <1>1, <1>2, <1>3, <1>5, <1>6

(* A new process starts as the first one did.                               *)
LEMMA RestartIInv ==
  ASSUME IInv, Restart
  PROVE  IInv'
  <1> USE MultiClusterAssumption DEF IInv, Restart
  <1>1. TypeOK'
    BY DEF TypeOK, Idle, Existing, OptionalData
  <1>2. Offered' /\ WorkerCurrent' /\ WorkerObj' /\ Backed'
    BY DEF Offered, WorkerCurrent, WorkerObj, Backed, Idle
  <1>3. Complete'
    BY DEF Complete, Pending, Existing
  <1> QED
    BY <1>1, <1>2, <1>3

(* IInv is inductive.                                                       *)
LEMMA NextIInv == IInv /\ [Next]_vars => IInv'
  <1> SUFFICES ASSUME IInv, [Next]_vars PROVE IInv'
    OBVIOUS
  <1>1. CASE \E s \in Secrets : \E data \in DataOf[s] \cup {Nil} : Put(s, data)
    BY <1>1, PutIInv DEF OptionalData
  <1>2. CASE \E s \in Secrets : SyncStore(s) \/ HandleEvent(s) \/ AddDelayed(s)
    BY <1>2, SyncStoreIInv, QueueIInv
  <1>3. CASE \E s \in Secrets : ProcessItemFails(s)
    BY <1>3, ProcessItemFailsIInv
  <1>4. CASE Worker
    BY <1>4, ProcessItemIInv, AddMemberIInv, DeleteMemberIInv DEF Worker
  <1>5. CASE Restart
    BY <1>5, RestartIInv
  <1>6. CASE UNCHANGED vars
    BY <1>6 DEF vars, infVars, memVars, IInv, TypeOK, OptionalData, Offered,
                WorkerCurrent, WorkerObj, Backed, Complete, Pending
  <1> QED
    BY <1>1, <1>2, <1>3, <1>4, <1>5, <1>6 DEF Next

-----------------------------------------------------------------------------
(* The strengthening that both theorems follow from.                        *)
THEOREM MembersInvariant == Spec => []IInv
  BY InitIInv, NextIInv, PTL DEF Spec

(* The worker's data, the retries and the clients are always well formed:   *)
(* processNextItem never counts more than maxRetries requeues, and no       *)
(* subscriber has a client of a cluster that is not in cs.                  *)
THEOREM MultiClusterTyped == Spec => []TypeOK
  <1>1. IInv => TypeOK
    BY DEF IInv
  <1> QED
    BY <1>1, MembersInvariant, PTL

(* No deletion is lost: once caught up, every member's secret exists, but   *)
(* for the secrets given up on after maxRetries failures.                   *)
THEOREM DeletionsReachMembers == Spec => []MembersBacked
  <1>1. IInv => MembersBacked
    BY DEF IInv, Backed, MembersBacked, CaughtUp, Pending
  <1> QED
    BY <1>1, MembersInvariant, PTL

(* No addition is lost: once caught up, every cluster of a secret is a      *)
(* member, unless the secret was changed in place or given up on, or        *)
(* another secret offers the cluster too.                                   *)
THEOREM AdditionsReachMembers == Spec => []MembersComplete
  <1>1. IInv => MembersComplete
    BY DEF IInv, Complete, MembersComplete, CaughtUp, Pending
  <1> QED
    BY <1>1, MembersInvariant, PTL
=============================================================================
