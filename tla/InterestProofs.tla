--------------------------- MODULE InterestProofs ---------------------------
(***************************************************************************)
(* Why the interest map follows the SmartLimiters, for any number of       *)
(* services, changes, resyncs and restarts.                                *)
(*                                                                         *)
(* InterestCovers and InterestBacked speak of moments when the reconcile   *)
(* worker is idle.  The invariants below say what holds in between: who is *)
(* still going to set, or to remove, an entry.                             *)
(***************************************************************************)
EXTENDS LimiterProofs

(* Two SmartLimiters never have equal specs, the empty one excepted.  This  *)
(* is what the comparison with lastUpdatePolicy relies on.                  *)
DisjointPolicies ==
  \A s, t \in Svc : s # t => PolicyOf[s] \cap PolicyOf[t] \subseteq {EmptyPolicy}

(* The spec Reconcile saw last belongs to a service of the interest map.    *)
LastPolicyInv ==
  \A s \in Svc :
    lastUpdatePolicy \in PolicyOf[s] /\ lastUpdatePolicy # EmptyPolicy => s \in interest

Upserting(s) == rec.pc = "upsert" /\ rec.svc = s

Removing(s) == rec.pc \in {"pop", "uninterest"} /\ rec.svc = s

(* A SmartLimiter that is not yet in the map is queued, or in the hands of  *)
(* the worker in its present form.                                          *)
CoverInv ==
  \A s \in Svc : Managed(s) =>
    s \in interest \/ s \in queue \/ (Upserting(s) /\ rec.obj = sl[s])

(* One that came back while the worker was removing it is queued again.     *)
ReturnInv == \A s \in Svc : Removing(s) /\ sl[s] # Nil => s \in queue

(* An entry that is to go, or that the worker is about to make for a        *)
(* SmartLimiter that has meanwhile gone, is queued or being removed.        *)
BackInv ==
  \A s \in Svc : sl[s] = Nil /\ (s \in interest \/ Upserting(s)) =>
    s \in queue \/ Removing(s)

InterestInv ==
  /\ DisjointPolicies => LastPolicyInv /\ CoverInv
  /\ ReturnInv
  /\ BackInv

(* The interest map starts empty, with every SmartLimiter queued.           *)
LEMMA InitInterest == Init => InterestInv
  <1> SUFFICES ASSUME Init PROVE InterestInv
    OBVIOUS
  <1>1. /\ interest = {} /\ lastUpdatePolicy = EmptyPolicy /\ rec.pc = "idle"
        /\ queue = {s \in Svc : sl[s] # Nil}
    BY DEF Init, InitState, InitMemory, RecIdle
  <1> QED
    BY <1>1 DEF InterestInv, LastPolicyInv, CoverInv, ReturnInv, BackInv,
                Managed, Upserting, Removing

(* A step that leaves the objects, the map and the worker alone, and takes  *)
(* nothing from the queue, keeps the invariant.                             *)
LEMMA InterestFrame ==
  ASSUME InterestInv, UNCHANGED <<sl, interest, lastUpdatePolicy, rec>>,
         queue \subseteq queue'
  PROVE  InterestInv'
  BY DEF InterestInv, LastPolicyInv, CoverInv, ReturnInv, BackInv,
         Managed, RevInScope, Upserting, Removing

(* A change or a deletion of a SmartLimiter queues it.                      *)
LEMMA InterestUser ==
  ASSUME InterestInv, NEW s \in Svc, UNCHANGED <<interest, lastUpdatePolicy, rec>>,
         queue' = queue \cup {s}, \A t \in Svc \ {s} : sl'[t] = sl[t]
  PROVE  InterestInv'
  BY DEF InterestInv, LastPolicyInv, CoverInv, ReturnInv, BackInv,
         Managed, RevInScope, Upserting, Removing

(* Nothing that happens around the limiter breaks the bookkeeping, a        *)
(* restart included: it starts from an empty map and a full queue.          *)
LEMMA ClusterInterest ==
  ASSUME TypeOK, InterestInv, ClusterNext
  PROVE  InterestInv'
  <1>t. DOMAIN sl = Svc
    BY DEF TypeOK, ClusterOK
  <1>1. ASSUME NEW s \in Svc, NEW p, NEW rev, Apply(s, p, rev) PROVE InterestInv'
    <2>1. /\ \A t \in Svc \ {s} : sl'[t] = sl[t]
          /\ queue' = queue \cup {s} /\ UNCHANGED <<interest, lastUpdatePolicy, rec>>
      BY <1>1, <1>t DEF Apply, memVars
    <2> QED
      BY <2>1, InterestUser
  <1>2. ASSUME NEW s \in Svc, Delete(s) PROVE InterestInv'
    <2>1. /\ \A t \in Svc \ {s} : sl'[t] = sl[t]
          /\ queue' = queue \cup {s} /\ UNCHANGED <<interest, lastUpdatePolicy, rec>>
      BY <1>2, <1>t DEF Delete, memVars
    <2> QED
      BY <2>1, InterestUser
  <1>3. ASSUME NEW s \in Svc, Resync(s) PROVE InterestInv'
    BY <1>3, InterestFrame DEF Resync, objVars, memVars
  <1>4. CASE Surroundings
    BY <1>4, InterestFrame DEF Surroundings, SetSubsets, ChangeWorld, objVars, memVars
  <1>5. ASSUME NEW s \in Svc, NEW x \in SetNames, GarbageCollect(s, x) PROVE InterestInv'
    BY <1>5, InterestFrame DEF GarbageCollect, memVars
  <1>6. CASE SyncCache \/ SyncEnvoyFilters \/ \E s \in Svc : ReconcileDestinationRule(s)
    BY <1>6, InterestFrame DEF SyncCache, SyncEnvoyFilters, ReconcileDestinationRule, objVars,
                               memVars
  <1>7. CASE Crash
    <2>1. /\ interest' = {} /\ lastUpdatePolicy' = EmptyPolicy /\ rec'.pc = "idle"
          /\ sl' = sl /\ queue' = {s \in Svc : sl'[s] # Nil}
      BY <1>7 DEF Crash, RestartMemory, RecIdle, objVars
    <2> QED
      BY <2>1 DEF InterestInv, LastPolicyInv, CoverInv, ReturnInv, BackInv,
                  Managed, Upserting, Removing
  <1> QED
    BY <1>1, <1>2, <1>3, <1>4, <1>5, <1>6, <1>7 DEF ClusterNext, Users

(* The worker takes a request: whatever the queue stood for, the worker now *)
(* stands for.                                                              *)
LEMMA GetInterest ==
  ASSUME TypeOK, InterestInv, NEW s \in Svc, ReconcileGet(s)
  PROVE  InterestInv'
  <1>1. /\ rec.pc = "idle" /\ queue' = queue \ {s}
        /\ UNCHANGED <<sl, interest, lastUpdatePolicy>>
    BY DEF ReconcileGet, objVars, memVars
  <1>2. DisjointPolicies => LastPolicyInv'
    BY <1>1 DEF InterestInv, LastPolicyInv
  <1>3. CASE sl[s] = Nil
    <2>1. rec' = [pc |-> "pop", svc |-> s, obj |-> Nil]
      BY <1>3 DEF ReconcileGet
    <2> QED
      BY <1>1, <1>2, <1>3, <2>1 DEF InterestInv, CoverInv, ReturnInv, BackInv,
                                    Managed, RevInScope, Upserting, Removing
  <1>4. CASE sl[s] # Nil /\ ~RevInScope(sl[s])
    <2>1. rec' = RecIdle
      BY <1>4 DEF ReconcileGet
    <2> QED
      BY <1>1, <1>2, <1>4, <2>1 DEF InterestInv, CoverInv, ReturnInv, BackInv,
                                    Managed, RevInScope, Upserting, Removing, RecIdle
  <1>5. CASE sl[s] # Nil /\ RevInScope(sl[s])
    <2>1. rec' = [pc |-> "upsert", svc |-> s, obj |-> sl[s]]
      BY <1>5 DEF ReconcileGet
    <2> QED
      BY <1>1, <1>2, <1>5, <2>1 DEF InterestInv, CoverInv, ReturnInv, BackInv,
                                    Managed, RevInScope, Upserting, Removing
  <1> QED
    BY <1>3, <1>4, <1>5

(* The worker finds the spec equal to the last one, or sets the entry.      *)
LEMMA UpsertInterest ==
  ASSUME TypeOK, InterestInv, ReconcileUpsert
  PROVE  InterestInv'
  <1>1. /\ rec.pc = "upsert" /\ rec'.pc = "idle" /\ queue' = queue /\ sl' = sl
        /\ rec.svc \in Svc /\ rec.obj.policy \in PolicyOf[rec.svc]
    BY DEF ReconcileUpsert, RecIdle, objVars, TypeOK, RecOK, ObjectOK
  <1>2. CASE rec.obj.policy = lastUpdatePolicy
    <2>1. UNCHANGED <<interest, lastUpdatePolicy>>
      BY <1>2 DEF ReconcileUpsert
    <2> QED
      BY <1>1, <1>2, <2>1 DEF InterestInv, LastPolicyInv, CoverInv, ReturnInv, BackInv,
                              Managed, RevInScope, Upserting, Removing
  <1>3. CASE rec.obj.policy # lastUpdatePolicy
    <2>1. lastUpdatePolicy' = rec.obj.policy /\ interest' = interest \cup {rec.svc}
      BY <1>3 DEF ReconcileUpsert
    <2>2. DisjointPolicies => LastPolicyInv'
      BY <1>1, <2>1 DEF LastPolicyInv, DisjointPolicies
    <2> QED
      BY <1>1, <2>1, <2>2 DEF InterestInv, CoverInv, ReturnInv, BackInv,
                              Managed, RevInScope, Upserting, Removing
  <1> QED
    BY <1>2, <1>3

(* No step of the reconcile worker breaks it.                               *)
LEMMA ReconcileInterest ==
  ASSUME TypeOK, InterestInv, ReconcileNext
  PROVE  InterestInv'
  <1>t. DOMAIN rec = {"pc", "svc", "obj"}
    BY DEF TypeOK, RecOK, RecIdle
  <1>1. CASE ReconcilePop
    <2>1. /\ rec.pc = "pop" /\ rec'.pc = "uninterest" /\ rec'.svc = rec.svc
          /\ UNCHANGED <<sl, queue, interest, lastUpdatePolicy>>
      BY <1>1, <1>t DEF ReconcilePop, RecMoves, objVars
    <2> QED
      BY <2>1 DEF InterestInv, LastPolicyInv, CoverInv, ReturnInv, BackInv,
                  Managed, RevInScope, Upserting, Removing
  <1>2. CASE ReconcileUninterest
    <2>1. /\ rec.pc = "uninterest" /\ rec'.pc \in {"idle", "cmget"}
          /\ interest' = interest \ {rec.svc} /\ lastUpdatePolicy' = EmptyPolicy
          /\ UNCHANGED <<sl, queue>>
      BY <1>2, <1>t DEF ReconcileUninterest, RecMoves, RecIdle, objVars
    <2> QED
      BY <2>1 DEF InterestInv, LastPolicyInv, CoverInv, ReturnInv, BackInv,
                  Managed, RevInScope, Upserting, Removing
  <1>3. CASE ReconcileCmGet \/ ReconcileCmPut \/ ReconcileCmFault
    <2>1. /\ rec.pc \in {"cmget", "cmput"} /\ rec'.pc \in {"cmput", "idle"}
          /\ UNCHANGED <<sl, queue, interest, lastUpdatePolicy>>
      BY <1>3, <1>t DEF ReconcileCmGet, ReconcileCmPut, ReconcileCmFault, RecMoves,
                        RecIdle, objVars, memVars
    <2> QED
      BY <2>1 DEF InterestInv, LastPolicyInv, CoverInv, ReturnInv, BackInv,
                  Managed, RevInScope, Upserting, Removing
  <1> QED
    BY <1>1, <1>2, <1>3, GetInterest, UpsertInterest DEF ReconcileNext, ReconcileStep

(* The producers only read the interest map.                                *)
LEMMA ProducerInterest ==
  ASSUME InterestInv, ProducerNext
  PROVE  InterestInv'
  <1>1. ASSUME NEW p, NEW services, Send(p, services) PROVE InterestInv'
    BY <1>1, InterestFrame DEF Send, objVars, memVars
  <1>2. CASE UNCHANGED vars
    BY <1>2, InterestFrame DEF vars, objVars, memVars
  <1> QED
    BY <1>1, <1>2 DEF ProducerNext, handleTickerEvent, TickerFault, handleWatcherEvent

(* The metric consumer touches neither, and its status updates queue.       *)
LEMMA ConsumerInterest ==
  ASSUME InterestInv, ConsumerNext
  PROVE  InterestInv'
  <1>1. UNCHANGED <<sl, interest, lastUpdatePolicy, rec>>
    BY DEF ConsumerNext, RefreshStep, ReceiveMetric, ConsumeMetric, RefreshGet, RefreshGenerate,
           RefreshEnvoyFilter, RefreshCmGet, RefreshCmPut, RefreshStatus, RefreshFault,
           objVars, memVars
  <1>2. queue \subseteq queue'
    BY DEF ConsumerNext, RefreshStep, ReceiveMetric, ConsumeMetric, RefreshGet, RefreshGenerate,
           RefreshEnvoyFilter, RefreshCmGet, RefreshCmPut, RefreshStatus, RefreshFault,
           UpdateStatus
  <1> QED
    BY <1>1, <1>2, InterestFrame

(* The bookkeeping of Reconcile is consistent, whatever the interleaving.   *)
THEOREM InterestInvariant == Spec => []InterestInv
  <1>1. TypeOK /\ InterestInv /\ [Next]_vars => InterestInv'
    <2> SUFFICES ASSUME TypeOK, InterestInv, [Next]_vars PROVE InterestInv'
      OBVIOUS
    <2>1. CASE UNCHANGED vars
      BY <2>1, InterestFrame DEF vars, objVars, memVars
    <2> QED
      BY <2>1, ClusterInterest, ReconcileInterest, ProducerInterest, ConsumerInterest DEF Next
  <1> QED
    BY <1>1, InitInterest, TypeCorrect, PTL DEF Spec

(* Whenever the reconcile worker has caught up, the interest map holds      *)
(* every SmartLimiter that is to be looked after, provided that no two have *)
(* equal specs (smartlimiter_controller.go:109-117).                        *)
THEOREM InterestCovered == DisjointPolicies => (Spec => []InterestCovers)
  <1> SUFFICES ASSUME DisjointPolicies PROVE Spec => []InterestCovers
    OBVIOUS
  <1>1. InterestInv => InterestCovers
    BY DEF InterestInv, CoverInv, InterestCovers, Quiet, Upserting
  <1> QED
    BY <1>1, InterestInvariant, PTL

(* And then it holds no service whose SmartLimiter is gone, whatever the    *)
(* specs are (smartlimiter_controller.go:88-93).                            *)
THEOREM InterestIsBacked == Spec => []InterestBacked
  <1>1. TypeOK /\ InterestInv => InterestBacked
    BY DEF InterestInv, BackInv, InterestBacked, Quiet, Removing, TypeOK, ClusterOK
  <1> QED
    BY <1>1, InterestInvariant, TypeCorrect, PTL
=============================================================================
