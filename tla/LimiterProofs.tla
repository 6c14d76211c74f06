--------------------------- MODULE LimiterProofs ----------------------------
(***************************************************************************)
(* Proofs about the Limiter, for any services, policies, subsets, metrics  *)
(* and bounds.                                                             *)
(***************************************************************************)
EXTENDS Limiter, TLAPS

-----------------------------------------------------------------------------
(* Type correctness.                                                        *)

(* The initial state of the process and of the cluster is well formed.      *)
LEMMA InitTypeOK == Init => TypeOK
  <1> SUFFICES ASSUME Init PROVE TypeOK
    OBVIOUS
  <1> USE DEF Init, InitState, InitMemory, InitConfigMap
  <1>1. ClusterOK
    <2>1. used \in [Kinds -> Nat]
      OBVIOUS
    <2>2. DOMAIN sl = Svc /\ \A s \in Svc : sl[s] # Nil => ObjectOK(s, sl[s])
      BY StateAssumption DEF ObjectOK, Kinds
    <2>3. queue \subseteq Svc /\ interest \subseteq Svc
      OBVIOUS
    <2> QED
      BY <2>1, <2>2, <2>3 DEF ClusterOK
  <1>2. RecOK
    BY DEF RecOK, RecIdle, RecPcs
  <1>3. ConsOK
    BY DEF ConsOK, ConsIdle, ConsPcs, NoMetrics
  <1>4. CopiesOK
    BY DEF CopiesOK, Actors
  <1> QED
    BY <1>1, <1>2, <1>3, <1>4 DEF TypeOK

(* Spending an environment step keeps the counters and only raises them.    *)
LEMMA SpendGrows ==
  ASSUME ClusterOK, NEW k \in Kinds, Spend(k)
  PROVE  used' \in [Kinds -> Nat] /\ used["user"] <= used'["user"]
  BY DEF ClusterOK, Spend, Kinds

(* What holds of an object in hand goes on holding while counters grow.     *)
LEMMA ObjectKept ==
  ASSUME ClusterOK, used' \in [Kinds -> Nat], used["user"] <= used'["user"],
         NEW s, NEW obj, ObjectOK(s, obj)
  PROVE  /\ obj.policy \in PolicyOf[s]
         /\ obj.rev \in Revs
         /\ obj.gen \in 0..used'["user"]
         /\ obj.uid \in 0..obj.gen
  BY DEF ClusterOK, ObjectOK, Kinds

(* A goroutine that is not running stays well formed.                       *)
LEMMA RecKept ==
  ASSUME ClusterOK, RecOK, used' \in [Kinds -> Nat], used["user"] <= used'["user"],
         rec' = rec
  PROVE  RecOK'
  BY DEF ClusterOK, RecOK, ObjectOK, Kinds, RecIdle, RevInScope

(* The metric consumer stays well formed while others run.                  *)
LEMMA ConsKept ==
  ASSUME ClusterOK, ConsOK, used' \in [Kinds -> Nat], used["user"] <= used'["user"],
         cons' = cons
  PROVE  ConsOK'
  BY DEF ClusterOK, ConsOK, ObjectOK, Kinds, ConsIdle

(* The objects, the queue and the producers stay well formed while no       *)
(* object changes and no metric is sent.                                    *)
LEMMA ClusterKept ==
  ASSUME ClusterOK, used' \in [Kinds -> Nat], used["user"] <= used'["user"],
         sl' = sl, queue' \subseteq Svc, interest' \subseteq Svc, prod' = prod
  PROVE  ClusterOK'
  BY DEF ClusterOK, ObjectOK, Kinds

(* The copies of the ConfigMap belong to goroutines that did not move.      *)
LEMMA CopiesKept ==
  ASSUME CopiesOK, rec' = rec, cons' = cons, snap' = snap
  PROVE  CopiesOK'
  BY DEF CopiesOK

(* A restarted process has nothing in hand.                                 *)
LEMMA RestartOK ==
  ASSUME RestartMemory, RestartConfigMap
  PROVE  RecOK' /\ ConsOK' /\ CopiesOK'
  <1> USE DEF RestartMemory, RestartConfigMap
  <1>1. RecOK'
    BY DEF RecOK, RecIdle, RecPcs
  <1>2. ConsOK'
    BY DEF ConsOK, ConsIdle, ConsPcs, NoMetrics
  <1>3. CopiesOK'
    BY DEF CopiesOK, Actors, RecIdle, ConsIdle
  <1> QED
    BY <1>1, <1>2, <1>3

(* After its write an actor has no copy any more, and who had none has none. *)
LEMMA PutCopies ==
  ASSUME DOMAIN snap = Actors, NEW a \in Actors, NEW s, NEW desc,
         UpdateConfigMap(a, s, desc)
  PROVE  /\ DOMAIN snap' = Actors
         /\ snap'[a] = NoCopy
         /\ \A b \in Actors : snap[b] = NoCopy => snap'[b] = NoCopy
  <1> DEFINE new == RebuiltRules(snap[a].rules, s, desc)
  <1>1. CASE new # snap[a].rules /\ snap[a].current
    <2>1. snap' = [b \in Actors |-> IF b = a THEN NoCopy ELSE Outdated(snap[b])]
      BY <1>1 DEF UpdateConfigMap
    <2>2. Outdated(NoCopy) = NoCopy
      BY DEF Outdated, NoCopy
    <2> HIDE DEF new
    <2> QED
      BY <2>1, <2>2
  <1>2. CASE ~(new # snap[a].rules /\ snap[a].current)
    <2>1. snap' = [snap EXCEPT ![a] = NoCopy]
      BY <1>2 DEF UpdateConfigMap
    <2> QED
      BY <2>1
  <1> QED
    BY <1>1, <1>2

(* Nothing that happens around the limiter breaks the types.                *)
LEMMA ClusterTypeOK ==
  ASSUME TypeOK, ClusterNext
  PROVE  TypeOK'
  <1> USE DEF TypeOK
  <1>u. ASSUME NEW k \in Kinds, Spend(k)
        PROVE  used' \in [Kinds -> Nat] /\ used["user"] <= used'["user"]
    BY <1>u, SpendGrows
  <1>k. /\ used["user"] \in Nat
        /\ {"user", "resync", "world", "subset", "crash", "fault", "lag"} \subseteq Kinds
    BY DEF ClusterOK, Kinds
  <1>f. ASSUME used' \in [Kinds -> Nat], used["user"] <= used'["user"],
               rec' = rec, cons' = cons, snap' = snap, ClusterOK'
        PROVE  TypeOK'
    BY <1>f, RecKept, ConsKept, CopiesKept
  <1>1. ASSUME NEW s \in Svc, NEW p \in PolicyOf[s], NEW rev \in Revs, Apply(s, p, rev)
        PROVE  TypeOK'
    <2>1. /\ used' \in [Kinds -> Nat] /\ used["user"] <= used'["user"]
          /\ used'["user"] = used["user"] + 1
      BY <1>1, <1>u, <1>k DEF Apply, Spend, ClusterOK
    <2>2. ASSUME NEW t \in Svc, sl'[t] # Nil PROVE ObjectOK(t, sl[t])'
      <3>1. CASE t = s
        BY <1>1, <2>1, <1>k, <3>1 DEF Apply, ClusterOK, ObjectOK
      <3>2. CASE t # s
        BY <1>1, <2>1, <2>2, <1>k, <3>2 DEF Apply, ClusterOK, ObjectOK
      <3> QED
        BY <3>1, <3>2
    <2>3. ClusterOK'
      BY <1>1, <2>1, <2>2, <1>k DEF Apply, ClusterOK, memVars
    <2> QED
      BY <1>1, <2>1, <2>3, <1>f DEF Apply, cmVars
  <1>2. ASSUME NEW s \in Svc, Delete(s) PROVE TypeOK'
    <2>1. used' \in [Kinds -> Nat] /\ used["user"] <= used'["user"]
      BY <1>2, <1>u, <1>k DEF Delete
    <2>2. ClusterOK'
      BY <1>2, <2>1, <1>k DEF Delete, ClusterOK, ObjectOK, memVars
    <2> QED
      BY <1>2, <2>1, <2>2, <1>f DEF Delete, cmVars
  <1>3. ASSUME NEW s \in Svc, Resync(s) PROVE TypeOK'
    <2>1. used' \in [Kinds -> Nat] /\ used["user"] <= used'["user"]
      BY <1>3, <1>u, <1>k DEF Resync
    <2>2. ClusterOK'
      BY <1>3, <2>1, ClusterKept DEF Resync, ClusterOK, objVars, memVars
    <2> QED
      BY <1>3, <2>1, <2>2, <1>f DEF Resync, cmVars
  <1>4. CASE Surroundings
    <2>1. used' \in [Kinds -> Nat] /\ used["user"] <= used'["user"]
      BY <1>4, <1>u, <1>k DEF Surroundings, SetSubsets, ChangeWorld
    <2>2. UNCHANGED <<sl, queue, interest, prod, rec, cons, snap>>
      BY <1>4 DEF Surroundings, SetSubsets, ChangeWorld, objVars, memVars, cmVars
    <2>3. ClusterOK'
      BY <2>1, <2>2, ClusterKept DEF ClusterOK
    <2> QED
      BY <2>1, <2>2, <2>3, <1>f
  <1>5. ASSUME NEW s \in Svc, NEW x \in SetNames, GarbageCollect(s, x) PROVE TypeOK'
    <2>1. UNCHANGED <<sl, queue, interest, prod, rec, cons, snap>>
      BY <1>5 DEF GarbageCollect, memVars, cmVars
    <2>2. used' \in [Kinds -> Nat] /\ used["user"] <= used'["user"]
      <3>1. used' = used \/ Spend("lag")
        BY <1>5 DEF GarbageCollect, WriteEnvoyFilter
      <3> QED
        BY <3>1, <1>u, <1>k DEF ClusterOK
    <2> QED
      BY <2>1, <2>2, ClusterKept, <1>f DEF ClusterOK
  <1>6. CASE SyncCache \/ SyncEnvoyFilters \/ \E s \in Svc : ReconcileDestinationRule(s)
    <2>1. used' = used /\ UNCHANGED <<sl, queue, interest, prod, rec, cons, snap>>
      BY <1>6 DEF SyncCache, SyncConfigMapCache, SyncEnvoyFilters, ReconcileDestinationRule,
                  objVars, memVars, cmVars
    <2>2. used' \in [Kinds -> Nat] /\ used["user"] <= used'["user"]
      BY <2>1, <1>k DEF ClusterOK
    <2> QED
      BY <2>1, <2>2, ClusterKept, <1>f DEF ClusterOK
  <1>7. CASE Crash
    <2>1. used' \in [Kinds -> Nat] /\ used["user"] <= used'["user"]
      BY <1>7, <1>u, <1>k DEF Crash
    <2>2. sl' = sl /\ queue' \subseteq Svc /\ interest' = {} /\ prod' = [p \in Producers |-> Nil]
      BY <1>7 DEF Crash, RestartMemory, objVars
    <2>3. ClusterOK'
      BY <2>1, <2>2, <1>k DEF ClusterOK, ObjectOK
    <2> QED
      BY <1>7, <2>3, RestartOK DEF Crash
  <1> QED
    BY <1>1, <1>2, <1>3, <1>4, <1>5, <1>6, <1>7 DEF ClusterNext, Users

(* No step of the reconcile worker breaks the types.                        *)
LEMMA ReconcileTypeOK ==
  ASSUME TypeOK, ReconcileNext
  PROVE  TypeOK'
  <1> USE DEF TypeOK
  <1>c. prod' = prod /\ sl' = sl /\ cons' = cons
    BY DEF ReconcileNext, ReconcileStep, ReconcileGet, ReconcileUpsert, ReconcilePop,
           ReconcileUninterest, ReconcileCmGet, ReconcileCmPut, ReconcileCmFault, objVars
  <1>k. "fault" \in Kinds /\ used \in [Kinds -> Nat] /\ used["user"] \in Nat
    BY DEF ClusterOK, Kinds
  <1>f. ASSUME used' = used \/ Spend("fault"), queue' \subseteq Svc, interest' \subseteq Svc,
               RecOK', CopiesOK'
        PROVE  TypeOK'
    <2>1. used' \in [Kinds -> Nat] /\ used["user"] <= used'["user"]
      BY <1>f, <1>k, SpendGrows
    <2> QED
      BY <1>f, <1>c, <2>1, ClusterKept, ConsKept
  <1>1. ASSUME NEW s \in Svc, ReconcileGet(s) PROVE TypeOK'
    <2>1. used' = used /\ queue' \subseteq Svc /\ interest' = interest /\ snap' = snap
      BY <1>1 DEF ReconcileGet, ClusterOK, memVars, cmVars
    <2>2. RecOK' /\ rec'.pc # "cmput"
      <3>1. CASE sl[s] = Nil
        BY <1>1, <3>1 DEF ReconcileGet, RecOK, RecIdle, RecPcs
      <3>2. CASE sl[s] # Nil /\ ~RevInScope(sl[s])
        BY <1>1, <3>2 DEF ReconcileGet, RecOK, RecIdle, RecPcs
      <3>3. CASE sl[s] # Nil /\ RevInScope(sl[s])
        <4>1. rec' = [pc |-> "upsert", svc |-> s, obj |-> sl[s]]
          BY <1>1, <3>3 DEF ReconcileGet
        <4>2. ObjectOK(rec.svc, rec.obj)'
          BY <4>1, <3>3, <2>1 DEF ClusterOK, ObjectOK
        <4> QED
          BY <4>1, <4>2, <3>3 DEF RecOK, RecIdle, RecPcs, RevInScope
      <3> QED
        BY <3>1, <3>2, <3>3
    <2>3. CopiesOK'
      BY <1>c, <2>1, <2>2, <1>1 DEF CopiesOK, ReconcileGet
    <2> QED
      BY <2>1, <2>2, <2>3, <1>f DEF ClusterOK
  <1>2. CASE ReconcileUpsert
    <2>1. used' = used /\ queue' = queue /\ snap' = snap /\ rec' = RecIdle
      BY <1>2 DEF ReconcileUpsert, cmVars
    <2>2. interest' \subseteq Svc
      BY <1>2 DEF ReconcileUpsert, ClusterOK, RecOK
    <2>3. RecOK' /\ CopiesOK'
      BY <1>2, <1>c, <2>1 DEF ReconcileUpsert, RecOK, CopiesOK, RecIdle, RecPcs
    <2> QED
      BY <2>1, <2>2, <2>3, <1>f DEF ClusterOK
  <1>3. CASE ReconcilePop
    <2>1. used' = used /\ queue' = queue /\ interest' = interest /\ snap' = snap
      BY <1>3 DEF ReconcilePop, cmVars
    <2>2. RecOK' /\ CopiesOK'
      BY <1>3, <1>c, <2>1 DEF ReconcilePop, RecMoves, RecOK, CopiesOK, RecIdle, RecPcs
    <2> QED
      BY <2>1, <2>2, <1>f DEF ClusterOK
  <1>4. CASE ReconcileUninterest
    <2>1. used' = used /\ queue' = queue /\ interest' \subseteq interest /\ snap' = snap
      BY <1>4 DEF ReconcileUninterest, cmVars
    <2>2. RecOK' /\ CopiesOK'
      BY <1>4, <1>c, <2>1 DEF ReconcileUninterest, RecMoves, RecOK, CopiesOK, RecIdle, RecPcs
    <2> QED
      BY <2>1, <2>2, <1>f DEF ClusterOK
  <1>5. CASE ReconcileCmGet
    <2>1. used' = used /\ queue' = queue /\ interest' = interest
      BY <1>5 DEF ReconcileCmGet, memVars
    <2>2. RecOK' /\ CopiesOK'
      BY <1>5, <1>c DEF ReconcileCmGet, GetConfigMap, RecMoves, RecOK, CopiesOK, RecIdle, RecPcs
    <2> QED
      BY <2>1, <2>2, <1>f DEF ClusterOK
  <1>6. CASE ReconcileCmPut
    <2>1. used' = used /\ queue' = queue /\ interest' = interest /\ rec' = RecIdle
      BY <1>6 DEF ReconcileCmPut, memVars
    <2>2. RecOK'
      BY <2>1 DEF RecOK, RecIdle, RecPcs
    <2>3. CopiesOK'
      BY <1>6, <1>c, <2>1, PutCopies DEF ReconcileCmPut, CopiesOK, RecIdle, Actors
    <2> QED
      BY <2>1, <2>2, <2>3, <1>f DEF ClusterOK
  <1>7. CASE ReconcileCmFault
    <2>1. Spend("fault") /\ queue' = queue /\ interest' = interest /\ rec' = RecIdle
      BY <1>7 DEF ReconcileCmFault, memVars
    <2>2. RecOK'
      BY <2>1 DEF RecOK, RecIdle, RecPcs
    <2>3. CopiesOK'
      BY <1>7, <1>c, <2>1 DEF ReconcileCmFault, FailConfigMap, CopiesOK, RecIdle, Actors
    <2> QED
      BY <2>1, <2>2, <2>3, <1>f DEF ClusterOK
  <1> QED
    BY <1>1, <1>2, <1>3, <1>4, <1>5, <1>6, <1>7 DEF ReconcileNext, ReconcileStep

(* A producer sends a metric of services only.                              *)
LEMMA SendOK ==
  ASSUME ClusterOK, NEW p \in Producers, NEW services \in SUBSET Svc, Send(p, services)
  PROVE  /\ DOMAIN prod' = Producers
         /\ \A q \in Producers : prod'[q] # Nil => DOMAIN prod'[q] \subseteq Svc
  <1>1. PICK last \in [services -> LastHandlers] :
          prod' = [prod EXCEPT ![p] = [s \in services |-> handleEvent(s, last[s])]]
    BY DEF Send
  <1> DEFINE metric == [s \in services |-> handleEvent(s, last[s])]
  <1>2. DOMAIN metric = services
    OBVIOUS
  <1>3. prod' = [prod EXCEPT ![p] = metric]
    BY <1>1
  <1> HIDE DEF metric
  <1> QED
    BY <1>2, <1>3 DEF ClusterOK

(* No step of a producer breaks the types.                                  *)
LEMMA ProducerTypeOK ==
  ASSUME TypeOK, ProducerNext
  PROVE  TypeOK'
  <1> USE DEF TypeOK
  <1>k. /\ "ticker" \in Producers /\ (Adaptive => "watcher" \in Producers)
        /\ "fault" \in Kinds /\ used \in [Kinds -> Nat] /\ used["user"] \in Nat
    BY DEF Producers, Kinds, ClusterOK
  <1>q. Queried \subseteq Svc
    BY DEF Queried, ClusterOK
  <1>f. ASSUME used' = used \/ Spend("fault"),
               NEW p \in Producers, NEW services \in SUBSET Svc, Send(p, services)
        PROVE  TypeOK'
    <2>1. used' \in [Kinds -> Nat] /\ used["user"] <= used'["user"]
      BY <1>f, <1>k, SpendGrows
    <2>2. UNCHANGED <<sl, queue, interest, rec, cons, snap>>
      BY <1>f DEF Send, objVars, memVars, cmVars
    <2>3. ClusterOK'
      <3>1. /\ DOMAIN prod' = Producers
            /\ \A q \in Producers : prod'[q] # Nil => DOMAIN prod'[q] \subseteq Svc
        BY <1>f, SendOK
      <3> QED
        BY <3>1, <2>1, <2>2 DEF ClusterOK, ObjectOK, Kinds
    <2> QED
      BY <2>1, <2>2, <2>3, RecKept, ConsKept, CopiesKept
  <1>1. CASE handleTickerEvent
    <2>1. CASE Queried = {}
      BY <1>1, <2>1, RecKept, ConsKept, CopiesKept, ClusterKept, <1>k
      DEF handleTickerEvent, vars, objVars, cmVars, envVars, memVars, ClusterOK
    <2>2. CASE Queried # {}
      BY <1>1, <2>2, <1>f, <1>q, <1>k DEF handleTickerEvent
    <2> QED
      BY <2>1, <2>2
  <1>2. ASSUME NEW rest \in SUBSET Queried, TickerFault(rest) PROVE TypeOK'
    BY <1>2, <1>f, <1>q, <1>k DEF TickerFault
  <1>3. ASSUME NEW s \in Svc, handleWatcherEvent(s) PROVE TypeOK'
    BY <1>3, <1>f, <1>k DEF handleWatcherEvent
  <1> QED
    BY <1>1, <1>2, <1>3 DEF ProducerNext

(* When Refresh returns, the consumer has nothing in hand but the rest of   *)
(* its metric.                                                              *)
LEMMA ReturnOK ==
  ASSUME ConsOK, RefreshReturns
  PROVE  ConsOK' /\ cons'.pc # "cmput"
  BY DEF RefreshReturns, ConsOK, ConsIdle, ConsPcs

(* A consumer that only moves on keeps the object it has in hand.           *)
LEMMA MoveOK ==
  ASSUME ConsOK, used' \in [Kinds -> Nat], ClusterOK, used["user"] <= used'["user"],
         cons.pc \notin {"recv", "next", "get"}, DOMAIN cons' = DOMAIN cons,
         cons'.pc \in ConsPcs, cons'.todo = cons.todo, cons'.svc = cons.svc,
         cons'.obj = cons.obj
  PROVE  ConsOK'
  <1>1. ObjectOK(cons.svc, cons.obj)'
    BY ObjectKept DEF ConsOK, ObjectOK
  <1> QED
    BY <1>1 DEF ConsOK

(* After the write of an EnvoyFilter the consumer still has its object in   *)
(* hand.                                                                    *)
LEMMA EfDoneOK ==
  ASSUME ConsOK, used' \in [Kinds -> Nat], ClusterOK, used["user"] <= used'["user"],
         cons.pc = "ef", NEW x, EfDone(x)
  PROVE  ConsOK' /\ cons'.pc # "cmput"
  <1>1. cons'.pc \in {"ef", "cmget", "status"}
    BY DEF EfDone, ConsOK, ConsIdle
  <1>2. /\ DOMAIN cons' = DOMAIN cons /\ cons'.todo = cons.todo
        /\ cons'.svc = cons.svc /\ cons'.obj = cons.obj
    BY DEF EfDone, ConsOK, ConsIdle
  <1> QED
    BY <1>1, <1>2, MoveOK DEF ConsPcs

(* No step of the metric consumer breaks the types.                         *)
LEMMA ConsumerTypeOK ==
  ASSUME TypeOK, ConsumerNext
  PROVE  TypeOK'
  <1> USE DEF TypeOK
  <1>c. interest' = interest /\ sl' = sl /\ rec' = rec
    BY DEF ConsumerNext, RefreshStep, ReceiveMetric, ConsumeMetric, RefreshGet, RefreshGenerate,
           RefreshEnvoyFilter, RefreshCmGet, RefreshCmPut, RefreshStatus, RefreshFault,
           objVars, memVars
  <1>k. "fault" \in Kinds /\ "lag" \in Kinds /\ used \in [Kinds -> Nat] /\ used["user"] \in Nat
    BY DEF ClusterOK, Kinds
  <1>s. ASSUME used' = used \/ Spend("fault") \/ Spend("lag")
        PROVE  used' \in [Kinds -> Nat] /\ used["user"] <= used'["user"]
    BY <1>s, <1>k, SpendGrows
  <1>f. ASSUME used' = used \/ Spend("fault") \/ Spend("lag"), queue' \subseteq Svc, prod' = prod,
               ConsOK', CopiesOK'
        PROVE  TypeOK'
    BY <1>f, <1>c, <1>s, ClusterKept, RecKept DEF ClusterOK
  <1>1. ASSUME NEW p \in Producers, ReceiveMetric(p) PROVE TypeOK'
    <2>1. used' = used /\ queue' = queue /\ snap' = snap /\ cons.pc = "recv"
      BY <1>1 DEF ReceiveMetric, cmVars
    <2>2. cons' = [ConsIdle EXCEPT !.pc = "next", !.todo = prod[p]] /\ prod[p] # Nil
      BY <1>1 DEF ReceiveMetric
    <2>3. ConsOK' /\ cons'.pc = "next"
      BY <2>2 DEF ConsOK, ConsIdle, ConsPcs, ClusterOK
    <2>4. CopiesOK'
      BY <2>1, <2>3, <1>c DEF CopiesOK
    <2>5. ClusterOK'
      BY <1>1, <1>c, <2>1 DEF ReceiveMetric, ClusterOK, ObjectOK
    <2> QED
      BY <1>c, <1>s, <2>1, <2>3, <2>4, <2>5, RecKept
  <1>2. ASSUME NEW s \in Svc, ConsumeMetric(s) PROVE TypeOK'
    <2>1. used' = used /\ queue' = queue /\ snap' = snap /\ prod' = prod /\ cons.pc = "next"
      BY <1>2 DEF ConsumeMetric, cmVars
    <2>2. cons' = [cons EXCEPT !.pc = "get", !.svc = s,
                               !.todo = [t \in DOMAIN cons.todo \ {s} |-> cons.todo[t]]]
      BY <1>2 DEF ConsumeMetric
    <2>3. ConsOK' /\ cons'.pc = "get"
      BY <2>2 DEF ConsOK, ConsIdle, ConsPcs
    <2>4. CopiesOK'
      BY <2>1, <2>3, <1>c DEF CopiesOK
    <2> QED
      BY <2>1, <2>3, <2>4, <1>f DEF ClusterOK
  <1>3. CASE RefreshGet
    <2>1. used' = used /\ queue' = queue /\ snap' = snap /\ prod' = prod /\ cons.pc = "get"
      BY <1>3 DEF RefreshGet, cmVars
    <2>2. ConsOK' /\ cons'.pc # "cmput"
      <3>1. CASE sl[cons.svc] = Nil
        BY <1>3, <3>1, ReturnOK DEF RefreshGet
      <3>2. CASE sl[cons.svc] # Nil
        <4>1. cons' = [cons EXCEPT !.pc = "gen", !.obj = sl[cons.svc]]
          BY <1>3, <3>2 DEF RefreshGet
        <4>2. cons.svc \in Svc
          BY <2>1 DEF ConsOK
        <4>3. ObjectOK(cons.svc, cons.obj)'
          BY <4>1, <4>2, <3>2, <2>1 DEF ClusterOK, ObjectOK, ConsOK, ConsIdle
        <4> QED
          BY <4>1, <4>2, <4>3 DEF ConsOK, ConsIdle, ConsPcs
      <3> QED
        BY <3>1, <3>2
    <2>3. CopiesOK'
      BY <2>1, <2>2, <1>c DEF CopiesOK
    <2> QED
      BY <2>1, <2>2, <2>3, <1>f DEF ClusterOK
  <1>4. CASE RefreshGenerate
    <2>1. used' = used /\ queue' = queue /\ snap' = snap /\ prod' = prod /\ cons.pc = "gen"
      BY <1>4 DEF RefreshGenerate, cmVars
    <2>2. ConsOK' /\ cons'.pc # "cmput"
      <3>1. CASE cons.obj.policy.sets = Nil
        BY <1>4, <3>1, ReturnOK DEF RefreshGenerate
      <3>2. CASE cons.obj.policy.sets # Nil
        <4> DEFINE material == getMaterial(cons.svc)
                   out == GenerateEnvoyConfigs(cons.obj.policy, material,
                                               subsets[cons.svc], cons.svc)
        <4>1. cons' = [cons EXCEPT !.pc = "ef", !.material = material,
                                   !.out = out, !.efs = DOMAIN out.efs]
          BY <1>4, <3>2 DEF RefreshGenerate
        <4> HIDE DEF material, out
        <4>2. cons'.pc = "ef"
          BY <4>1 DEF ConsOK, ConsIdle
        <4>3. /\ DOMAIN cons' = DOMAIN cons /\ cons'.todo = cons.todo
              /\ cons'.svc = cons.svc /\ cons'.obj = cons.obj
          BY <4>1 DEF ConsOK, ConsIdle
        <4> QED
          BY <4>2, <4>3, <2>1, <1>s, MoveOK DEF ConsPcs
      <3> QED
        BY <3>1, <3>2
    <2>3. CopiesOK'
      BY <2>1, <2>2, <1>c DEF CopiesOK
    <2> QED
      BY <2>1, <2>2, <2>3, <1>f DEF ClusterOK
  <1>5. ASSUME NEW x \in SetNames, RefreshEnvoyFilter(x) PROVE TypeOK'
    <2>1. /\ used' = used \/ Spend("lag")
          /\ queue' = queue /\ snap' = snap /\ prod' = prod /\ cons.pc = "ef"
      BY <1>5 DEF RefreshEnvoyFilter, WriteEnvoyFilter, cmVars
    <2>2. ConsOK' /\ cons'.pc # "cmput"
      BY <1>5, <1>s, <2>1, EfDoneOK DEF RefreshEnvoyFilter
    <2>3. CopiesOK'
      BY <2>1, <2>2, <1>c DEF CopiesOK
    <2> QED
      BY <2>1, <2>2, <2>3, <1>f DEF ClusterOK
  <1>m. ASSUME NEW pc \in ConsPcs, ConsMoves(pc), cons.pc \in {"cmget", "cmput"},
               used' = used \/ Spend("fault") \/ Spend("lag")
        PROVE  ConsOK' /\ cons'.pc = pc
    <2>1. /\ DOMAIN cons' = DOMAIN cons /\ cons'.todo = cons.todo
          /\ cons'.svc = cons.svc /\ cons'.obj = cons.obj /\ cons'.pc = pc
      BY <1>m DEF ConsMoves, ConsOK, ConsIdle
    <2> QED
      BY <2>1, <1>m, <1>s, MoveOK
  <1>6. CASE RefreshCmGet
    <2>1. used' = used /\ queue' = queue /\ prod' = prod /\ cons.pc = "cmget"
      BY <1>6 DEF RefreshCmGet
    <2>2. ConsOK' /\ cons'.pc = "cmput"
      BY <1>6, <1>m, <2>1 DEF RefreshCmGet, ConsPcs
    <2>3. CopiesOK'
      BY <1>6, <2>2, <1>c DEF RefreshCmGet, GetConfigMap, CopiesOK
    <2> QED
      BY <2>1, <2>2, <2>3, <1>f DEF ClusterOK
  <1>7. CASE RefreshCmPut
    <2>1. used' = used /\ queue' = queue /\ prod' = prod /\ cons.pc = "cmput"
      BY <1>7 DEF RefreshCmPut
    <2>2. ConsOK' /\ cons'.pc = "status"
      BY <1>7, <1>m, <2>1 DEF RefreshCmPut, ConsPcs
    <2>3. CopiesOK'
      BY <1>7, <2>2, <1>c, PutCopies DEF RefreshCmPut, CopiesOK, Actors
    <2> QED
      BY <2>1, <2>2, <2>3, <1>f DEF ClusterOK
  <1>8. CASE RefreshStatus
    <2>1. used' = used /\ snap' = snap /\ prod' = prod /\ cons.pc = "status"
      BY <1>8 DEF RefreshStatus, cmVars
    <2>2. queue' \subseteq Svc
      BY <1>8, <2>1 DEF RefreshStatus, UpdateStatus, ClusterOK, ConsOK
    <2>3. ConsOK' /\ cons'.pc # "cmput"
      BY <1>8, ReturnOK DEF RefreshStatus
    <2>4. CopiesOK'
      BY <2>1, <2>3, <1>c DEF CopiesOK
    <2> QED
      BY <2>1, <2>2, <2>3, <2>4, <1>f
  <1>9. CASE RefreshFault
    <2>1. Spend("fault") /\ queue' = queue /\ prod' = prod
      BY <1>9 DEF RefreshFault
    <2>2. CASE cons.pc \in {"get", "gen", "status"} /\ RefreshReturns /\ UNCHANGED cmVars
      BY <2>1, <2>2, <1>c, <1>f, ReturnOK DEF CopiesOK, cmVars, ClusterOK
    <2>3. CASE cons.pc = "ef" /\ (\E x \in cons.efs : EfDone(x)) /\ UNCHANGED cmVars
      BY <2>1, <2>3, <1>c, <1>f, <1>s, EfDoneOK DEF CopiesOK, cmVars, ClusterOK
    <2>4. CASE cons.pc \in {"cmget", "cmput"} /\ FailConfigMap("metric") /\ ConsMoves("status")
      <3>1. ConsOK' /\ cons'.pc = "status"
        BY <2>1, <2>4, <1>m DEF ConsPcs
      <3>2. CopiesOK'
        BY <2>4, <3>1, <1>c DEF FailConfigMap, CopiesOK, Actors
      <3> QED
        BY <2>1, <3>1, <3>2, <1>f DEF ClusterOK
    <2> QED
      BY <1>9, <2>2, <2>3, <2>4 DEF RefreshFault
  <1> QED
    BY <1>1, <1>2, <1>3, <1>4, <1>5, <1>6, <1>7, <1>8, <1>9 DEF ConsumerNext, RefreshStep

(* The control state of the goroutines stays well formed, for any number of *)
(* services, policies and steps: in particular the reconcile worker never   *)
(* acts on an object out of its scope, and nobody writes the ConfigMap from *)
(* a copy of an earlier refresh.                                            *)
THEOREM TypeCorrect == Spec => []TypeOK
  <1>1. TypeOK /\ [Next]_vars => TypeOK'
    <2> SUFFICES ASSUME TypeOK, [Next]_vars PROVE TypeOK'
      OBVIOUS
    <2>1. CASE UNCHANGED vars
      <3>1. used' \in [Kinds -> Nat] /\ used["user"] <= used'["user"]
        BY <2>1 DEF TypeOK, ClusterOK, Kinds, vars
      <3> QED
        BY <2>1, <3>1, RecKept, ConsKept, CopiesKept, ClusterKept
        DEF TypeOK, ClusterOK, vars, objVars, cmVars, memVars
    <2> QED
      BY <2>1, ClusterTypeOK, ReconcileTypeOK, ProducerTypeOK, ConsumerTypeOK DEF Next
  <1> QED
    BY <1>1, InitTypeOK, PTL DEF Spec
=============================================================================
