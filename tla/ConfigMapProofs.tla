-------------------------- MODULE ConfigMapProofs ---------------------------
(***************************************************************************)
(* The two goroutines that refresh the RLS ConfigMap implement the atomic  *)
(* refreshes of ConfigMapStore.                                            *)
(***************************************************************************)
EXTENDS LimiterProofs, RuleProofs, FiniteSetTheorems

(* A copy that claims to be current is.                                     *)
CurrentInv ==
  /\ cmCache.current => cmCache.rules = cm
  /\ \A a \in Actors : snap[a].current => snap[a].rules = cm

(* The ConfigMap starts empty and the cache in step with it.                *)
LEMMA InitCurrent == Init => CurrentInv
  BY DEF Init, InitState, InitConfigMap, CurrentInv, NoCopy

(* An update from a copy that is current acts on the rules in force; any    *)
(* other update changes nothing.                                            *)
LEMMA UpdateCurrent ==
  ASSUME CurrentInv, DOMAIN snap = Actors, NEW a \in Actors, NEW s, NEW desc,
         UpdateConfigMap(a, s, desc)
  PROVE  CurrentInv' /\ (cm' = cm \/ cm' = RebuiltRules(cm, s, desc))
  <1> DEFINE new == RebuiltRules(snap[a].rules, s, desc)
  <1>1. CASE new # snap[a].rules /\ snap[a].current
    <2>1. /\ cm' = new /\ cmCache' = Outdated(cmCache)
          /\ snap' = [b \in Actors |-> IF b = a THEN NoCopy ELSE Outdated(snap[b])]
      BY <1>1 DEF UpdateConfigMap
    <2>2. snap[a].rules = cm
      BY <1>1 DEF CurrentInv
    <2>3. cm' = RebuiltRules(cm, s, desc)
      BY <2>1, <2>2
    <2> HIDE DEF new
    <2>4. CurrentInv'
      BY <2>1 DEF CurrentInv, Outdated, NoCopy
    <2> QED
      BY <2>3, <2>4
  <1>2. CASE ~(new # snap[a].rules /\ snap[a].current)
    <2>1. snap' = [snap EXCEPT ![a] = NoCopy] /\ UNCHANGED <<cm, cmCache>>
      BY <1>2 DEF UpdateConfigMap
    <2> QED
      BY <2>1 DEF CurrentInv, NoCopy
  <1> QED
    BY <1>1, <1>2

(* The invariant is inductive: only the steps that touch the ConfigMap or a *)
(* copy of it matter.                                                       *)
LEMMA CurrentStep ==
  ASSUME TypeOK, CurrentInv, [Next]_vars
  PROVE  CurrentInv'
  <1>d. DOMAIN snap = Actors /\ "reconcile" \in Actors /\ "metric" \in Actors
    BY DEF TypeOK, CopiesOK, Actors
  <1>1. ASSUME UNCHANGED cmVars PROVE CurrentInv'
    BY <1>1 DEF cmVars, CurrentInv
  <1>2. ASSUME NEW a \in Actors, GetConfigMap(a) PROVE CurrentInv'
    BY <1>2, <1>d DEF GetConfigMap, CurrentInv
  <1>3. ASSUME NEW a \in Actors, FailConfigMap(a) PROVE CurrentInv'
    BY <1>3, <1>d DEF FailConfigMap, CurrentInv, NoCopy
  <1>4. CASE ClusterNext
    <2>1. CASE SyncCache
      BY <2>1 DEF SyncCache, SyncConfigMapCache, CurrentInv
    <2>2. CASE Crash
      BY <2>2 DEF Crash, RestartConfigMap, CurrentInv, NoCopy
    <2> QED
      BY <1>1, <1>4, <2>1, <2>2 DEF ClusterNext, Users, Surroundings, Apply, Delete, Resync,
                                    SetSubsets, ChangeWorld, GarbageCollect,
                                    SyncEnvoyFilters, ReconcileDestinationRule
  <1>5. CASE ReconcileNext
    <2>1. CASE ReconcileCmPut
      BY <2>1, <1>d, UpdateCurrent DEF ReconcileCmPut
    <2>2. CASE ReconcileCmGet \/ ReconcileCmFault
      BY <2>2, <1>d, <1>2, <1>3 DEF ReconcileCmGet, ReconcileCmFault
    <2> QED
      BY <1>1, <1>5, <2>1, <2>2 DEF ReconcileNext, ReconcileStep, ReconcileGet, ReconcileUpsert,
                                    ReconcilePop, ReconcileUninterest
  <1>6. CASE ProducerNext
    BY <1>1, <1>6 DEF ProducerNext, handleTickerEvent, TickerFault, handleWatcherEvent, Send,
                      vars, cmVars
  <1>7. CASE ConsumerNext
    <2>1. CASE RefreshCmPut
      BY <2>1, <1>d, UpdateCurrent DEF RefreshCmPut
    <2>2. CASE RefreshCmGet \/ RefreshFault
      BY <2>2, <1>d, <1>1, <1>2, <1>3 DEF RefreshCmGet, RefreshFault
    <2> QED
      BY <1>1, <1>7, <2>1, <2>2 DEF ConsumerNext, RefreshStep, ReceiveMetric, ConsumeMetric,
                                    RefreshGet, RefreshGenerate, RefreshEnvoyFilter, RefreshStatus
  <1> QED
    BY <1>1, <1>4, <1>5, <1>6, <1>7 DEF Next, vars, cmVars

-----------------------------------------------------------------------------
(* The refinement.  Request["reconcile"] only depends on rec and            *)
(* Request["metric"] only on cons.                                          *)
LEMMA RequestOf ==
  /\ Request["reconcile"] = AsRequest(rec.pc, rec.svc, <<>>)
  /\ Request["metric"] = AsRequest(cons.pc, cons.svc, cons.out.gdesc)
  /\ Request'["reconcile"] = AsRequest(rec'.pc, rec'.svc, <<>>)
  /\ Request'["metric"] = AsRequest(cons'.pc, cons'.svc, cons'.out.gdesc)
  /\ Actors = {"reconcile", "metric"}
  BY DEF Request, Actors

(* The initial states correspond.                                           *)
LEMMA InitStore == Init => Store!Init
  BY RequestOf DEF Init, InitState, InitMemory, InitConfigMap, Store!Init, AsRequest, NoRequest,
                   RecIdle, ConsIdle

(* A step that changes neither the rules nor a request is a stutter.        *)
LEMMA StoreStutter ==
  ASSUME cm' = cm, Request' = Request
  PROVE  [Store!Next]_(Store!vars)
  BY DEF Store!vars

(* What may happen to the request of one goroutine while the other keeps    *)
(* its own: it is begun, ended with or without a write, or unchanged.       *)
LEMMA StoreMove ==
  ASSUME NEW a \in Actors, \A b \in Actors \ {a} : Request'[b] = Request[b],
         \/ cm' = cm /\ Request'[a] = Request[a]
         \/ cm' = cm /\ ~Request[a].active /\ Request'[a].active
         \/ /\ Request[a].active /\ ~Request'[a].active
            /\ cm' = cm \/ cm' = RebuiltRules(cm, Request[a].svc, Request[a].desc)
  PROVE  [Store!Next]_(Store!vars)
  <1>1. CASE cm' = cm /\ Request'[a] = Request[a]
    <2>1. Request' = Request
      BY <1>1 DEF Request
    <2> QED
      BY <1>1, <2>1, StoreStutter
  <1>2. CASE cm' = cm /\ ~Request[a].active /\ Request'[a].active
    BY <1>2 DEF Store!Next, Store!Begin, Store!OthersKeepRequests
  <1>3. CASE Request[a].active /\ ~Request'[a].active /\ cm' = cm
    BY <1>3 DEF Store!Next, Store!Abort, Store!OthersKeepRequests
  <1>4. CASE /\ Request[a].active /\ ~Request'[a].active
             /\ cm' = RebuiltRules(cm, Request[a].svc, Request[a].desc)
    BY <1>4 DEF Store!Next, Store!Commit, Store!OthersKeepRequests
  <1> QED
    BY <1>1, <1>2, <1>3, <1>4

(* The reconcile worker runs, the metric consumer does not.                 *)
LEMMA ReconcileStore ==
  ASSUME TypeOK, CurrentInv, ReconcileNext
  PROVE  [Store!Next]_(Store!vars)
  <1> USE RequestOf
  <1>t. DOMAIN rec = {"pc", "svc", "obj"} /\ DOMAIN snap = Actors
    BY DEF TypeOK, RecOK, RecIdle, CopiesOK
  <1>c. cons' = cons
    BY DEF ReconcileNext, ReconcileStep, ReconcileGet, ReconcileUpsert, ReconcilePop,
           ReconcileUninterest, ReconcileCmGet, ReconcileCmPut, ReconcileCmFault
  <1>o. \A b \in Actors \ {"reconcile"} : Request'[b] = Request[b]
    BY <1>c
  <1>1. CASE \/ \E s \in Svc : ReconcileGet(s)
             \/ ReconcileUpsert
             \/ ReconcilePop
    <2>1. /\ rec.pc \notin {"cmget", "cmput"} /\ rec'.pc \notin {"cmget", "cmput"}
          /\ cm' = cm
      BY <1>1, <1>t DEF ReconcileGet, ReconcileUpsert, ReconcilePop, RecMoves, RecIdle, cmVars
    <2>2. Request'["reconcile"] = Request["reconcile"]
      BY <2>1 DEF AsRequest
    <2> QED
      BY <2>1, <2>2, <1>o, StoreMove
  <1>2. CASE ReconcileUninterest
    <2>1. rec.pc = "uninterest" /\ cm' = cm
      BY <1>2 DEF ReconcileUninterest, cmVars
    <2>2. CASE GlobalEnabled
      <3>1. rec'.pc = "cmget"
        BY <1>2, <1>t, <2>2 DEF ReconcileUninterest, RecMoves
      <3>2. ~Request["reconcile"].active /\ Request'["reconcile"].active
        BY <2>1, <3>1 DEF AsRequest, NoRequest
      <3> QED
        BY <2>1, <3>2, <1>o, StoreMove
    <2>3. CASE ~GlobalEnabled
      <3>1. rec'.pc = "idle"
        BY <1>2, <2>3 DEF ReconcileUninterest, RecIdle
      <3>2. Request'["reconcile"] = Request["reconcile"]
        BY <2>1, <3>1 DEF AsRequest
      <3> QED
        BY <2>1, <3>2, <1>o, StoreMove
    <2> QED
      BY <2>2, <2>3
  <1>3. CASE ReconcileCmGet
    <2>1. rec.pc = "cmget" /\ rec'.pc = "cmput" /\ rec'.svc = rec.svc /\ cm' = cm
      BY <1>3, <1>t DEF ReconcileCmGet, GetConfigMap, RecMoves
    <2>2. Request'["reconcile"] = Request["reconcile"]
      BY <2>1 DEF AsRequest
    <2> QED
      BY <2>1, <2>2, <1>o, StoreMove
  <1>4. CASE ReconcileCmPut
    <2>1. rec.pc = "cmput" /\ rec'.pc = "idle"
      BY <1>4 DEF ReconcileCmPut, RecIdle
    <2>2. cm' = cm \/ cm' = RebuiltRules(cm, rec.svc, <<>>)
      BY <1>4, <1>t, UpdateCurrent DEF ReconcileCmPut
    <2>3. /\ Request["reconcile"].active /\ ~Request'["reconcile"].active
          /\ Request["reconcile"].svc = rec.svc /\ Request["reconcile"].desc = <<>>
      BY <2>1 DEF AsRequest, NoRequest
    <2> QED
      BY <2>2, <2>3, <1>o, StoreMove
  <1>5. CASE ReconcileCmFault
    <2>1. rec.pc \in {"cmget", "cmput"} /\ rec'.pc = "idle" /\ cm' = cm
      BY <1>5 DEF ReconcileCmFault, FailConfigMap, RecIdle
    <2>2. Request["reconcile"].active /\ ~Request'["reconcile"].active
      BY <2>1 DEF AsRequest, NoRequest
    <2> QED
      BY <2>1, <2>2, <1>o, StoreMove
  <1> QED
    BY <1>1, <1>2, <1>3, <1>4, <1>5 DEF ReconcileNext, ReconcileStep

(* The metric consumer runs, the reconcile worker does not.                 *)
LEMMA ConsumerStore ==
  ASSUME TypeOK, CurrentInv, ConsumerNext
  PROVE  [Store!Next]_(Store!vars)
  <1> USE RequestOf
  <1>t. /\ DOMAIN cons = {"pc", "todo", "svc", "obj", "material", "out", "efs"}
        /\ DOMAIN snap = Actors
    BY DEF TypeOK, ConsOK, ConsIdle, CopiesOK
  <1>c. rec' = rec
    BY DEF ConsumerNext, RefreshStep, ReceiveMetric, ConsumeMetric, RefreshGet, RefreshGenerate,
           RefreshEnvoyFilter, RefreshCmGet, RefreshCmPut, RefreshStatus, RefreshFault
  <1>o. \A b \in Actors \ {"metric"} : Request'[b] = Request[b]
    BY <1>c
  <1>i. ASSUME cons.pc \notin {"cmget", "cmput"}, cm' = cm PROVE [Store!Next]_(Store!vars)
    <2>1. ~Request["metric"].active /\ Request["metric"] = NoRequest
      BY <1>i DEF AsRequest, NoRequest
    <2>2. Request'["metric"].active \/ Request'["metric"] = NoRequest
      BY DEF AsRequest
    <2> QED
      BY <1>i, <2>1, <2>2, <1>o, StoreMove
  <1>1. CASE \/ \E p \in Producers : ReceiveMetric(p)
             \/ \E s \in Svc : ConsumeMetric(s)
             \/ RefreshGet
             \/ RefreshGenerate
             \/ \E x \in SetNames : RefreshEnvoyFilter(x)
             \/ RefreshStatus
    BY <1>1, <1>i DEF ReceiveMetric, ConsumeMetric, RefreshGet, RefreshGenerate,
                      RefreshEnvoyFilter, RefreshStatus, cmVars
  <1>2. CASE RefreshCmGet
    <2>1. /\ cons.pc = "cmget" /\ cons'.pc = "cmput" /\ cons'.svc = cons.svc
          /\ cons'.out = cons.out /\ cm' = cm
      BY <1>2, <1>t DEF RefreshCmGet, GetConfigMap, ConsMoves
    <2>2. Request'["metric"] = Request["metric"]
      BY <2>1 DEF AsRequest
    <2> QED
      BY <2>1, <2>2, <1>o, StoreMove
  <1>3. CASE RefreshCmPut
    <2>1. cons.pc = "cmput" /\ cons'.pc = "status"
      BY <1>3, <1>t DEF RefreshCmPut, ConsMoves
    <2>2. cm' = cm \/ cm' = RebuiltRules(cm, cons.svc, cons.out.gdesc)
      BY <1>3, <1>t, UpdateCurrent DEF RefreshCmPut
    <2>3. /\ Request["metric"].active /\ ~Request'["metric"].active
          /\ Request["metric"].svc = cons.svc /\ Request["metric"].desc = cons.out.gdesc
      BY <2>1 DEF AsRequest, NoRequest
    <2> QED
      BY <2>2, <2>3, <1>o, StoreMove
  <1>4. CASE RefreshFault
    <2>1. CASE cons.pc \notin {"cmget", "cmput"}
      BY <1>4, <2>1, <1>i DEF RefreshFault, cmVars
    <2>2. CASE cons.pc \in {"cmget", "cmput"}
      <3>1. cons'.pc = "status" /\ cm' = cm
        BY <1>4, <2>2, <1>t DEF RefreshFault, FailConfigMap, ConsMoves
      <3>2. Request["metric"].active /\ ~Request'["metric"].active
        BY <2>2, <3>1 DEF AsRequest, NoRequest
      <3> QED
        BY <3>1, <3>2, <1>o, StoreMove
    <2> QED
      BY <2>1, <2>2
  <1> QED
    BY <1>1, <1>2, <1>3, <1>4 DEF ConsumerNext, RefreshStep

(* Nothing else touches the ConfigMap or a refresh in progress, except for  *)
(* a crash, which ends both.                                                *)
LEMMA OtherStore ==
  ASSUME ClusterNext \/ ProducerNext \/ UNCHANGED vars
  PROVE  [Store!Next]_(Store!vars)
  <1>1. CASE Crash
    <2>1. cm' = cm /\ rec'.pc = "idle" /\ cons'.pc = "recv"
      BY <1>1 DEF Crash, RestartConfigMap, RestartMemory, RecIdle, ConsIdle
    <2>2. \A a \in Actors : ~Request'[a].active
      BY <2>1, RequestOf DEF AsRequest, NoRequest
    <2> QED
      BY <2>1, <2>2 DEF Store!Next, Store!Restart
  <1>2. ASSUME UNCHANGED <<cm, rec, cons>> PROVE [Store!Next]_(Store!vars)
    BY <1>2, StoreStutter DEF Request
  <1>3. CASE ClusterNext /\ ~Crash
    <2>1. UNCHANGED <<cm, rec, cons>>
      BY <1>3 DEF ClusterNext, Users, Surroundings, Apply, Delete, Resync, SetSubsets, ChangeWorld,
                  GarbageCollect, SyncCache, SyncConfigMapCache, SyncEnvoyFilters,
                  ReconcileDestinationRule, cmVars
    <2> QED
      BY <2>1, <1>2
  <1>4. CASE ProducerNext
    <2>1. UNCHANGED <<cm, rec, cons>>
      BY <1>4 DEF ProducerNext, handleTickerEvent, TickerFault, handleWatcherEvent, Send,
                  vars, cmVars
    <2> QED
      BY <2>1, <1>2
  <1>5. CASE UNCHANGED vars
    BY <1>5, <1>2 DEF vars, cmVars
  <1> QED
    BY <1>1, <1>3, <1>4, <1>5

(* The limiter refreshes the ConfigMap atomically: a refresh replaces the   *)
(* rules of its service in the rules of that instant, or changes nothing,   *)
(* although it reads through a cache that lags and another goroutine writes *)
(* in between (refreshConfigMap, process.go:308-353).                       *)
THEOREM RefreshAtomic == Spec => RefreshIsAtomic
  <1>1. TypeOK /\ CurrentInv /\ [Next]_vars => CurrentInv'
    BY CurrentStep
  <1>2. TypeOK /\ CurrentInv /\ [Next]_vars => [Store!Next]_(Store!vars)
    BY ReconcileStore, ConsumerStore, OtherStore DEF Next
  <1> QED
    BY <1>1, <1>2, InitCurrent, InitStore, TypeCorrect, PTL DEF Spec, RefreshIsAtomic, Store!Spec

-----------------------------------------------------------------------------
(* The rules of other services.                                             *)

(* No name of a service occurs in that of another one: as the run that      *)
(* checks infixes shows, refreshConfigMap is wrong about those.             *)
NoInfixes == \A s, t \in Svc : <<s, t>> \in Infix => s = t

(* Rebuilding the rules for one service puts the new ones in the place of   *)
(* its own and keeps those of every other service, in their order.          *)
LEMMA RebuiltKeeps ==
  ASSUME NEW rules, rules \in Seq(ToSet(rules)), NEW r \in Svc, NEW desc, RulesFor(desc, r)
  PROVE  LET new == RebuiltRules(rules, r, desc)
         IN  /\ new \in Seq(ToSet(new))
             /\ RulesOf(new, r) = desc
             /\ NoInfixes => \A s \in Svc : s # r => RulesOf(new, s) = RulesOf(rules, s)
  <1> DEFINE S == ToSet(rules) \cup ToSet(desc)
             A == {e \in S : ~ValueContains(e, r)}
             kept == Keep(rules, A)
             new == RebuiltRules(rules, r, desc)
  <1>1. rules \in Seq(S)
    BY DEF ToSet
  <1>2. desc \in Seq(S) /\ \A k \in 1..Len(desc) : desc[k].value.svc = r
    <2>1. desc \in Seq(ToSet(desc)) /\ \A e \in ToSet(desc) : e.value.svc = r
      BY DEF RulesFor
    <2>2. \A k \in 1..Len(desc) : desc[k] \in ToSet(desc)
      BY <2>1
    <2> HIDE DEF S
    <2>3. ToSet(desc) \subseteq S
      BY DEF S
    <2> QED
      BY <2>1, <2>2, <2>3
  <1>3. new = kept \o desc
    <2>1. {i \in DOMAIN rules : ~ValueContains(rules[i], r)} = {i \in DOMAIN rules : rules[i] \in A}
      <3>1. \A i \in DOMAIN rules : rules[i] \in S
        BY <1>1
      <3> QED
        BY <3>1
    <2>2. new = Pick(rules, {i \in DOMAIN rules : ~ValueContains(rules[i], r)}) \o desc
      BY Zenon DEF RebuiltRules, Filter
    <2> QED
      BY <2>1, <2>2, Zenon DEF Keep
  <1> HIDE DEF S, A, new
  <1>4. kept \in Seq(S)
    BY <1>1, KeepSolves
  <1>5. new \in Seq(ToSet(new))
    <2> HIDE DEF kept
    <2>1. new \in Seq(S)
      BY <1>2, <1>3, <1>4
    <2>2. Len(new) \in Nat /\ DOMAIN new = 1..Len(new) /\ new = [p \in 1..Len(new) |-> new[p]]
      BY <2>1
    <2>3. \A p \in 1..Len(new) : new[p] \in ToSet(new)
      BY <2>2 DEF ToSet
    <2> QED
      BY <2>2, <2>3
  <1>n. new \in Seq(S)
    <2> HIDE DEF kept
    <2> QED
      BY <1>2, <1>3, <1>4
  <1> DEFINE M(s) == {e \in S : e.value.svc = s}
  <1>6. ASSUME NEW s, NEW q \in Seq(S) PROVE RulesOf(q, s) = Keep(q, M(s))
    <2>1. {i \in DOMAIN q : q[i].value.svc = s} = {i \in DOMAIN q : q[i] \in M(s)}
      <3>1. \A i \in DOMAIN q : q[i] \in S
        OBVIOUS
      <3> QED
        BY <3>1
    <2>2. RulesOf(q, s) = Pick(q, {i \in DOMAIN q : q[i].value.svc = s})
      BY Zenon DEF RulesOf, Filter
    <2> QED
      BY <2>1, <2>2, Zenon DEF Keep
  <1>7. RulesOf(new, r) = desc
    <2>1. \A e \in A : e \notin M(r)
      BY InfixAssumption DEF A, ValueContains
    <2>2. \A k \in 1..Len(desc) : desc[k] \in M(r)
      BY <1>2
    <2> HIDE DEF M
    <2>3. \A k \in 1..Len(kept) : kept[k] \notin M(r)
      BY <1>1, <2>1, KeepPasses
    <2>4. Keep(kept \o desc, M(r)) = desc
      <3> HIDE DEF kept
      <3> QED
        BY <1>2, <1>4, <2>2, <2>3, KeepAppended
    <2> QED
      BY <1>3, <1>6, <1>n, <2>4
  <1>8. ASSUME NoInfixes, NEW s \in Svc, s # r PROVE RulesOf(new, s) = RulesOf(rules, s)
    <2>1. M(s) \subseteq A
      BY <1>8 DEF A, NoInfixes, ValueContains
    <2>2. \A k \in 1..Len(desc) : desc[k] \notin M(s)
      BY <1>2, <1>8
    <2> HIDE DEF M
    <2>3. Keep(kept \o desc, M(s)) = Keep(kept, M(s))
      <3> HIDE DEF kept
      <3> QED
        BY <1>2, <1>4, <2>2, KeepConcat
    <2>4. Keep(kept, M(s)) = Keep(rules, M(s))
      BY <1>1, <2>1, KeepKeep
    <2> QED
      BY <1>1, <1>3, <1>6, <1>n, <2>3, <2>4
  <1> QED
    BY <1>5, <1>7, <1>8 DEF new

(* Every service has a list of subsets.                                     *)
SubsetsListed(f) == DOMAIN f = Svc /\ \A s \in Svc : f[s] \in Seq(Subset)

(* The ConfigMap holds a list, the DestinationRules and HostSubsetMapping   *)
(* name lists of subsets, and the rules the metric consumer is about to     *)
(* write are of the service it works on.                                    *)
RulesInv ==
  /\ cm \in Seq(ToSet(cm))
  /\ SubsetsListed(dr) /\ SubsetsListed(subsets)
  /\ cons.pc \in {"ef", "cmget", "cmput"} => RulesFor(cons.out.gdesc, cons.svc)

(* No rules yet.                                                            *)
LEMMA InitRules == Init => RulesInv
  BY StateAssumption DEF Init, InitState, InitConfigMap, InitMemory, ConsIdle, RulesInv, ToSet,
                         SubsetsListed, NoSubsetsKnown

(* Lists of subsets are lists.                                              *)
LEMMA SubsetListsSeq == SubsetLists \subseteq Seq(Subset)
  <1> SUFFICES ASSUME NEW list \in SubsetLists PROVE list \in Seq(Subset)
    OBVIOUS
  <1>1. PICK D \in SUBSET Subset : list \in SetToSeqs(D)
    BY DEF SubsetLists, SetToAllKPermutations
  <1>2. IsFiniteSet(D)
    BY FS_Subset, StateAssumption
  <1>3. Cardinality(D) \in Nat
    BY <1>2, FS_CardinalityType
  <1>4. list \in [1..Cardinality(D) -> D]
    BY <1>1 DEF SetToSeqs
  <1> QED
    BY <1>3, <1>4

(* A write, of whichever goroutine, puts its rules in the place of those of *)
(* its service and keeps the rules of the other ones.                       *)
LEMMA UpdateKeepsOthers ==
  ASSUME CurrentInv, DOMAIN snap = Actors, cm \in Seq(ToSet(cm)),
         NEW a \in Actors, NEW r \in Svc, NEW desc, RulesFor(desc, r),
         UpdateConfigMap(a, r, desc)
  PROVE  /\ cm' \in Seq(ToSet(cm'))
         /\ cm' = cm \/ RulesOf(cm', r) = desc
         /\ NoInfixes => \A s \in Svc : s # r => RulesOf(cm', s) = RulesOf(cm, s)
  <1>1. cm' = cm \/ cm' = RebuiltRules(cm, r, desc)
    BY UpdateCurrent
  <1>2. CASE cm' = cm
    BY <1>2
  <1>3. CASE cm' = RebuiltRules(cm, r, desc)
    BY <1>3, RebuiltKeeps
  <1> QED
    BY <1>1, <1>2, <1>3

(* A goroutine that writes the ConfigMap for s puts there what it has.      *)
OwnWrite(s) ==
  \/ rec.pc = "cmput" /\ rec.svc = s /\ RulesOf(cm', s) = <<>>
  \/ cons.pc = "cmput" /\ cons.svc = s /\ RulesOf(cm', s) = cons.out.gdesc

(* Nothing is a list of rules of any service.                               *)
LEMMA NoRulesFor == \A s : RulesFor(<<>>, s)
  BY DEF RulesFor, ToSet

(* Who works on the rules of a service may change these and no others, and  *)
(* the invariant is inductive.                                              *)
LEMMA RulesStep ==
  ASSUME TypeOK, CurrentInv, RulesInv, [Next]_vars
  PROVE  /\ RulesInv'
         /\ NoInfixes => \A s \in Svc : RulesOf(cm', s) # RulesOf(cm, s) => OwnWrite(s)
  <1> DEFINE Goal == /\ RulesInv'
                     /\ NoInfixes => \A s \in Svc : RulesOf(cm', s) # RulesOf(cm, s) => OwnWrite(s)
  <1>d. /\ DOMAIN snap = Actors /\ "reconcile" \in Actors /\ "metric" \in Actors
        /\ DOMAIN cons = {"pc", "todo", "svc", "obj", "material", "out", "efs"}
    BY DEF TypeOK, CopiesOK, Actors, ConsOK, ConsIdle
  <1>1. ASSUME cm' = cm, UNCHANGED <<dr, subsets>>,
               \/ cons' = cons
               \/ cons'.pc \notin {"ef", "cmget", "cmput"}
               \/ /\ cons.pc \in {"ef", "cmget", "cmput"}
                  /\ cons'.out = cons.out /\ cons'.svc = cons.svc
        PROVE  Goal
    BY <1>1 DEF RulesInv
  <1>4. CASE ClusterNext
    <2>1. CASE Crash
      <3>1. cm' = cm /\ cons'.pc = "recv" /\ dr' = dr /\ subsets' = NoSubsetsKnown
        BY <2>1 DEF Crash, RestartConfigMap, RestartMemory, ConsIdle
      <3>2. SubsetsListed(NoSubsetsKnown)
        BY DEF SubsetsListed, NoSubsetsKnown
      <3> QED
        BY <3>1, <3>2 DEF RulesInv, SubsetsListed
    <2>2. CASE Surroundings
      <3>1. ASSUME NEW s \in Svc, NEW list \in SubsetLists, SetSubsets(s, list) PROVE Goal
        <4>1. dr' = [dr EXCEPT ![s] = list] /\ subsets' = subsets /\ cm' = cm /\ cons' = cons
          BY <3>1 DEF SetSubsets, cmVars
        <4>2. list \in Seq(Subset)
          BY SubsetListsSeq
        <4> QED
          BY <4>1, <4>2 DEF RulesInv, SubsetsListed
      <3>2. ASSUME NEW s \in Svc, NEW k, NEW v, ChangeWorld(s, k, v) PROVE Goal
        BY <1>1, <3>2 DEF ChangeWorld, cmVars
      <3> QED
        BY <2>2, <3>1, <3>2 DEF Surroundings
    <2>3. CASE Users \/ SyncCache \/ SyncEnvoyFilters
               \/ \E s \in Svc, x \in SetNames : GarbageCollect(s, x)
      BY <1>1, <2>3 DEF Users, Apply, Delete, Resync, GarbageCollect, SyncCache, SyncEnvoyFilters,
                        SyncConfigMapCache, cmVars, envVars
    <2>4. ASSUME NEW s \in Svc, ReconcileDestinationRule(s) PROVE Goal
      <3>1. subsets' = [subsets EXCEPT ![s] = dr[s]] /\ dr' = dr /\ cm' = cm /\ cons' = cons
        BY <2>4 DEF ReconcileDestinationRule, cmVars
      <3> QED
        BY <3>1 DEF RulesInv, SubsetsListed
    <2> QED
      BY <1>4, <2>1, <2>2, <2>3, <2>4 DEF ClusterNext
  <1>5. CASE ReconcileNext
    <2>1. CASE ReconcileCmPut
      <3>1. /\ rec.pc = "cmput" /\ rec.svc \in Svc /\ UpdateConfigMap("reconcile", rec.svc, <<>>)
            /\ cons' = cons /\ UNCHANGED <<dr, subsets>>
        BY <2>1 DEF ReconcileCmPut, TypeOK, RecOK, envVars
      <3>2. /\ cm' \in Seq(ToSet(cm'))
            /\ cm' = cm \/ RulesOf(cm', rec.svc) = <<>>
            /\ NoInfixes => \A s \in Svc : s # rec.svc => RulesOf(cm', s) = RulesOf(cm, s)
        BY <1>d, <3>1, NoRulesFor, UpdateKeepsOthers DEF RulesInv
      <3>3. RulesInv'
        BY <3>1, <3>2 DEF RulesInv
      <3> QED
        BY <3>1, <3>2, <3>3 DEF OwnWrite
    <2>2. CASE ReconcileNext /\ ~ReconcileCmPut
      <3>1. cm' = cm /\ UNCHANGED <<dr, subsets>> /\ cons' = cons
        BY <2>2 DEF ReconcileNext, ReconcileStep, ReconcileGet, ReconcileUpsert, ReconcilePop,
                    ReconcileUninterest, ReconcileCmGet, ReconcileCmFault, GetConfigMap,
                    FailConfigMap, cmVars, envVars
      <3> QED
        BY <1>1, <3>1
    <2> QED
      BY <1>5, <2>1, <2>2
  <1>6. CASE ProducerNext
    BY <1>1, <1>6 DEF ProducerNext, handleTickerEvent, TickerFault, handleWatcherEvent, Send,
                      vars, cmVars, envVars
  <1>7. CASE ConsumerNext
    <2>1. CASE RefreshCmPut
      <3>1. /\ cons.pc = "cmput" /\ cons.svc \in Svc /\ cons'.pc = "status" /\ UNCHANGED <<dr, subsets>>
            /\ UpdateConfigMap("metric", cons.svc, cons.out.gdesc)
        BY <2>1, <1>d DEF RefreshCmPut, ConsMoves, TypeOK, ConsOK, envVars
      <3>2. /\ cm' \in Seq(ToSet(cm'))
            /\ cm' = cm \/ RulesOf(cm', cons.svc) = cons.out.gdesc
            /\ NoInfixes => \A s \in Svc : s # cons.svc => RulesOf(cm', s) = RulesOf(cm, s)
        BY <1>d, <3>1, UpdateKeepsOthers DEF RulesInv
      <3>3. RulesInv'
        BY <3>1, <3>2 DEF RulesInv
      <3> QED
        BY <3>1, <3>2, <3>3 DEF OwnWrite
    <2>2. CASE RefreshGenerate
      <3>1. cons.pc = "gen" /\ cm' = cm /\ UNCHANGED <<dr, subsets>>
        BY <2>2 DEF RefreshGenerate, cmVars, envVars
      <3>2. cons.svc \in Svc /\ cons.obj.policy \in PolicyOf[cons.svc]
        BY <3>1 DEF TypeOK, ConsOK, ObjectOK
      <3>3. CASE cons.obj.policy.sets = Nil
        <4>1. RefreshReturns
          BY <2>2, <3>3 DEF RefreshGenerate
        <4>2. cons'.pc \in {"recv", "next"}
          BY <4>1 DEF RefreshReturns, ConsIdle
        <4> QED
          BY <1>1, <3>1, <4>2
      <3>4. CASE cons.obj.policy.sets # Nil
        <4> DEFINE mat == getMaterial(cons.svc)
                   out == GenerateEnvoyConfigs(cons.obj.policy, mat, subsets[cons.svc], cons.svc)
        <4>1. cons' = [cons EXCEPT !.pc = "ef", !.material = mat, !.out = out, !.efs = DOMAIN out.efs]
          BY <2>2, <3>4 DEF RefreshGenerate
        <4>2. \A x \in DOMAIN cons.obj.policy.sets :
                cons.obj.policy.sets[x] \in Seq(ToSet(cons.obj.policy.sets[x]))
          BY <3>2, <3>4, StateAssumption
        <4>3. subsets[cons.svc] \in Seq(Subset)
          BY <3>2 DEF RulesInv, SubsetsListed
        <4>4. RulesFor(out.gdesc, cons.svc)
          BY <4>2, <4>3, RulesOfConfigs
        <4> HIDE DEF out, mat
        <4>5. cons'.out = out /\ cons'.svc = cons.svc
          BY <1>d, <4>1
        <4> QED
          BY <3>1, <4>4, <4>5 DEF RulesInv
      <3> QED
        BY <3>3, <3>4
    <2>3. CASE \E x \in SetNames : RefreshEnvoyFilter(x)
      <3>1. /\ cons.pc = "ef" /\ cm' = cm /\ UNCHANGED <<dr, subsets>>
            /\ cons'.out = cons.out /\ cons'.svc = cons.svc
        BY <2>3, <1>d DEF RefreshEnvoyFilter, EfDone, cmVars, envVars
      <3> QED
        BY <1>1, <3>1
    <2>4. CASE RefreshCmGet
      <3>1. /\ cons.pc = "cmget" /\ cm' = cm /\ UNCHANGED <<dr, subsets>>
            /\ cons'.out = cons.out /\ cons'.svc = cons.svc
        BY <2>4, <1>d DEF RefreshCmGet, GetConfigMap, ConsMoves, envVars
      <3> QED
        BY <1>1, <3>1
    <2>5. CASE RefreshStatus \/ RefreshGet
      <3>1. cm' = cm /\ UNCHANGED <<dr, subsets>> /\ cons'.pc \notin {"ef", "cmget", "cmput"}
        BY <2>5, <1>d DEF RefreshStatus, RefreshGet, RefreshReturns, ConsIdle, cmVars, envVars
      <3> QED
        BY <1>1, <3>1
    <2>6. CASE (\E p \in Producers : ReceiveMetric(p)) \/ (\E s \in Svc : ConsumeMetric(s))
      <3>1. cm' = cm /\ UNCHANGED <<dr, subsets>> /\ cons'.pc \notin {"ef", "cmget", "cmput"}
        BY <2>6, <1>d DEF ReceiveMetric, ConsumeMetric, ConsIdle, cmVars, envVars
      <3> QED
        BY <1>1, <3>1
    <2>7. CASE RefreshFault
      <3>1. cm' = cm /\ UNCHANGED <<dr, subsets>>
        BY <2>7 DEF RefreshFault, FailConfigMap, cmVars, envVars
      <3>2. CASE RefreshReturns \/ ConsMoves("status")
        <4>1. cons'.pc \notin {"ef", "cmget", "cmput"}
          BY <3>2, <1>d DEF RefreshReturns, ConsMoves, ConsIdle
        <4> QED
          BY <1>1, <3>1, <4>1
      <3>3. CASE cons.pc = "ef" /\ \E x \in cons.efs : EfDone(x)
        <4>1. cons'.out = cons.out /\ cons'.svc = cons.svc
          BY <3>3, <1>d DEF EfDone
        <4> QED
          BY <1>1, <3>1, <3>3, <4>1
      <3> QED
        BY <2>7, <3>2, <3>3 DEF RefreshFault
    <2> QED
      BY <1>7, <2>1, <2>2, <2>3, <2>4, <2>5, <2>6, <2>7 DEF ConsumerNext, RefreshStep
  <1>8. CASE UNCHANGED vars
    BY <1>1, <1>8 DEF vars, cmVars, envVars
  <1> QED
    BY <1>4, <1>5, <1>6, <1>7, <1>8 DEF Next

(* A refresh of the ConfigMap for one service replaces the rules of that    *)
(* service by exactly those it was called with and leaves the rules of      *)
(* every other service as they are and in their order, for any number of    *)
(* services none of whose names occurs in another one's, whatever the two   *)
(* goroutines do and however much the cache lags (process.go:328-346).      *)
THEOREM OthersKeepRules == NoInfixes => (Spec => OnlyOwnRulesChange)
  <1> SUFFICES ASSUME NoInfixes PROVE Spec => OnlyOwnRulesChange
    OBVIOUS
  <1>1. TypeOK /\ CurrentInv /\ [Next]_vars => CurrentInv'
    BY CurrentStep
  <1>2. TypeOK /\ CurrentInv /\ RulesInv /\ [Next]_vars => RulesInv'
    BY RulesStep
  <1>3. TypeOK /\ CurrentInv /\ RulesInv /\ [Next]_vars =>
          [\A s \in Svc : RulesOf(cm', s) # RulesOf(cm, s) =>
             \/ rec.pc = "cmput" /\ rec.svc = s /\ RulesOf(cm', s) = <<>>
             \/ cons.pc = "cmput" /\ cons.svc = s /\ RulesOf(cm', s) = cons.out.gdesc]_vars
    BY RulesStep DEF OwnWrite
  <1> QED
    BY <1>1, <1>2, <1>3, InitCurrent, InitRules, TypeCorrect, PTL DEF Spec, OnlyOwnRulesChange
=============================================================================
