---------------------------- MODULE LimiterState ----------------------------
(***************************************************************************)
(* The state shared by the parts of the limiter: the Kubernetes objects it *)
(* reads and writes, the memory of SmartLimiterReconciler, and where each  *)
(* goroutine stands.                                                       *)
(***************************************************************************)
EXTENDS ConfigMap

CONSTANTS
  Subset,          \* names of DestinationRule subsets
  Handlers,        \* Prometheus handlers with a query, [name, type, perPod]
  PolicyOf,        \* service -> the policies its users may submit
  StartLimiters,   \* service -> [policy, rev] of a SmartLimiter that is older
                   \* than the limiter, or Nil
  Revs,            \* istio revision labels
  ScopeRevs,       \* those this instance of slime is responsible for
  Adaptive,        \* ~disableAdaptive
  GlobalEnabled,   \* ~disableGlobalRateLimit
  StartSubsets,    \* service -> subsets of its DestinationRule, a sequence
  PodCounts,       \* numbers of pods a set may have
  MetricValues,    \* values of a Prometheus metric; Nil: not one sample
  StartMetric,     \* their value in the initial state
  Limit            \* bound on each kind of environment step

Kinds == {"user", "resync", "world", "subset", "crash", "fault", "lag"}

ASSUME StateAssumption ==
  /\ Base \notin Subset
  /\ IsFiniteSet(Subset)
  /\ DOMAIN PolicyOf = Svc
  /\ \A s \in Svc : \A p \in PolicyOf[s] : p.sets # Nil =>
       \A x \in DOMAIN p.sets : p.sets[x] \in Seq(ToSet(p.sets[x]))
  /\ DOMAIN StartLimiters = Svc
  /\ \A s \in Svc : StartLimiters[s] # Nil =>
       StartLimiters[s].policy \in PolicyOf[s] /\ StartLimiters[s].rev \in Revs
  /\ ScopeRevs \subseteq Revs
  /\ Adaptive \in BOOLEAN /\ GlobalEnabled \in BOOLEAN
  /\ DOMAIN StartSubsets = Svc
  /\ \A s \in Svc : StartSubsets[s] \in Seq(Subset)
  /\ PodCounts \subseteq Nat
  /\ Limit \in [Kinds -> Nat]

SetNames == Subset \cup {Base}

(* Metric keys are pairs: "v1.pod" is <<"v1", "pod">>, a metric that is not *)
(* per set has "" as its first part.                                        *)
PodKeys == SetNames \X {"pod"}

HandlerKeys(h) ==
  CASE h.type = "Group" -> {<<h.name, g>> : g \in {"g1", "g2"}}
    [] h.type = "Value" /\ h.perPod -> SetNames \X {h.name}
    [] h.type = "Value" /\ ~h.perPod -> {<<"", h.name>>}

MetricKeys == UNION {HandlerKeys(h) : h \in Handlers}

VARIABLES
  sl,         \* service -> SmartLimiter object, or Nil
  status,     \* service -> [ratelimit, metric] of that object, or Nil
  ef,         \* service -> set name -> EnvoyFilter object, or Nil
  efCache,    \* service -> set name -> the informer's copy, [obj, current]
  dr,         \* service -> the subsets of its DestinationRule, a sequence
  subsets,    \* HostSubsetMapping: service -> the subsets the process knows
  world,      \* service -> metric key -> its value in the cluster now
  queue,      \* the controller's work queue
  interest,   \* r.interest
  metricInfo, \* r.metricInfo: service -> known metrics, or Nil
  lastUpdatePolicy,
  rec,        \* the reconcile worker: [pc, svc, obj]
  prod,       \* producer -> the metric it is sending, or Nil
  cons,       \* the metric consumer, see MetricConsumer
  used        \* environment steps taken, by kind

objVars == <<sl, status, ef, efCache>>
envVars == <<dr, subsets, world>>
memVars == <<interest, metricInfo, lastUpdatePolicy>>
vars == <<objVars, cmVars, envVars, queue, memVars, rec, prod, cons, used>>

(* The watcher producer only runs in adaptive mode.                         *)
Producers == IF Adaptive THEN {"ticker", "watcher"} ELSE {"ticker"}

NoMetrics == [k \in {} |-> Nil]

(* HostSubsetMapping before the DestinationRules have been seen.            *)
NoSubsetsKnown == [s \in Svc |-> <<>>]

(* The copy of an EnvoyFilter that a synchronised informer has.             *)
Synced(obj) == [obj |-> obj, current |-> TRUE]

RecIdle == [pc |-> "idle", svc |-> Nil, obj |-> Nil]

ConsIdle ==
  [pc |-> "recv", todo |-> NoMetrics, svc |-> Nil, obj |-> Nil,
   material |-> Nil, out |-> Nil, efs |-> {}]

InitMemory ==
  /\ interest = {}
  /\ metricInfo = [s \in Svc |-> Nil]
  /\ lastUpdatePolicy = EmptyPolicy
  /\ rec = RecIdle
  /\ prod = [p \in Producers |-> Nil]
  /\ cons = ConsIdle

(* NewReconciler in a new process.                                          *)
RestartMemory ==
  /\ interest' = {}
  /\ metricInfo' = [s \in Svc |-> Nil]
  /\ lastUpdatePolicy' = EmptyPolicy
  /\ rec' = RecIdle
  /\ prod' = [p \in Producers |-> Nil]
  /\ cons' = ConsIdle
  /\ subsets' = NoSubsetsKnown

InitState ==
  /\ sl = [s \in Svc |->
             IF StartLimiters[s] = Nil THEN Nil
             ELSE [policy |-> StartLimiters[s].policy, rev |-> StartLimiters[s].rev,
                   gen |-> 0, uid |-> 0]]
  /\ status = [s \in Svc |-> Nil]
  /\ ef = [s \in Svc |-> [x \in SetNames |-> Nil]]
  /\ efCache = [s \in Svc |-> [x \in SetNames |-> Synced(Nil)]]
  /\ dr = StartSubsets
  /\ subsets = NoSubsetsKnown
  /\ world = [s \in Svc |-> [k \in PodKeys \cup MetricKeys |->
                               IF k \in PodKeys THEN 1 ELSE StartMetric]]
  /\ queue = {s \in Svc : sl[s] # Nil}
  /\ used = [k \in Kinds |-> 0]
  /\ InitConfigMap
  /\ InitMemory

(* Takes one of the bounded environment steps.                              *)
Spend(kind) ==
  /\ used[kind] < Limit[kind]
  /\ used' = [used EXCEPT ![kind] = @ + 1]

(* The API server writes or removes an EnvoyFilter.  The informer sees it   *)
(* at once or, for a bounded number of writes, some time later: until then  *)
(* the copy it has is outdated.                                             *)
WriteEnvoyFilter(s, x, new) ==
  /\ ef' = [ef EXCEPT ![s][x] = new]
  /\ \/ /\ efCache' = [efCache EXCEPT ![s][x] = Synced(new)]
        /\ UNCHANGED used
     \/ /\ Spend("lag")
        /\ efCache' = [efCache EXCEPT ![s][x].current = FALSE]
=============================================================================
