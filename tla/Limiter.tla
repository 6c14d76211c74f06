------------------------------ MODULE Limiter -------------------------------
(***************************************************************************)
(* The limiter: the reconcile worker, the two metric producers and the     *)
(* metric consumer, interleaved with each other and with the cluster.      *)
(***************************************************************************)
EXTENDS Cluster, Reconcile, MetricProducers, MetricConsumer

Init == InitState

Next == ClusterNext \/ ReconcileNext \/ ProducerNext \/ ConsumerNext

(* The metric consumer never stops between two receives: wherever else it   *)
(* is, its next step is enabled.  This is WF_vars(RefreshStep), put without *)
(* ENABLED, since RefreshGenerate is costly to evaluate.                    *)
ConsumerRuns == []<>(cons.pc = "recv") \/ []<><<TRUE>>_cons

(* Goroutines run, the ticker ticks, and the control plane collects garbage *)
(* and delivers watch events.  Go's select chooses among the ready cases at *)
(* random, so that a ticker which is ready again and again is received from *)
(* eventually, however often the watcher is.  Users, endpoints events,      *)
(* crashes and faults are not fair.                                         *)
Fairness ==
  /\ WF_vars(ReconcileStep)
  /\ ConsumerRuns
  /\ WF_vars(handleTickerEvent)
  /\ SF_vars(ReceiveMetric("ticker"))
  /\ WF_vars(SyncCache)
  /\ WF_vars(SyncEnvoyFilters)
  /\ WF_vars(\E s \in Svc : ReconcileDestinationRule(s))
  /\ WF_vars(\E s \in Svc, x \in SetNames : GarbageCollect(s, x))

Spec == Init /\ [][Next]_vars

FairSpec == Spec /\ Fairness

-----------------------------------------------------------------------------
RecPcs == {"idle", "upsert", "pop", "uninterest", "cmget", "cmput"}

ConsPcs == {"recv", "next", "get", "gen", "ef", "cmget", "cmput", "status"}

(* A SmartLimiter object holds a policy its service may have, and a uid and *)
(* a generation that were handed out.                                       *)
ObjectOK(s, obj) ==
  /\ obj.policy \in PolicyOf[s]
  /\ obj.rev \in Revs
  /\ obj.gen \in 0..used["user"]
  /\ obj.uid \in 0..obj.gen

ClusterOK ==
  /\ used \in [Kinds -> Nat]
  /\ DOMAIN sl = Svc
  /\ \A s \in Svc : sl[s] # Nil => ObjectOK(s, sl[s])
  /\ queue \subseteq Svc
  /\ interest \subseteq Svc
  /\ DOMAIN prod = Producers
  /\ \A p \in Producers : prod[p] # Nil => DOMAIN prod[p] \subseteq Svc

RecOK ==
  /\ DOMAIN rec = DOMAIN RecIdle
  /\ rec.pc \in RecPcs
  /\ rec.pc # "idle" => rec.svc \in Svc
  /\ rec.pc = "upsert" => ObjectOK(rec.svc, rec.obj) /\ RevInScope(rec.obj)

ConsOK ==
  /\ DOMAIN cons = DOMAIN ConsIdle
  /\ cons.pc \in ConsPcs
  /\ DOMAIN cons.todo \subseteq Svc
  /\ cons.pc \notin {"recv", "next"} => cons.svc \in Svc
  /\ cons.pc \notin {"recv", "next", "get"} => ObjectOK(cons.svc, cons.obj)

CopiesOK ==
  /\ DOMAIN snap = Actors
  /\ rec.pc # "cmput" => snap["reconcile"] = NoCopy
  /\ cons.pc # "cmput" => snap["metric"] = NoCopy

(* The control state of the three goroutines is well formed: whoever works  *)
(* on a request works on a service, with an object of that service in hand  *)
(* from reading it until being done, the reconcile worker only with one it  *)
(* is responsible for, and with a copy of the ConfigMap only between        *)
(* reading and writing it.                                                  *)
TypeOK == ClusterOK /\ RecOK /\ ConsOK /\ CopiesOK

-----------------------------------------------------------------------------
(* The interest map.                                                        *)

Quiet == queue = {} /\ rec.pc = "idle"

(* A SmartLimiter this instance must look after.                            *)
Managed(s) == sl[s] # Nil /\ RevInScope(sl[s]) /\ sl[s].policy # EmptyPolicy

(* Whenever the reconcile worker has caught up, every SmartLimiter that is  *)
(* to be looked after is in the interest map: no order of creations,        *)
(* changes, deletions and restarts makes Reconcile take a new SmartLimiter  *)
(* for the one it has just seen and skip interest.Set (smartlimiter_        *)
(* controller.go:109-117), as long as no two services have equal specs.     *)
InterestCovers == Quiet => \A s \in Svc : Managed(s) => s \in interest

(* And no service whose SmartLimiter is gone stays in it: the ticker does   *)
(* not go on querying pods and metrics for it for ever.                     *)
InterestBacked == Quiet => \A s \in interest : sl[s] # Nil

-----------------------------------------------------------------------------
(* The ConfigMap.                                                           *)

RulesOf(rules, s) == Filter(rules, LAMBDA item : item.value.svc = s)

(* A refresh of the ConfigMap for one service replaces the rules of that    *)
(* service as a whole, by none or by those it has generated and never by a  *)
(* mix of two refreshes, and leaves the rules of every other service as     *)
(* they are, in their order, whatever the other goroutine wrote between the *)
(* read and the write.                                                      *)
OnlyOwnRulesChange ==
  [][\A s \in Svc : RulesOf(cm', s) # RulesOf(cm, s) =>
       \/ rec.pc = "cmput" /\ rec.svc = s /\ RulesOf(cm', s) = <<>>
       \/ cons.pc = "cmput" /\ cons.svc = s /\ RulesOf(cm', s) = cons.out.gdesc]_vars

(* The refreshes in progress, as ConfigMapStore sees them.                  *)
NoRequest == [active |-> FALSE, svc |-> Nil, desc |-> <<>>]

AsRequest(pc, s, desc) ==
  IF pc \in {"cmget", "cmput"} THEN [active |-> TRUE, svc |-> s, desc |-> desc]
                               ELSE NoRequest

Request ==
  [a \in Actors |-> IF a = "reconcile" THEN AsRequest(rec.pc, rec.svc, <<>>)
                    ELSE AsRequest(cons.pc, cons.svc, cons.out.gdesc)]

Store == INSTANCE ConfigMapStore
           WITH Rebuilt <- RebuiltRules, rules <- cm, request <- Request

(* Read-modify-write through a cache that lags implements an atomic refresh *)
(* of the rules as they are at that instant, or no change at all.           *)
RefreshIsAtomic == Store!Spec

-----------------------------------------------------------------------------
(* The EnvoyFilters.                                                        *)

(* Instances of slime with different revisions share the names of           *)
(* EnvoyFilters.  One that exists is only ever changed or deleted by a      *)
(* refresh for a SmartLimiter with the same revision label, and keeps that  *)
(* label: although Delete (process.go:297) names no resourceVersion and the *)
(* label is compared on a copy that may be old (:267), it never hits an     *)
(* EnvoyFilter of another revision that has taken the place of that copy.   *)
(* Otherwise an EnvoyFilter only goes when it is collected, as an orphan.   *)
RevisionsApart ==
  [][\A s \in Svc, x \in SetNames : ef[s][x] # Nil /\ ef'[s][x] # ef[s][x] =>
       \/ cons' = cons /\ Orphan(s, x) /\ ef'[s][x] = Nil
       \/ /\ cons.pc = "ef" /\ cons.svc = s /\ cons.obj.rev = ef[s][x].rev
          /\ ef'[s][x] # Nil => ef'[s][x].rev = ef[s][x].rev]_vars

-----------------------------------------------------------------------------
(* Convergence.                                                             *)

(* The metrics of s as they are in the cluster now.                         *)
Truth(s) ==
  LET sets == ToSet(dr[s]) \cup {Base}
      pods == {k \in sets \X {"pod"} : world[s][k] > 0}
      vals == {k \in MetricKeys : world[s][k] # Nil}
  IN  [k \in pods \cup (IF Adaptive THEN vals ELSE {}) |-> world[s][k]]

Wanted(s) == GenerateEnvoyConfigs(sl[s].policy, Truth(s), dr[s], s)

(* An EnvoyFilter that refreshEnvoyFilter skips from then on: its           *)
(* SmartLimiter, the same object, has got another revision label since.     *)
Frozen(s, x) ==
  /\ ef[s][x] # Nil
  /\ ef[s][x].owner = sl[s].uid
  /\ ef[s][x].rev # sl[s].rev

EnforcedEf(s, wanted) ==
  \A x \in DOMAIN wanted :
    \/ Frozen(s, x)
    \/ IF wanted[x] = Nil
       THEN ef[s][x] = Nil
       ELSE ef[s][x] # Nil /\ ef[s][x].spec = wanted[x]

(* What the cluster enforces, and reports, is what the spec of s means.     *)
Enforced(s) ==
  LET wanted == Wanted(s)
  IN  /\ status[s] # Nil /\ status[s].ratelimit = wanted.descriptor
      /\ GlobalEnabled => RulesOf(cm, s) = wanted.gdesc
      /\ EnforcedEf(s, wanted.efs)

(* Once users, pods and metrics stop changing, the EnvoyFilters, the rules  *)
(* and the status of every SmartLimiter become what its spec means under    *)
(* the metrics of that moment, and stay so: a refresh that lost a conflict, *)
(* met a fault, used an old object or an old metric is made good by a later *)
(* tick.  Only an EnvoyFilter with the revision label its SmartLimiter had  *)
(* earlier is left behind, and not if the SmartLimiter was created anew.    *)
Converges ==
  <>[](\A s \in Svc : Managed(s) /\ sl[s].policy.sets # Nil => Enforced(s))

(* The EnvoyFilters of a deleted SmartLimiter do not survive it, not even   *)
(* one that a refresh still in flight creates after the deletion.           *)
DeletedCleaned ==
  <>[](\A s \in Svc, x \in SetNames : sl[s] = Nil => ef[s][x] = Nil)

-----------------------------------------------------------------------------
(* Statements of the documentation and of comments that the code does not   *)
(* keep.  Each is checked by a run of its own, which refutes it.            *)

(* "if contain global smart limiter, should delete info in configmap"       *)
(* (smartlimiter_controller.go:94): the rules of a deleted SmartLimiter go. *)
DeletedRulesGone ==
  <>[](\A s \in Svc : sl[s] = Nil => RulesOf(cm, s) = <<>>)

(* "handlers hold all query and real metricName" (producer.go:258): every   *)
(* metric whose kind is announced in the meta data is also queried.         *)
AllHandlersQueried ==
  \A p \in Producers : prod[p] # Nil =>
    \A s \in DOMAIN prod[p] :
      DOMAIN prod[p][s].isGroup \subseteq {r.name : r \in ToSet(prod[p][s].results)}

(* The ratelimitStatus is "the currently effective" one (document/          *)
(* smartlimiter.md:245): a refresh about to report its result has left the  *)
(* EnvoyFilter of no set, of its own revision, with another spec than the   *)
(* reported one.                                                            *)
ReportedIsApplied ==
  cons.pc = "status" =>
    \A x \in DOMAIN cons.out.efs :
      LET live == ef[cons.svc][x]
      IN  live # Nil /\ live.rev = cons.obj.rev => live.spec = cons.out.efs[x]

(* The metricStatus represents "the metric obtained from prometheus at this *)
(* moment" (document/smartlimiter.md:245): once the cluster is at rest, it  *)
(* has no metric that the cluster does not have.                            *)
StatusMetricsCurrent ==
  <>[](\A s \in Svc : status[s] # Nil => DOMAIN status[s].metric \subseteq DOMAIN Truth(s))
=============================================================================
