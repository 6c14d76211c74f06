----------------------------- MODULE Reconcile ------------------------------
(***************************************************************************)
(* SmartLimiterReconciler.Reconcile (controllers/smartlimiter_controller.  *)
(* go), run by the single worker of the controller.  It never writes an    *)
(* EnvoyFilter: it maintains the interest map, from which the metric       *)
(* producers decide what to refresh, and it cleans up after a deletion.    *)
(*                                                                         *)
(*   idle -> upsert -> idle                        the object exists       *)
(*   idle -> pop -> uninterest [-> cmget -> cmput] -> idle      it is gone *)
(*                                                                         *)
(* An error of the first Get puts the request back, which changes nothing. *)
(***************************************************************************)
EXTENDS LimiterState

RevInScope(obj) == obj.rev \in ScopeRevs

RecMoves(pc) == rec' = [rec EXCEPT !.pc = pc]

ReconcileGet_AnyRev(s) ==
  /\ rec.pc = "idle"
  /\ s \in queue
  /\ queue' = queue \ {s}
  /\ rec' = [pc |-> IF sl[s] = Nil THEN "pop" ELSE "upsert", svc |-> s, obj |-> sl[s]]
  /\ UNCHANGED <<objVars, cmVars, envVars, memVars, prod, cons, used>>

(* Takes a request from the work queue and looks the SmartLimiter up.       *)
ReconcileGet(s) ==
  /\ rec.pc = "idle"
  /\ s \in queue
  /\ queue' = queue \ {s}
  /\ rec' = CASE sl[s] = Nil -> [pc |-> "pop", svc |-> s, obj |-> Nil]
              [] sl[s] # Nil /\ ~RevInScope(sl[s]) -> RecIdle
              [] sl[s] # Nil /\ RevInScope(sl[s]) ->
                   [pc |-> "upsert", svc |-> s, obj |-> sl[s]]
  /\ UNCHANGED <<objVars, cmVars, envVars, memVars, prod, cons, used>>

(* The spec is compared with the last one seen, of whichever SmartLimiter.  *)
ReconcileUpsert ==
  /\ rec.pc = "upsert"
  /\ IF rec.obj.policy = lastUpdatePolicy
     THEN UNCHANGED <<lastUpdatePolicy, interest>>
     ELSE /\ lastUpdatePolicy' = rec.obj.policy
          /\ interest' = interest \cup {rec.svc}
  /\ rec' = RecIdle
  /\ UNCHANGED <<objVars, cmVars, envVars, queue, metricInfo, prod, cons, used>>

(* The two maps are popped one after the other, while the metric consumer   *)
(* and the producers go on reading and writing them.                        *)
ReconcilePop ==
  /\ rec.pc = "pop"
  /\ metricInfo' = [metricInfo EXCEPT ![rec.svc] = Nil]
  /\ RecMoves("uninterest")
  /\ UNCHANGED <<objVars, cmVars, envVars, queue, interest, lastUpdatePolicy,
                 prod, cons, used>>

ReconcileUninterest_KeepsPolicy ==
  /\ rec.pc = "uninterest"
  /\ interest' = interest \ {rec.svc}
  /\ IF GlobalEnabled THEN RecMoves("cmget") ELSE rec' = RecIdle
  /\ UNCHANGED <<objVars, cmVars, envVars, queue, metricInfo, lastUpdatePolicy,
                 prod, cons, used>>

ReconcileUninterest_KeepsInterest ==
  /\ rec.pc = "uninterest"
  /\ lastUpdatePolicy' = EmptyPolicy
  /\ IF GlobalEnabled THEN RecMoves("cmget") ELSE rec' = RecIdle
  /\ UNCHANGED <<objVars, cmVars, envVars, queue, interest, metricInfo,
                 prod, cons, used>>

ReconcileUninterest ==
  /\ rec.pc = "uninterest"
  /\ interest' = interest \ {rec.svc}
  /\ lastUpdatePolicy' = EmptyPolicy
  /\ IF GlobalEnabled THEN RecMoves("cmget") ELSE rec' = RecIdle
  /\ UNCHANGED <<objVars, cmVars, envVars, queue, metricInfo, prod, cons, used>>

(* refreshConfigMap with no descriptors.  It returns no error, so whatever  *)
(* goes wrong in it, the request is done.                                   *)
ReconcileCmGet ==
  /\ rec.pc = "cmget"
  /\ GetConfigMap("reconcile")
  /\ RecMoves("cmput")
  /\ UNCHANGED <<objVars, envVars, queue, memVars, prod, cons, used>>

ReconcileCmPut ==
  /\ rec.pc = "cmput"
  /\ UpdateConfigMap("reconcile", rec.svc, <<>>)
  /\ rec' = RecIdle
  /\ UNCHANGED <<objVars, envVars, queue, memVars, prod, cons, used>>

ReconcileCmFault ==
  /\ rec.pc \in {"cmget", "cmput"}
  /\ Spend("fault")
  /\ FailConfigMap("reconcile")
  /\ rec' = RecIdle
  /\ UNCHANGED <<objVars, envVars, queue, memVars, prod, cons>>

ReconcileStep ==
  \/ \E s \in Svc : ReconcileGet(s)
  \/ ReconcileUpsert
  \/ ReconcilePop
  \/ ReconcileUninterest
  \/ ReconcileCmGet
  \/ ReconcileCmPut

ReconcileNext == ReconcileStep \/ ReconcileCmFault
=============================================================================
