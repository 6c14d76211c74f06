--------------------------- MODULE MetricConsumer ---------------------------
(***************************************************************************)
(* WatchMetric, ConsumeMetric, Refresh and refresh (controllers/process.   *)
(* go): the one goroutine that turns metrics and SmartLimiters into        *)
(* EnvoyFilters, ConfigMap rules and statuses.                             *)
(*                                                                         *)
(*   recv -> next -> get -> gen -> ef ... ef [-> cmget -> cmput] -> status *)
(*                                                                         *)
(* and from there to the next service of the metric, or back to recv.      *)
(* cons.todo is the rest of the metric, svc and obj are the request and    *)
(* the SmartLimiter as it was read, material and out what was generated    *)
(* from it, and efs the sets whose EnvoyFilter is still to be written.     *)
(***************************************************************************)
EXTENDS LimiterState

ConsMoves(pc) == cons' = [cons EXCEPT !.pc = pc]

(* Refresh returns, with or without an error that is logged.                *)
RefreshReturns ==
  cons' = [ConsIdle EXCEPT !.pc = IF DOMAIN cons.todo = {} THEN "recv" ELSE "next",
                           !.todo = cons.todo]

(* The loop over the results: a value must have exactly one sample, and a   *)
(* group replaces what was collected before it.                             *)
CollectResult(isGroup, info, result) ==
  IF isGroup[result.name]
  THEN result.value
  ELSE IF Cardinality(DOMAIN result.value) # 1
       THEN info
       ELSE [k \in {result.name} |-> result.value[CHOOSE j \in DOMAIN result.value : TRUE]]
            @@ info

ConsumeInfo(m) ==
  [k \in {j \in DOMAIN m.nPod : m.nPod[j] # 0} |-> m.nPod[k]]
  @@ FoldLeft(LAMBDA info, result : CollectResult(m.isGroup, info, result),
              NoMetrics, m.results)

MergedInfo_KeepsOld(known, args) == IF known = Nil THEN args ELSE known @@ args

(* The metrics Refresh keeps: new values over the known ones.  Nothing is   *)
(* ever removed from an entry.                                              *)
MergedInfo(known, args) == IF known = Nil THEN args ELSE args @@ known

getMaterial(s) == IF metricInfo[s] = Nil THEN NoMetrics ELSE metricInfo[s]

-----------------------------------------------------------------------------
(* The select of WatchMetric takes any producer that is ready.              *)
ReceiveMetric(p) ==
  /\ cons.pc = "recv"
  /\ prod[p] # Nil
  /\ cons' = [ConsIdle EXCEPT !.pc = "next", !.todo = prod[p]]
  /\ prod' = [prod EXCEPT ![p] = Nil]
  /\ UNCHANGED <<objVars, cmVars, envVars, queue, memVars, rec, used>>

(* One round of the loop over the metric, in the order of a Go map.         *)
ConsumeMetric(s) ==
  /\ cons.pc = "next"
  /\ s \in DOMAIN cons.todo
  /\ metricInfo' = [metricInfo EXCEPT
                      ![s] = MergedInfo(@, ConsumeInfo(cons.todo[s]))]
  /\ cons' = [cons EXCEPT !.pc = "get", !.svc = s,
                          !.todo = [t \in DOMAIN cons.todo \ {s} |-> cons.todo[t]]]
  /\ UNCHANGED <<objVars, cmVars, envVars, queue, interest, lastUpdatePolicy,
                 rec, prod, used>>

RefreshGet ==
  /\ cons.pc = "get"
  /\ IF sl[cons.svc] = Nil
     THEN RefreshReturns
     ELSE cons' = [cons EXCEPT !.pc = "gen", !.obj = sl[cons.svc]]
  /\ UNCHANGED <<objVars, cmVars, envVars, queue, memVars, rec, prod, used>>

RefreshGenerate ==
  /\ cons.pc = "gen"
  /\ IF cons.obj.policy.sets = Nil
     THEN RefreshReturns
     ELSE LET material == getMaterial(cons.svc)
              out == GenerateEnvoyConfigs(cons.obj.policy, material,
                                          subsets[cons.svc], cons.svc)
          IN  cons' = [cons EXCEPT !.pc = "ef", !.material = material,
                                   !.out = out, !.efs = DOMAIN out.efs]
  /\ UNCHANGED <<objVars, cmVars, envVars, queue, memVars, rec, prod, used>>

(* Patches are collected in Go maps, so that equal specs with more than one *)
(* patch may be listed in different orders and then compare as different.   *)
MayBeReordered(spec) ==
  Cardinality(spec.routes) > 1 \/ Cardinality(spec.perRoute) > 1

GeneratedEnvoyFilter_NoOwner(spec, obj) == [spec |-> spec, owner |-> Nil, rev |-> obj.rev]

(* The EnvoyFilter to write: obj becomes its controller and gives it its    *)
(* revision label.                                                          *)
GeneratedEnvoyFilter(spec, obj) == [spec |-> spec, owner |-> obj.uid, rev |-> obj.rev]

SameRevision_Ignored(found, obj) == TRUE

SameRevision(found, obj) == found.rev = obj.rev

EfDone_SkipsConfigMap(x) ==
  LET rest == cons.efs \ {x}
  IN  cons' = [cons EXCEPT !.efs = rest, !.pc = IF rest = {} THEN "status" ELSE "ef"]

EfDone(x) ==
  LET rest == cons.efs \ {x}
      next == IF GlobalEnabled THEN "cmget" ELSE "status"
  IN  cons' = [cons EXCEPT !.efs = rest, !.pc = IF rest = {} THEN next ELSE "ef"]

(* refreshEnvoyFilter decides on the informer's copy of the EnvoyFilter of  *)
(* set x.  Create fails if there is one after all, and Update unless the    *)
(* copy is current, which is only logged; Delete names no resourceVersion.  *)
Found(x) == efCache[cons.svc][x].obj

Creates(x) == Found(x) = Nil /\ cons.out.efs[x] # Nil /\ ef[cons.svc][x] = Nil

Updates(x) ==
  /\ Found(x) # Nil /\ SameRevision(Found(x), cons.obj)
  /\ cons.out.efs[x] # Nil /\ efCache[cons.svc][x].current

Deletes_Forgotten(x) == FALSE

Deletes(x) ==
  /\ Found(x) # Nil /\ SameRevision(Found(x), cons.obj)
  /\ cons.out.efs[x] = Nil /\ ef[cons.svc][x] # Nil

Differs(x) == Found(x).spec # cons.out.efs[x]

RefreshEnvoyFilter(x) ==
  LET new == GeneratedEnvoyFilter(cons.out.efs[x], cons.obj)
  IN  /\ cons.pc = "ef"
      /\ x \in cons.efs
      /\ \/ Creates(x) /\ WriteEnvoyFilter(cons.svc, x, new)
         \/ /\ Updates(x)
            /\ Differs(x) \/ MayBeReordered(cons.out.efs[x])
            /\ WriteEnvoyFilter(cons.svc, x, new)
         \/ Deletes(x) /\ WriteEnvoyFilter(cons.svc, x, Nil)
         \/ /\ ~Creates(x) /\ ~Deletes(x) /\ ~(Updates(x) /\ Differs(x))
            /\ UNCHANGED <<ef, efCache, used>>
      /\ EfDone(x)
      /\ UNCHANGED <<sl, status, cmVars, envVars, queue, memVars, rec, prod>>

RefreshCmGet ==
  /\ cons.pc = "cmget"
  /\ GetConfigMap("metric")
  /\ ConsMoves("cmput")
  /\ UNCHANGED <<objVars, envVars, queue, memVars, rec, prod, used>>

RefreshCmPut ==
  /\ cons.pc = "cmput"
  /\ UpdateConfigMap("metric", cons.svc, cons.out.gdesc)
  /\ ConsMoves("status")
  /\ UNCHANGED <<objVars, envVars, queue, memVars, rec, prod, used>>

(* The status update is a conflict unless the object is still the one read. *)
(* A status that changes is an update event for the controller.             *)
UpdateStatus ==
  LET s   == cons.svc
      new == [ratelimit |-> cons.out.descriptor, metric |-> cons.material]
  IN  IF sl[s] = cons.obj /\ status[s] # new
      THEN /\ status' = [status EXCEPT ![s] = new]
           /\ queue' = queue \cup {s}
      ELSE UNCHANGED <<status, queue>>

RefreshStatus ==
  /\ cons.pc = "status"
  /\ UpdateStatus
  /\ RefreshReturns
  /\ UNCHANGED <<sl, ef, efCache, cmVars, envVars, memVars, rec, prod, used>>

-----------------------------------------------------------------------------
(* A call to the API server fails.  Reading the SmartLimiter or the Service *)
(* ends the refresh and so does updating the status; the EnvoyFilter of a   *)
(* set and anything in refreshConfigMap is skipped.                         *)
RefreshFault ==
  /\ Spend("fault")
  /\ \/ /\ cons.pc \in {"get", "gen", "status"}
        /\ RefreshReturns
        /\ UNCHANGED cmVars
     \/ /\ cons.pc = "ef"
        /\ \E x \in cons.efs : EfDone(x)
        /\ UNCHANGED cmVars
     \/ /\ cons.pc \in {"cmget", "cmput"}
        /\ FailConfigMap("metric")
        /\ ConsMoves("status")
  /\ UNCHANGED <<objVars, envVars, queue, memVars, rec, prod>>

RefreshStep ==
  \/ \E s \in Svc : ConsumeMetric(s)
  \/ RefreshGet
  \/ RefreshGenerate
  \/ \E x \in SetNames : RefreshEnvoyFilter(x)
  \/ RefreshCmGet
  \/ RefreshCmPut
  \/ RefreshStatus

ConsumerNext ==
  \/ \E p \in Producers : ReceiveMetric(p)
  \/ RefreshStep
  \/ RefreshFault
=============================================================================
