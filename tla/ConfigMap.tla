----------------------------- MODULE ConfigMap ------------------------------
(***************************************************************************)
(* The ConfigMap of the rate limit service and refreshConfigMap            *)
(* (controllers/process.go), which two goroutines run: the reconcile       *)
(* worker for a deleted SmartLimiter, the metric consumer for a live one.  *)
(*                                                                         *)
(* Reads go through the manager's informer cache, which may lag behind the *)
(* API server; writes carry the resourceVersion that was read.  Only       *)
(* whether that version is still the current one matters, so a copy of the *)
(* ConfigMap is its rules and the flag "current", which every write clears *)
(* in all copies.                                                          *)
(***************************************************************************)
EXTENDS EnvoyConfigs

CONSTANTS
  Svc,     \* namespaced names of services (and so of SmartLimiters)
  Infix    \* <<s, t>>: "name.namespace" of s occurs in that of t

ASSUME InfixAssumption ==
  /\ Infix \subseteq Svc \X Svc
  /\ \A s \in Svc : <<s, s>> \in Infix

Actors == {"reconcile", "metric"}

VARIABLES
  cm,        \* the rules in the ConfigMap, as the API server holds them
  cmCache,   \* [rules, current]: the informer's copy
  snap       \* actor -> the copy refreshConfigMap is working on

cmVars == <<cm, cmCache, snap>>

NoCopy == [rules |-> <<>>, current |-> FALSE]

InitConfigMap ==
  /\ cm = <<>>
  /\ cmCache = [rules |-> <<>>, current |-> TRUE]
  /\ snap = [a \in Actors |-> NoCopy]

(* strings.Contains(item.Value, serviceInfo): the value of a rule embeds    *)
(* the service it was generated for.                                        *)
ValueContains(rule, s) == <<s, rule.value.svc>> \in Infix

RebuiltRules_DropsOthers(rules, s, desc) == desc

(* The items that do not mention the service, and then the new ones.        *)
RebuiltRules(rules, s, desc) ==
  Filter(rules, LAMBDA item : ~ValueContains(item, s)) \o desc

(* Client.Get of the ConfigMap.                                             *)
GetConfigMap(a) ==
  /\ snap' = [snap EXCEPT ![a] = cmCache]
  /\ UNCHANGED <<cm, cmCache>>

(* Any write makes every copy outdated.                                     *)
Outdated(copy) == [rules |-> copy.rules, current |-> FALSE]

UpdateConfigMap_NoResourceVersion(a, s, desc) ==
  LET new == RebuiltRules(snap[a].rules, s, desc)
  IN  IF new # snap[a].rules
      THEN /\ cm' = new
           /\ cmCache' = Outdated(cmCache)
           /\ snap' = [b \in Actors |-> IF b = a THEN NoCopy ELSE Outdated(snap[b])]
      ELSE /\ snap' = [snap EXCEPT ![a] = NoCopy]
           /\ UNCHANGED <<cm, cmCache>>

(* The comparison with what was read and Client.Update.  A write on an      *)
(* outdated copy is a conflict, which is only logged.                       *)
UpdateConfigMap(a, s, desc) ==
  LET new == RebuiltRules(snap[a].rules, s, desc)
  IN  IF new # snap[a].rules /\ snap[a].current
      THEN /\ cm' = new
           /\ cmCache' = Outdated(cmCache)
           /\ snap' = [b \in Actors |-> IF b = a THEN NoCopy ELSE Outdated(snap[b])]
      ELSE /\ snap' = [snap EXCEPT ![a] = NoCopy]
           /\ UNCHANGED <<cm, cmCache>>

(* The update fails for another reason; that too is only logged.            *)
FailConfigMap(a) ==
  /\ snap' = [snap EXCEPT ![a] = NoCopy]
  /\ UNCHANGED <<cm, cmCache>>

(* The watch catches up.                                                    *)
SyncConfigMapCache ==
  /\ ~cmCache.current
  /\ cmCache' = [rules |-> cm, current |-> TRUE]
  /\ UNCHANGED <<cm, snap>>

(* A restarted process starts from a synchronised cache.                    *)
RestartConfigMap ==
  /\ cmCache' = [rules |-> cm, current |-> TRUE]
  /\ snap' = [a \in Actors |-> NoCopy]
  /\ UNCHANGED cm
=============================================================================
