---------------------------- MODULE EnvoyConfigs ----------------------------
(***************************************************************************)
(* The translation of a SmartLimiter spec into Envoy configuration:        *)
(* controllers/envoy_filters.go, envoy_local_limit.go and                  *)
(* envoy_global_limit.go.  Pure operators, no state.                       *)
(*                                                                         *)
(* Data.  A policy (SmartLimiterSpec) is [sets, rls]: sets maps a set name *)
(* to a sequence of descriptors, or is Nil.  A descriptor is               *)
(*   [condition : [metric, above],       "true", or "{{.metric}}>above"    *)
(*    action    : Nil or [quota : [total, per], interval, strategy],       *)
(*                                       "total", or "total/{{.per}}"      *)
(*    match     : a sequence of header matchers,                           *)
(*    target    : Nil or [direction, port, route],                         *)
(*    custom    : Nil or [key, value]]                                     *)
(* where metric and per are metric keys or Nil, and a route is the         *)
(* sequence of its parts between slashes.  Once resolved against the       *)
(* metrics, quota is a number and the condition is gone.                   *)
(***************************************************************************)
EXTENDS Integers, SequencesExt, SeqFilter

CONSTANTS
  Nil,             \* a nil pointer, map or template variable
  Uint32Size,      \* 2^32 in the program; smaller in a bounded model
  Checksum(_, _)   \* adler32 over a printed descriptor and a location

ASSUME SizeAssumption == Uint32Size \in Nat \ {0}

Base == "_base"          \* util.Wellkonw_BaseSet
Global == "global"       \* model.GlobalSmartLimiter
Domain == "slime"        \* model.Domain

EmptyPolicy == [sets |-> Nil, rls |-> ""]

uint32(i) == i % Uint32Size

-----------------------------------------------------------------------------
(* Templates: util.CalculateTemplateBool and util.CalculateTemplate fail    *)
(* exactly when the template names a metric that is not in the material.    *)

Known(key, material) == key = Nil \/ key \in DOMAIN material

CalculateTemplateBool(condition, material) ==
  condition.metric # Nil => material[condition.metric] > condition.above

CalculateTemplate(quota, material) ==
  IF quota.per = Nil THEN quota.total ELSE quota.total \div material[quota.per]

(* A descriptor survives when its condition evaluates to true and its quota *)
(* evaluates at all; both kinds of error drop it.                           *)
Applies(des, material) ==
  /\ Known(des.condition.metric, material)
  /\ CalculateTemplateBool(des.condition, material)
  /\ des.action # Nil
  /\ Known(des.action.quota.per, material)

(* The copy put into validDescriptor: condition, CustomKey and CustomValue  *)
(* are not copied.                                                          *)
Resolve(des, material) ==
  [action |-> [quota    |-> CalculateTemplate(des.action.quota, material),
               interval |-> des.action.interval,
               strategy |-> des.action.strategy],
   match  |-> des.match,
   target |-> des.target,
   custom |-> Nil]

validDescriptor_IgnoresCondition(descriptors, material) ==
  LET kept == Filter(descriptors, LAMBDA des :
                /\ Known(des.condition.metric, material)
                /\ des.action # Nil
                /\ Known(des.action.quota.per, material))
  IN  [i \in DOMAIN kept |-> Resolve(kept[i], material)]

validDescriptor(descriptors, material) ==
  LET kept == Filter(descriptors, LAMBDA des : Applies(des, material))
  IN  [i \in DOMAIN kept |-> Resolve(kept[i], material)]

-----------------------------------------------------------------------------
(* Descriptor values and keys.                                              *)

generateDescriptorValue(item, loc) == [svc |-> loc, id |-> Checksum(item, loc)]

DescriptorKey(item) == IF item.match = <<>> THEN "generic_key" ELSE "header_match"

DescriptorEntry(item, loc) ==
  IF item.custom # Nil
  THEN item.custom
  ELSE [key |-> DescriptorKey(item), value |-> generateDescriptorValue(item, loc)]

generateSafeRegexMatch(m) == <<"safe_regex", m.regex>>
generatePrefixMatch(m) == <<"prefix", m.prefix>>
generateSuffixMatch(m) == <<"suffix", m.suffix>>
generateExactMatch(m) == <<"exact", m.exact>>
generatePresentMatch(m) == <<"present", m.present>>

(* Which matcher of a header wins, in the order of the switch.              *)
HeaderMatchSpecifier(m) ==
  IF m.regex # "" THEN generateSafeRegexMatch(m)
  ELSE IF m.exact # "" \/ (m.prefix = "" /\ m.suffix = "" /\ m.isExactMatchEmpty)
  THEN generateExactMatch(m)
  ELSE IF m.prefix # "" THEN generatePrefixMatch(m)
  ELSE IF m.suffix # "" THEN generateSuffixMatch(m)
  ELSE generatePresentMatch(m)

generateRouteRateLimitAction(item, loc) ==
  IF item.custom # Nil
  THEN Nil
  ELSE [entry   |-> DescriptorEntry(item, loc),
        headers |-> [i \in DOMAIN item.match |->
                       [name   |-> item.match[i].name,
                        invert |-> item.match[i].invert,
                        how    |-> HeaderMatchSpecifier(item.match[i])]]]

-----------------------------------------------------------------------------
(* Routes.                                                                  *)

AllowAllPort == <<>>

generateDefaultInboundRouteConfigs(target) ==
  << [vhost     |-> IF target = Nil \/ target.port = 0
                    THEN AllowAllPort
                    ELSE <<"inbound", "http", target.port>>,
      route     |-> "default",
      direction |-> "inbound"] >>

generateRouteConfigs(target) ==
  IF target # Nil /\ target.route # <<>>
  THEN LET wellFormed == Filter(target.route, LAMBDA r : Len(r) = 2)
       IN  [i \in DOMAIN wellFormed |->
              [vhost |-> wellFormed[i][1], route |-> wellFormed[i][2],
               direction |-> target.direction]]
  ELSE generateDefaultInboundRouteConfigs(target)

genVhostRouteName(rc) == <<rc.vhost, rc.route>>

generateEnvoyVhostMatch(rc) ==
  [context |-> IF rc.direction = "outbound" THEN "SIDECAR_OUTBOUND"
                                            ELSE "SIDECAR_INBOUND",
   vhost   |-> rc.vhost,
   route   |-> rc.route]

(* Every item of a sequence, once per route of its descriptor.              *)
PerRoute(descriptors, Item(_)) ==
  FlattenSeq([i \in DOMAIN descriptors |->
    LET rcs == generateRouteConfigs(descriptors[i].target)
    IN  [j \in DOMAIN rcs |-> [rc |-> rcs[j], item |-> Item(descriptors[i])]]])

(* One patch per vhost/route; the match of the patch is that of the first   *)
(* route config which fell into the group.                                  *)
GroupByRoute(routed) ==
  { LET group == Filter(routed, LAMBDA e : genVhostRouteName(e.rc) = name)
    IN  [match |-> generateEnvoyVhostMatch(group[1].rc),
         items |-> [i \in DOMAIN group |-> group[i].item]] :
    name \in {genVhostRouteName(routed[i].rc) : i \in DOMAIN routed} }

generateHttpRouterPatch(descriptors, loc) ==
  LET routed == PerRoute(descriptors,
                         LAMBDA d : generateRouteRateLimitAction(d, loc))
  IN  GroupByRoute(Filter(routed, LAMBDA e : e.item # Nil))

-----------------------------------------------------------------------------
(* Local rate limiting.                                                     *)

generateTokenBucket(item) ==
  [maxTokens |-> uint32(item.action.quota), interval |-> item.action.interval]

generateLocalRateLimitDescriptors(item, loc) ==
  [entry |-> DescriptorEntry(item, loc), bucket |-> generateTokenBucket(item)]

(* The HTTP filter itself only has to be there, without a bucket and in any *)
(* context: the buckets are those of the routes.                            *)
generateHttpFilterLocalRateLimitPatch ==
  [contexts |-> {"SIDECAR_INBOUND", "SIDECAR_OUTBOUND"}]

(* What a request on the route that meets no descriptor is counted by.      *)
generateCustomTokenBucket(maxTokens, second) ==
  [maxTokens |-> uint32(maxTokens), interval |-> second]

(* The percentage of requests for which a bucket decides, and is obeyed.    *)
generateEnvoyLocalRateLimitEnabled == 100
generateEnvoyLocalRateLimitEnforced == 100

(* typed_per_filter_config of a route.                                      *)
generatePerFilterPatch(patch) ==
  [match    |-> patch.match,
   items    |-> patch.items,
   default  |-> generateCustomTokenBucket(100000, 1),
   enabled  |-> generateEnvoyLocalRateLimitEnabled,
   enforced |-> generateEnvoyLocalRateLimitEnforced]

generateLocalRateLimitPerFilterPatch(descriptors, loc) ==
  {generatePerFilterPatch(patch) : patch \in
     GroupByRoute(PerRoute(descriptors,
                           LAMBDA d : generateLocalRateLimitDescriptors(d, loc)))}

-----------------------------------------------------------------------------
(* Global rate limiting: the rules written to the RLS ConfigMap.            *)

Unit == [s \in {1, 60, 3600, 86400} |->
           CASE s = 1 -> "SECOND" [] s = 60 -> "MINUTE"
             [] s = 3600 -> "HOUR" [] s = 86400 -> "DAY"]

GlobalRule_GenericKey(item, loc) ==
  [key   |-> "generic_key",
   value |-> generateDescriptorValue(item, loc),
   limit |-> [requestsPerUnit |-> uint32(item.action.quota),
              unit            |-> Unit[item.action.interval]]]

GlobalRule(item, loc) ==
  [key   |-> DescriptorKey(item),
   value |-> generateDescriptorValue(item, loc),
   limit |-> [requestsPerUnit |-> uint32(item.action.quota),
              unit            |-> Unit[item.action.interval]]]

(* calculateQuotaPerUnit rejects any other interval, and the loop returns   *)
(* what it has so far: the rejected descriptor and all later ones are lost. *)
generateGlobalRateLimitDescriptor(descriptors, loc) ==
  LET bad == SelectInSeq(descriptors,
                         LAMBDA d : d.action.interval \notin DOMAIN Unit)
      n   == IF bad = 0 THEN Len(descriptors) ELSE bad - 1
  IN  [i \in 1..n |-> GlobalRule(descriptors[i], loc)]

IsGlobal(item) == item.action.strategy = Global

descriptorsToGlobalRateLimit(descriptors, loc) ==
  generateGlobalRateLimitDescriptor(Filter(descriptors, IsGlobal), loc)

(* What the RLS reads: its rules belong to a domain.                        *)
constructConfigMap(desc) == [domain |-> Domain, descriptors |-> desc]

(* The HTTP filter that asks the RLS: inserted before the router of inbound *)
(* listeners, and of no others.                                             *)
generateEnvoyHttpFilterMatch == {"SIDECAR_INBOUND"}

generateRateLimitService(clusterName) == [clusterName |-> clusterName]

generateEnvoyHttpFilterRateLimitServicePatch(rs) == [domain |-> Domain, service |-> rs]

generateEnvoyHttpFilterGlobalRateLimitPatch(server) ==
  [contexts |-> generateEnvoyHttpFilterMatch,
   config   |-> generateEnvoyHttpFilterRateLimitServicePatch(
                  generateRateLimitService(server))]

getRateLimiterServerCluster(rls) == IF rls = "" THEN "default-rls" ELSE rls

-----------------------------------------------------------------------------
(* The EnvoyFilter of one set: route patches that attach actions, the two   *)
(* HTTP filters when needed, and the per-route local buckets.               *)

descriptorsToEnvoyFilter(descriptors, set, loc, rls) ==
  LET globals == Filter(descriptors, IsGlobal)
      locals  == Filter(descriptors, LAMBDA d : ~IsGlobal(d))
  IN  [selector     |-> set,
       routes       |-> generateHttpRouterPatch(descriptors, loc),
       globalFilter |-> IF globals = <<>> THEN Nil
                        ELSE generateEnvoyHttpFilterGlobalRateLimitPatch(
                               getRateLimiterServerCluster(rls)),
       localFilter  |-> IF locals = <<>> THEN Nil
                        ELSE generateHttpFilterLocalRateLimitPatch,
       perRoute     |-> generateLocalRateLimitPerFilterPatch(locals, loc)]

(* The sets considered are the subsets of the DestinationRule, in order,    *)
(* and then the base set.  A set of the policy that is no subset of the     *)
(* DestinationRule does not occur in the result at all.                     *)
GenerateEnvoyConfigs(policy, material, subsets, loc) ==
  LET sets  == Append(subsets, Base)
      valid == [x \in ToSet(sets) |->
                  IF x \in DOMAIN policy.sets
                  THEN validDescriptor(policy.sets[x], material)
                  ELSE <<>>]
      live  == {x \in ToSet(sets) : valid[x] # <<>>}
  IN  [efs        |-> [x \in ToSet(sets) |->
                         IF x \in live
                         THEN descriptorsToEnvoyFilter(valid[x], x, loc, policy.rls)
                         ELSE Nil],
       descriptor |-> [x \in live |-> valid[x]],
       gdesc      |-> FlattenSeq([i \in DOMAIN sets |->
                         descriptorsToGlobalRateLimit(valid[sets[i]], loc)])]
=============================================================================
