--------------------------- MODULE EnvoySemantics ---------------------------
(***************************************************************************)
(* What the generated configuration means to Envoy and to the rate limit   *)
(* service, against what the SmartLimiter asks for.                        *)
(*                                                                         *)
(* A request on a route is limited by a descriptor when the route carries  *)
(* an action that emits the descriptor's entry, and a rule of the RLS or a *)
(* bucket of the same route counts that entry.  An action nobody counts,   *)
(* or a rule nobody emits, limits nothing, and Envoy reports neither.      *)
(*                                                                         *)
(* The spec and the metrics change freely, one descriptor or metric at a   *)
(* time; the configuration is a function of them.                          *)
(***************************************************************************)
EXTENDS EnvoyConfigs

CONSTANTS
  Descriptors,   \* descriptors a user may write
  MaxLen,        \* bound on the descriptors of a spec, in all its sets
  Subsets,       \* subsets of the DestinationRule, a sequence
  Keys, Values,  \* metric keys, and values they may have
  Loc            \* the service

(* Templates name metrics there may be; quotas are numbers, matches and     *)
(* routes are lists.                                                        *)
ASSUME SemanticsAssumption ==
  /\ MaxLen \in Nat
  /\ Nil \notin Values
  /\ Subsets \in Seq(ToSet(Subsets))
  /\ \A d \in Descriptors :
       /\ d.condition.metric \in Keys \cup {Nil}
       /\ d.action # Nil => /\ d.action.quota.total \in Int
                           /\ d.action.quota.per \in Keys \cup {Nil}
       /\ d.match \in Seq(ToSet(d.match))
       /\ d.target # Nil => d.target.route \in Seq(ToSet(d.target.route))

VARIABLES
  sets,      \* set name -> sequence of descriptors
  metrics    \* metric key -> value, or Nil while unknown

vars == <<sets, metrics>>

SetName == ToSet(Subsets) \cup {Base}

Init ==
  /\ sets = [x \in SetName |-> <<>>]
  /\ metrics = [k \in Keys |-> Nil]

AddDescriptor(x, d) ==
  /\ MapThenSumSet(LAMBDA y : Len(sets[y]), SetName) < MaxLen
  /\ sets' = [sets EXCEPT ![x] = Append(@, d)]
  /\ UNCHANGED metrics

Observe(k, v) ==
  /\ metrics[k] # v
  /\ metrics' = [metrics EXCEPT ![k] = v]
  /\ UNCHANGED sets

Next ==
  \/ \E x \in SetName, d \in Descriptors : AddDescriptor(x, d)
  \/ \E k \in Keys, v \in Values : Observe(k, v)

Spec == Init /\ [][Next]_vars

-----------------------------------------------------------------------------
material == [k \in {j \in Keys : metrics[j] # Nil} |-> metrics[k]]

Config == GenerateEnvoyConfigs([sets |-> sets, rls |-> ""], material, Subsets, Loc)

(* The descriptors of a set in force, and the quota each stands for, told   *)
(* from the spec and the metrics alone.                                     *)
Holds(condition) ==
  \/ condition.metric = Nil
  \/ metrics[condition.metric] # Nil /\ metrics[condition.metric] > condition.above

QuotaKnown(quota) == quota.per = Nil \/ metrics[quota.per] # Nil

InForce(x) ==
  {i \in DOMAIN sets[x] : /\ Holds(sets[x][i].condition)
                          /\ sets[x][i].action # Nil
                          /\ QuotaKnown(sets[x][i].action.quota)}

Quota(d) == d.action.quota.total \div
              (IF d.action.quota.per = Nil THEN 1 ELSE metrics[d.action.quota.per])

(* The places a descriptor names: [context, vhost, route].                  *)
Places(d) ==
  IF d.target # Nil /\ d.target.route # <<>>
  THEN {[context |-> IF d.target.direction = "outbound" THEN "SIDECAR_OUTBOUND"
                                                        ELSE "SIDECAR_INBOUND",
         vhost |-> r[1], route |-> r[2]] : r \in {q \in ToSet(d.target.route) : Len(q) = 2}}
  ELSE {[context |-> "SIDECAR_INBOUND",
         vhost |-> IF d.target = Nil \/ d.target.port = 0 THEN AllowAllPort
                   ELSE <<"inbound", "http", d.target.port>>,
         route |-> "default"]}

(* Route patches are grouped by vhost and route, without the direction, and *)
(* the first descriptor of a group decides on the context of its patch.     *)
SameRoute(p, q) == <<p.vhost, p.route>> = <<q.vhost, q.route>>

InGroup(x, indices, place) ==
  {j \in indices : \E q \in Places(sets[x][j]) : SameRoute(q, place)}

FirstAgrees(x, indices, place) ==
  \A j \in InGroup(x, indices, place) :
    (\A k \in InGroup(x, indices, place) : j <= k) => place \in Places(sets[x][j])

(* The rules of a set end before its first global descriptor in force whose *)
(* interval the RLS has no unit for.                                        *)
RuleWritten(x, i) ==
  \A j \in InForce(x) : j <= i /\ IsGlobal(sets[x][j]) =>
    sets[x][j].action.interval \in DOMAIN Unit

(* Quotas are cut to a uint32.                                              *)
QuotaFits(d) == Quota(d) \in 0..(Uint32Size - 1)

(* The limits the translation can express: the actions of all descriptors   *)
(* share the route patches and those of the local ones share the buckets;   *)
(* global limits need a rule and exist on inbound listeners only.           *)
Expressible(x, i, place) ==
  /\ QuotaFits(sets[x][i])
  /\ FirstAgrees(x, InForce(x), place)
  /\ IF IsGlobal(sets[x][i])
     THEN RuleWritten(x, i) /\ place.context = "SIDECAR_INBOUND"
     ELSE FirstAgrees(x, {j \in InForce(x) : ~IsGlobal(sets[x][j])}, place)

(* What a request at a place meets.                                         *)
Emitted(efSpec, place) ==
  UNION {ToSet(p.items) : p \in {r \in efSpec.routes : r.match = place}}

Asks(filter, place) == filter # Nil /\ place.context \in filter.contexts

CountedGlobally(e, d, efSpec, file) ==
  /\ file.domain = efSpec.globalFilter.config.domain
  /\ \E r \in ToSet(file.descriptors) :
       /\ <<r.key, r.value>> = <<e.key, e.value>>
       /\ r.limit = [requestsPerUnit |-> Quota(d), unit |-> Unit[d.action.interval]]

CountedLocally(e, d, efSpec, place) ==
  \E p \in efSpec.perRoute :
    /\ p.match = place
    /\ p.enabled = 100 /\ p.enforced = 100
    /\ \E b \in ToSet(p.items) :
         b.entry = e /\ b.bucket = [maxTokens |-> Quota(d), interval |-> d.action.interval]

(* A header matcher asks for what its author wrote: one of the patterns, if *)
(* there is one, else the empty value or the presence of the header.        *)
Patterns(m) ==
  {p \in {<<"safe_regex", m.regex>>, <<"exact", m.exact>>,
          <<"prefix", m.prefix>>, <<"suffix", m.suffix>>} : p[2] # ""}

MatchesAsAsked(header, m) ==
  /\ header.name = m.name /\ header.invert = m.invert
  /\ IF Patterns(m) # {} THEN header.how \in Patterns(m)
     ELSE header.how = IF m.isExactMatchEmpty THEN <<"exact", "">>
                                              ELSE <<"present", m.present>>

HeadersAsAsked(a, d) ==
  /\ Len(a.headers) = Len(d.match)
  /\ \A i \in DOMAIN d.match : MatchesAsAsked(a.headers[i], d.match[i])

LimitedBy(d, place, config, x) ==
  LET efSpec == config.efs[x]
  IN  /\ efSpec # Nil
      /\ \E a \in Emitted(efSpec, place) :
           /\ HeadersAsAsked(a, d)
           /\ IF IsGlobal(d)
              THEN /\ Asks(efSpec.globalFilter, place)
                   /\ CountedGlobally(a.entry, d, efSpec, constructConfigMap(config.gdesc))
              ELSE /\ Asks(efSpec.localFilter, place)
                   /\ CountedLocally(a.entry, d, efSpec, place)

(* Every descriptor in force limits the requests at every place it names,   *)
(* with its own quota, if the translation can express that limit at all:    *)
(* the actions that descriptorsToEnvoyFilter puts on the routes, the HTTP   *)
(* filters, the buckets beside the actions and the rules that               *)
(* descriptorsToGlobalRateLimit sends to the ConfigMap are generated apart, *)
(* from different selections of the descriptors, and meet only through      *)
(* equal keys, values, routes and contexts.                                 *)
EveryLimitApplies ==
  LET config == Config
  IN  \A x \in SetName : \A i \in InForce(x) : \A place \in Places(sets[x][i]) :
        Expressible(x, i, place) => LimitedBy(sets[x][i], place, config, x)

(* The limits on a request that meets an action which emits entry e: the    *)
(* rules and buckets that count the entry.                                  *)
Limits(e, efSpec, place, file) ==
  LET rules == {r \in ToSet(file.descriptors) :
                  /\ Asks(efSpec.globalFilter, place)
                  /\ file.domain = efSpec.globalFilter.config.domain
                  /\ <<r.key, r.value>> = <<e.key, e.value>>}
      buckets == {b \in UNION {ToSet(p.items) : p \in {q \in efSpec.perRoute : q.match = place}} :
                    Asks(efSpec.localFilter, place) /\ b.entry = e}
  IN  {r.limit : r \in rules} \cup {b.bucket : b \in buckets}

(* What a descriptor asks for.  A quota that does not fit limits by what is *)
(* left of it.                                                              *)
LimitOf(d) ==
  LET quota == Quota(d) % Uint32Size
  IN  IF IsGlobal(d) THEN [requestsPerUnit |-> quota, unit |-> Unit[d.action.interval]]
                     ELSE [maxTokens |-> quota, interval |-> d.action.interval]

(* Every limit on the requests of set x at a place is one that a descriptor *)
(* of the set, among these indices, asks for with its headers and quota.    *)
OnlyAskedFor(x, place, indices, config) ==
  LET efSpec == config.efs[x]
  IN  \A a \in Emitted(efSpec, place) :
      \A limit \in Limits(a.entry, efSpec, place, constructConfigMap(config.gdesc)) :
        \E i \in indices : HeadersAsAsked(a, sets[x][i]) /\ limit = LimitOf(sets[x][i])

Patched(x, config) == IF config.efs[x] = Nil THEN {} ELSE {p.match : p \in config.efs[x].routes}

(* The descriptors that name a place.                                       *)
Naming(x, place) == {i \in InForce(x) : place \in Places(sets[x][i])}

(* And with the others of their vhost and route, when the first of all      *)
(* names the place.                                                         *)
NamingAsGroup(x, place) ==
  Naming(x, place) \cup {i \in InGroup(x, InForce(x), place) : FirstAgrees(x, InForce(x), place)}

(* Nothing is limited but what a descriptor in force of that very set asks  *)
(* for: whatever an action of an EnvoyFilter at a place and the bucket      *)
(* there or the rule of the RLS amount to is the limit of a descriptor of   *)
(* the set whose condition holds, for the requests with its headers, at a   *)
(* place it names.  Rules of all sets share one file, and buckets and       *)
(* actions are grouped apart, so that a limit could reach requests of       *)
(* another set, route or header.  One exception is the code's: in a group   *)
(* with both directions, the first descriptor decides on the place of all.  *)
(* The default bucket of a route with local limits is not considered.       *)
NoOtherLimit ==
  LET config == Config
  IN  \A x \in SetName : \A place \in Patched(x, config) :
        OnlyAskedFor(x, place, NamingAsGroup(x, place), config)
=============================================================================
