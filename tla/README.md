# Formal model of the slime limiter

TLA+ modules, TLC configurations and TLAPS proofs for the limiter module of
slime: the controller that turns `SmartLimiter` resources and service metrics
into Istio `EnvoyFilter`s and into the rules of a shared rate limit service.

## The system

Inside the process four goroutines matter. They share memory without a common
lock and talk to the API server, the only durable store.

| part | state | operations |
|---|---|---|
| reconcile worker (`controllers/smartlimiter_controller.go`) | `interest`, `lastUpdatePolicy`; pops `metricInfo` | `Reconcile`: enters a SmartLimiter into the interest map, or cleans up after a deletion. It writes no EnvoyFilter. |
| ticker producer, watcher producer (`controllers/producer.go`) | the metric each blocks with | every 30 s for all of `interest`, or on an Endpoints event for one service (adaptive mode only): count pods, build queries, ask the metric source, send on an unbuffered channel |
| metric consumer (`controllers/process.go`) | `metricInfo`; the object, material and output of the refresh in progress | `WatchMetric` receives; per service `ConsumeMetric`, `Refresh`, `refresh`: merge metrics, read the SmartLimiter, generate, write EnvoyFilters, write the ConfigMap, write the status |
| ConfigMap `slime-rate-limit-config` (`refreshConfigMap`) | one list of rules for all services | read through the informer cache, rebuild, update with the resourceVersion read; used by the reconcile worker and by the consumer |
| translation (`envoy_filters.go`, `envoy_local_limit.go`, `envoy_global_limit.go`) | none | spec, metrics and subsets to route patches, buckets and rules |
| multi-cluster controller (`controllers/multicluster`) | informer cache of secrets, a deduplicating work queue with retries, `cs`: cluster to secret | `processItem` looks a secret up and adds or deletes its member clusters, telling subscribers; a controller by itself, nothing in the repository creates one |
| surroundings | SmartLimiters, DestinationRules, pods, Prometheus; the informer caches and `HostSubsetMapping` in the process | users, the framework's DestinationRule reconciler, garbage collection, crashes |

What is hard: a refresh is a sequence of API calls during which the object, the
metrics, the subsets and the ConfigMap may change; EnvoyFilters and the ConfigMap
are read from caches that lag; errors are mostly logged and never retried, so
that correctness rests on the next tick; memory, the known subsets included, is
lost in a crash; Go's map order and `select` are visible in the results. PROJECT.json
lists these hazards at their lines.

What makes each part correct:

* reconcile worker: once it has caught up, the interest map is exactly the set
  of SmartLimiters that need refreshing;
* ConfigMap: concurrent refreshes act as if each were atomic, and on their own
  service only;
* consumer and producers: whatever was lost, late or out of order, the cluster
  eventually enforces, and reports, what the specs mean;
* EnvoyFilters: none is touched on behalf of another revision, however old the
  copy a decision was based on;
* translation: the halves of a limit that are generated apart meet in Envoy, and
  nothing else is limited;
* multi-cluster controller: the member clusters follow the secrets, and no
  notification is lost between informer, queue and worker.

## Modules

| module | contents |
|---|---|
| `SeqFilter` | `Filter`, the loop "append each item that passes a test" |
| `EnvoyConfigs` | the translation, as pure operators |
| `EnvoySemantics` | what the generated configuration means to Envoy and to the rate limit service, against what the spec asks for; the spec and the metrics change one descriptor or value at a time |
| `ConfigMapStore` | abstract specification: atomic refreshes of a list of rules |
| `ConfigMap` | the ConfigMap, its cached copy, and `refreshConfigMap` as a read and a conditional write |
| `LimiterState` | constants, all variables, initial state, restart |
| `Cluster` | environment: users, resync, garbage collector, DestinationRule and its reconciler, pods and metrics, caches, crash |
| `Reconcile` | the reconcile worker |
| `MetricProducers` | ticker and watcher |
| `MetricConsumer` | `WatchMetric` and everything below it |
| `Limiter` | the composition, fairness, the properties, and the refinement of `ConfigMapStore` |
| `MultiCluster` | the multi-cluster controller with the secrets, its fairness and properties |
| `LimiterProofs`, `InterestProofs`, `ConfigMapProofs`, `RefreshProofs` | theorems about `Limiter` |
| `TranslationProofs` | theorems about `EnvoySemantics` |
| `MultiClusterProofs` | theorems about `MultiCluster` |
| `SeqFilterProofs`, `RuleProofs` | lemmas on sequences, and on the rules the translation generates |
| `MCLimiter`, `MCEnvoySemantics`, `MCMultiCluster` | constants for TLC |

Correspondence with the code:

* **Program counters.** `rec.pc` and `cons.pc` name the next API call or map
  operation, and every one of them is a step of its own: the reconcile worker
  is `idle`, `upsert`, `pop`, `uninterest`, `cmget` or `cmput`; the consumer is
  in `recv`, `next`, `get`, `gen`, `ef`, `cmget`, `cmput` or `status`.
  `rec.obj` and `cons.obj` are the SmartLimiter as it was read, and go stale
  there as they do in the code.
* **Atomic steps.** The accesses to `lastUpdatePolicy` are one step, since only
  the single reconcile worker uses it. The lookups and the merge at the
  beginning of `Refresh` are one step: wherever a concurrent `Pop` falls among
  them, the result is that of the pop before or after. A tick reads `interest`
  and the pods of several services in one step; each service is consumed by
  itself, so no mixture of them is observable.
* **Objects.** `sl[s]` is the SmartLimiter of service `s` (both have one name):
  policy, revision label, a generation that is new with each change, and the
  uid of its creation. It is the object as the informer has it; a status write
  that comes before the informer has seen a change is a conflict, which is a
  fault. `ef[s][x]` is the EnvoyFilter of set `x` with its owner uid and its
  revision label.
* **EnvoyFilters are read from a cache.** `efCache[s][x]` is the informer's copy and
  a flag that tells whether it is current. Each write of an EnvoyFilter, by the
  consumer or by the garbage collector, reaches the informer at once or, as
  often as the bound `lag` allows, later (`WriteEnvoyFilter`), until
  `SyncEnvoyFilters` catches up with all of them, as one watch does. (That a write
  may be seen before an older one of another EnvoyFilter is more than one watch
  allows; it adds behaviours and takes none away.)
  `refreshEnvoyFilter` decides on the copy: `Creates`, `Updates` and `Deletes` say
  when its call succeeds. Create fails when there is an EnvoyFilter after all,
  Update unless the copy is current (it carries the resourceVersion), Delete
  carries none and succeeds on whatever is there. Where a call fails, or where a
  copy that is behind makes the code skip the write in silence
  (`process.go:264`, `process.go:284`), nothing is written and the refresh goes
  on. Reading the copy and writing are one step: the consumer is the only one
  who reads that cache, and a write that happens in between has the effect of an
  informer that has not seen it yet.
* **Subsets.** `dr[s]` are the subsets in the DestinationRule, `subsets[s]` those in
  `HostSubsetMapping`, which the translation and the pod counts use. A new
  process has none of them until `ReconcileDestinationRule`, in the initial state
  and after a crash alike.
* **ConfigMap.** A copy is its rules and the flag `current`; each write clears
  the flag in all copies, and a write from an outdated copy is a conflict, as
  with the resourceVersion. That `found.Data` may differ in its formatting only
  (the ConfigMap as first installed) is left out.
* **Metric keys** are pairs; `"v1.pod"` is `<<"v1", "pod">>`. Templates are `true`
  or `metric > n` for conditions, a number or `number / metric` for quotas.
  Rendering fails when the metric is missing, as in the framework's `util`.
* **Names.** `Infix` says which `name.namespace` is a substring of which other
  one, which is all that `strings.Contains` on rule values can see.
* **Checksum** (adler32) is a parameter. The runs take it without collisions.
* **Go maps** are iterated in any order: `ConsumeMetric` picks any remaining
  service, `RefreshEnvoyFilter` any remaining set, `generateQueryString` any
  last handler, and `MayBeReordered` says when patches may come out in another
  order and be rewritten without need.
* **Patches** keep what decides whether Envoy applies a limit: the context
  (inbound or outbound), virtual host and route, the actions with their
  header matchers, the buckets and descriptors, the domain, whether a bucket is
  enabled and enforced. Names of filters, type URLs and layout are left out.
  Integers are cut modulo `Uint32Size` where the code converts to `uint32`.
* **Secrets.** A kubeconfig is one of four kinds: empty, not valid, valid but no
  client can be made from it, good. `processItem` is two steps, the lookup in
  the informer cache and the action upon the copy found, which may be old by
  then; only the worker touches `cs`, so adding or deleting all the clusters of
  a secret is one step. The controller registers no handler for updates; a
  secret deleted and created again before a relist is an update, too. The
  history variables `updated` and `abandoned` record which secrets changed in
  this way and which ones were given up on after `maxRetries`.
* **Faults.** Each API call of the consumer and of the ConfigMap clean-up may
  fail (`RefreshFault`, `ReconcileCmFault`), and the pods of a service may not be
  readable (`TickerFault`).

## Runs

The environment is bounded: `Limit` bounds user operations, resyncs, subset
changes, changes of pods or metrics, crashes, faults and writes of EnvoyFilters
that the informer sees late; the limiter's own steps are not bounded.
`Bound(...)` in `MCLimiter` lists them in that order.

| run | bounds | shows |
|---|---|---|
| `interest` | 2 services, 3 and 1 policies, 2 revisions (1 in scope), 3 user operations, 1 resync, 1 crash | `TypeOK`; `InterestCovers` and `InterestBacked`: no order of creations, changes, deletions and restarts makes `Reconcile` skip or forget a SmartLimiter. Three operations are enough for a change and a change back, or a deletion and a re-creation while the worker is busy. |
| `rivals` | 2 services, 1 user operation, 1 fault | `RefreshIsAtomic` (refinement of `ConfigMapStore`), `OnlyOwnRulesChange` (a write replaces the rules of its service, as a whole, and no others), and `Converges` when two services share the ConfigMap. A deletion makes both writers active at once, with two services as rivals, and the fault or the conflict makes either lose. |
| `converge` | 1 service, 2 policies, 2 revisions (both in scope), subset v1, 2 user operations, 1 late write, global limits off | `Converges`: status and EnvoyFilters become and stay what the spec means; `DeletedCleaned`: no EnvoyFilter survives its SmartLimiter; `RevisionsApart`: none is changed or deleted on behalf of another revision. Two operations are enough for a change of the label and back, or a deletion and a re-creation, while a copy is behind. |
| `adaptive` | 1 service, one Prometheus handler per set, 1 or 2 pods, subset v1, 1 subset change, 1 change of load or pods, 1 crash | `Converges` with the watcher racing the ticker, with sets that come and go while their metrics are under way, and across a restart: rules, status and EnvoyFilters of v1 come back, or follow the new DestinationRule, although the new process refreshes before it knows any subset |
| `semantics` | up to 3 descriptors in all out of 10 (local and global, inbound and outbound, header matches, ports, routes, malformed routes, conditions, an interval without unit, a quota over `uint32`, no action), 2 sets, 2 metrics | `EveryLimitApplies`, `NoOtherLimit`. Three descriptors are enough for two in one group and a third beside them, in either set. |
| `multicluster` | 2 secrets, 3 clusters, one of them in both secrets, 3 user operations, 4 failing lookups (`maxRetries` is 3, as in the code), 1 restart | `TypeOK`, `MembersBacked`, `MembersComplete`, `Settles`. Three operations are enough for a deletion and a re-creation while the worker holds the old copy; four failures are what it takes to give up. |

`EveryLimitApplies` speaks of the descriptors that are `Expressible`. The ones that
are not, each a hazard at its line: a quota that `uint32` cannot hold
(`envoy_local_limit.go:313`); a descriptor whose vhost and route occur before it
in the other direction, since the first one of a group decides the context
(`envoy_local_limit.go:126`); a global one at or after an interval without a
unit, where the loop over the rules ends (`envoy_global_limit.go:109`); a global one
on an outbound route, since the filter is inserted inbound only
(`envoy_global_limit.go:46`). The property fails as soon as any one of these
exceptions is dropped, and shows nothing of what they except.

`NoOtherLimit` is the converse. It looks at every action of an EnvoyFilter and at
every bucket beside it and rule of the rate limit service that counts its entry,
and asks for a descriptor in force of that set with those headers, that quota
(as `uint32` leaves it), that interval and kind, which names the place. It has one
exception, the second of the above: in a group with both directions the place
is the one its first descriptor names (`NamingAsGroup`). With `Naming` in its place
the property fails on an inbound and an outbound descriptor for one route: the
second is applied in the direction of the first, against `direction` in
`smart_limiter.proto:100`.

`Converges` has one exception for EnvoyFilters, `Frozen`: after a change of the
revision label the EnvoyFilter with the old label is skipped
(`process.go:268`) and stays as it was, until the SmartLimiter is deleted or
gets that label again. It fails without the exception.

Custom keys never reach the configuration: the copies that `GenerateEnvoyConfigs`
makes leave `CustomKey` and `CustomValue` out (`envoy_filters.go:70`, `Resolve`), so
that a descriptor with a custom key gets a generic action, although the comment
at `envoy_local_limit.go:232` says that it gets no route patch. The branches of
the translation for custom keys are in the model as they are in the code, and
as dead.

`multicluster` switches deadlock checking off: once the users are done the worker
may wait on an empty queue for ever. The runs of `MCLimiter` do not need to, as
the ticker never stops.

Six runs refute what a comment or a document says. Each is a finding in
PROJECT.json, with the quotation:

| run | what the code does |
|---|---|
| `same_spec` | of two SmartLimiters with equal specs the second is taken for the first and never handled (`lastUpdatePolicy` is shared by all) |
| `infix` | refreshing `cart.shop` removes the rules of `mycart.shop` |
| `deleted_rules` | a refresh in flight puts the rules of a deleted SmartLimiter back, and they stay |
| `stale_filter` | a refresh reports limits as effective although it has left an older EnvoyFilter in force, because the informer's copy was behind (until the next tick) |
| `handlers` | with several Prometheus handlers only the last one in map order is queried |
| `stale_pods` | the pod count of a set without pods is kept for ever |

The passing runs choose constants that avoid these: different specs, no infix
names, one handler, sets that keep a pod. `stale_filter` is refuted for a moment only:
`converge` has the same late writes and shows that the spec comes to be
enforced. That the EnvoyFilter of a subset which
left the DestinationRule stays is a known gap (`process.go:209-211`); `Converges`
speaks of the present sets only.

Of the member clusters, `MembersComplete` leaves out secrets that were changed in
place, secrets given up on, and cluster IDs that several secrets offer: the code
handles none of the three further.

### Fairness

`FairSpec` assumes what the Go runtime, the ticker and the control plane give:
the reconcile worker and the consumer go on, the ticker fires again and again,
the informers catch up, the garbage collector runs, the DestinationRule is
reconciled. `ReceiveMetric("ticker")` is
strongly fair, because `select` chooses at random among ready channels: a ticker
that is ready again and again is not passed over for ever. Users, Endpoints
events, crashes and faults are not fair. `ConsumerRuns` states weak fairness of
the consumer without ENABLED: between two receives its next step is always
enabled, so that weak fairness means that it is in `recv` again and again or
moves again and again.

`MultiCluster` assumes that the informer and its notifications get through, that
back-offs end, and that the worker runs. Users, failing lookups and restarts
are not fair; a lookup that may fail is not bound to, and the worker's fairness
is that of a lookup that succeeds.

## Proofs

All theorems hold for any services, policies, subsets, metrics and bounds, from
the named assumptions on constants in `EnvoyConfigs`, `EnvoySemantics`,
`ConfigMap`, `LimiterState` and `MultiCluster`. These say what a Go type or the
API server guarantees: quotas are integers, lists are lists, there are finitely
many subset names, templates name metrics there may be, a name occurs in itself.

* `TypeCorrect`: `Spec => []TypeOK`. TypeOK is inductive by itself; one lemma per
  component, one step per action.
* `InterestCovered`: `DisjointPolicies => (Spec => []InterestCovers)`.
  InterestCovers speaks of an idle worker and is not inductive. The invariant
  `InterestInv` says who is still going to act: the last seen spec belongs to an
  entry of the map (`LastPolicyInv`, which needs that no two services share a
  non-empty spec; `same_spec` shows what happens otherwise); a SmartLimiter that
  is missing in the map is queued, or in the worker's hands as it is now
  (`CoverInv`); one that came back while being removed is queued (`ReturnInv`).
* `InterestIsBacked`: `Spec => []InterestBacked`, from `BackInv`: an entry without
  SmartLimiter, or one about to be made, is queued or being removed. It needs no
  assumption on specs.
* `RefreshAtomic`: `Spec => RefreshIsAtomic`. `CurrentInv`: a copy that claims to be
  current is equal to the ConfigMap. A request of `ConfigMapStore` is begun when
  a goroutine reaches `cmget` and ended when it leaves `cmput`; each step of the
  limiter then is a begin, a commit, an abort, a restart or a stutter.
* `OthersKeepRules`: `NoInfixes => (Spec => OnlyOwnRulesChange)`. `NoInfixes` says
  that no `name.namespace` occurs in another one; `infix` shows what happens
  otherwise. By `CurrentInv` a write acts on the rules in force. What the metric
  consumer writes are rules of its own service (`RulesInv`), which takes the
  whole translation to show (`RulesOfConfigs`). Rebuilding a list then keeps the
  rules of other services and puts the new ones in the place of the old
  (`RebuiltKeeps`), by lemmas on what filtering a filtered or extended list
  returns.
* `RevisionsStayApart`: `Spec => RevisionsApart`. The label is compared on a copy, so
  the property rests on `CopyInv`: a copy may have another spec and another owner
  than the EnvoyFilter it is of, or be of one that is gone, but never has another
  label. It is inductive because the consumer creates nothing in the place of a
  copy it still has, and an update keeps the label (`WriteKeeps`,
  `RefreshEfApart`).
* `LimitsApply`: `NilApart => (Spec => []EveryLimitApplies)` and
  `NothingElseLimits`: `NilApart => (Spec => [](NoCollisions => NoOtherLimit))`. Only the types of the spec and the
  metrics are inductive (`SpecTyped`); both properties follow from these by what
  the translation computes. The argument goes along the code: what survives
  `validDescriptor` are the descriptors in force, in their order (`ResolvesTo`); the
  local and the global ones, selected apart, keep that order; the pairs of route
  and item that `PerRoute` lists come from them one by one (`Routed`);
  `GroupByRoute` puts each item into the one patch of its route, in the context of
  the first (`PatchAt`), and nothing else (`PatchOnly`); and the rules go on until
  the first interval without a unit (`RulesUpTo`). For the converse an entry has
  to tell which descriptor it stands for (`ValueTells`), since rules of all sets
  are in one list; `NoCollisions` says that descriptors in force with one
  checksum are one and the same once resolved. `NilApart` says that `Nil`, which stands for a nil pointer, is
  none of the records that the translation builds: true of a pointer, and of the
  model value in the runs.
* `MultiClusterTyped`, `DeletionsReachMembers`, `AdditionsReachMembers`: `Spec`
  implies `[]TypeOK`, `[]MembersBacked` and `[]MembersComplete` of `MultiCluster`.
  The two invariants speak of a controller that has caught up and are not
  inductive. `IInv` says who is still going to act: a member whose secret is gone
  from the cache is pending (notified, queued or backing off), given up on, or
  its secret is in the worker's hands (`Backed`); a cluster of a secret that is
  missing in `cs` likewise (`Complete`); and a copy in the worker's hands that
  differs from the cache is pending again, unless the secret was changed in
  place (`WorkerCurrent`, `WorkerObj`). `Offered` says that a cluster is entered
  only for a secret that may hold it, which `Complete` needs for cluster IDs in
  one secret.

**Induction over sequences.** The theorems on the ConfigMap and on the translation
need to know what a loop returns for a list of any length. The library's
induction theorems take a predicate, which the provers cannot instantiate;
`InductionTo` states induction for a *set* of numbers instead, from the least
counterexample that well-foundedness of `<` on the naturals gives (`LeastNat`).
Each proof then gives the set of the indices its statement holds for. A recursive
function is a CHOOSE, so that its equation must be shown to have a solution
first (`PickEqSolvable`, `FlattenEqSolvable`). `SelectSeq` is built into the
prover and has no definition there to reason from; therefore the model says
`Filter`, which is equal to it and is `Pick`, an ordinary recursive function, at
the indices that pass the test.

Only model-checked: the liveness properties `Converges`, `DeletedCleaned` and
`Settles`, since liveness under fairness is outside the prover. Every invariant
and every action property of a passing run, and the refinement, is a theorem.
What the six refuting runs show is, by its nature, not.

## Not modelled

* `subscribe`, which has no caller, and module start-up, which is sequential;
* generated API code (`*.pb.go`, `zz_generated.deepcopy.go`);
* names of filters, type URLs and the layout of patches, the text of queries and
  templates;
* how Envoy and the rate limit service count requests over time, how Istio
  merges several EnvoyFilters on one workload (the base EnvoyFilter also matches
  the pods of the subsets), and what the rate limit service makes of the same
  rule written twice: none of it is decided in this repository;
* specs without `fill_interval`, on which the translation panics
  (`envoy_local_limit.go:315`);
* rules in the ConfigMap that do not come from the limiter;
* a second instance of the limiter with other revisions in its scope: the
  EnvoyFilters of one are skipped by the other, but both write the ConfigMap and
  the status, which doubles the processes and is beyond TLC's reach beside the
  first instance. One instance with a SmartLimiter that leaves and enters its
  scope is in `interest`.

## Plan

1. Done: translation and its semantics, ConfigMap with its abstract
   specification, reconcile worker, producers, consumer, composition, revision
   labels, multi-cluster controller; types, interest map, refinement,
   convergence, member clusters; all safety properties as theorems.
2. Proofs left: the safety part of `DeletedCleaned` (every EnvoyFilter is owned by
   a SmartLimiter that was there, so that one left behind is collected).
3. An abstract specification of what a refresh promises for one service, and
   its refinement by `MetricConsumer`.
