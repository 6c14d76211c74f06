-------------------------- MODULE MetricProducers ---------------------------
(***************************************************************************)
(* controllers/producer.go: what the ticker and the watcher producer of    *)
(* the framework ask about, and the metrics they send.                     *)
(*                                                                         *)
(* A producer evaluates the query map, queries the metric source and then  *)
(* blocks on an unbuffered channel until WatchMetric receives: prod[p] is  *)
(* the metric it blocks with.  That metric is a function from services     *)
(* (the JSON of StaticMeta) to [nPod, isGroup, results].                   *)
(***************************************************************************)
EXTENDS LimiterState

(* queryServicePods and querySubsetPods: the sets that have a pod, with     *)
(* their number of pods.                                                    *)
querySubsetPods(s) ==
  LET sets == {x \in ToSet(subsets[s]) \cup {Base} : world[s][<<x, "pod">>] > 0}
  IN  [x \in sets |-> world[s][<<x, "pod">>]]

generateMeta(subsetsPods) ==
  [nPod |-> [k \in {<<x, "pod">> : x \in DOMAIN subsetsPods} |-> subsetsPods[k[1]]],
   isGroup |-> NoMetrics]

(* The queries one handler stands for: names and kinds.                     *)
replaceQueryString(h, subsetsPods) ==
  CASE h.type = "Value" /\ h.perPod ->
         [k \in {<<x, h.name>> : x \in DOMAIN subsetsPods} |-> FALSE]
    [] h.type = "Value" /\ ~h.perPod -> [k \in {<<"", h.name>>} |-> FALSE]
    [] h.type = "Group" -> [k \in {<<"", h.name>>} |-> TRUE]

(* The loop over the handlers, a Go map, assigns queryHandlers in every     *)
(* round: the queries sent are those of the handler that came last, while   *)
(* isGroup collects the kinds of all of them.                               *)
generateQueryString(subsetsPods, last) ==
  LET kinds == {replaceQueryString(h, subsetsPods) : h \in Handlers}
      names == UNION {DOMAIN k : k \in kinds}
  IN  [meta    |-> [generateMeta(subsetsPods) EXCEPT !.isGroup =
                      [n \in names |-> \E k \in kinds : n \in DOMAIN k /\ k[n]]],
       queries |-> replaceQueryString(last, subsetsPods)]

(* The metric source: one result per query, a result being a map of its     *)
(* samples.  A group has a sample per group that exists, a value one sample *)
(* or none.                                                                 *)
Samples(s, name, group) ==
  IF group
  THEN [k \in {j \in HandlerKeys([name |-> name[2], type |-> "Group"]) :
                 world[s][j] # Nil} |-> world[s][k]]
  ELSE [k \in {j \in {name} : world[s][j] # Nil} |-> world[s][k]]

QueryMetric(s, q) ==
  LET names == SetToSeq(DOMAIN q.queries)
  IN  [nPod    |-> q.meta.nPod,
       isGroup |-> q.meta.isGroup,
       results |-> [i \in DOMAIN names |->
                      [name  |-> names[i],
                       value |-> Samples(s, names[i], q.queries[names[i]])]]]

(* handleLocalEvent: no queries, only the numbers of pods.                  *)
handleLocalEvent(s) ==
  QueryMetric(s, [meta |-> generateMeta(querySubsetPods(s)), queries |-> NoMetrics])

handlePrometheusEvent(s, last) ==
  QueryMetric(s, generateQueryString(querySubsetPods(s), last))

handleEvent(s, last) ==
  IF Adaptive THEN handlePrometheusEvent(s, last) ELSE handleLocalEvent(s)

(* Any handler may come last in the iteration of the map.  Without handlers *)
(* adaptive mode asks for nothing: handlePrometheusEvent returns nil.       *)
LastHandlers == IF Adaptive THEN Handlers ELSE {Nil}

Send(p, services) ==
  /\ prod[p] = Nil
  /\ \E last \in [services -> LastHandlers] :
       prod' = [prod EXCEPT ![p] = [s \in services |-> handleEvent(s, last[s])]]
  /\ UNCHANGED <<objVars, cmVars, envVars, queue, memVars, rec, cons>>

Queried == IF LastHandlers = {} THEN {} ELSE interest

(* Every 30 seconds, for every service in the interest map; the tick of an  *)
(* empty map has no effect.                                                 *)
handleTickerEvent ==
  /\ prod["ticker"] = Nil
  /\ IF Queried = {}
     THEN UNCHANGED vars
     ELSE Send("ticker", Queried) /\ UNCHANGED used

(* The pods of some services cannot be queried, and those are left out.     *)
TickerFault(rest) ==
  /\ rest # {}
  /\ rest # Queried
  /\ Spend("fault")
  /\ Send("ticker", rest)

(* An endpoints event of a service in the interest map.                     *)
handleWatcherEvent(s) ==
  /\ Adaptive
  /\ s \in Queried
  /\ Send("watcher", {s})
  /\ UNCHANGED used

ProducerNext ==
  \/ handleTickerEvent
  \/ \E rest \in SUBSET Queried : TickerFault(rest)
  \/ \E s \in Svc : handleWatcherEvent(s)
=============================================================================
