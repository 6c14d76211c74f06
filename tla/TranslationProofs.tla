------------------------- MODULE TranslationProofs --------------------------
(***************************************************************************)
(* The translation means what the SmartLimiter says, for specs of any      *)
(* length and for all metrics, checksums and quotas.                       *)
(***************************************************************************)
EXTENDS EnvoySemantics, RuleProofs

(* A spec is made of descriptors; a metric has a value or none.             *)
SpecTyped ==
  /\ sets \in [SetName -> Seq(Descriptors)]
  /\ metrics \in [Keys -> Values \cup {Nil}]

(* It stays so.                                                             *)
LEMMA AlwaysTyped == Spec => []SpecTyped
  <1>1. Init => SpecTyped
    BY DEF Init, SpecTyped
  <1>2. SpecTyped /\ [Next]_vars => SpecTyped'
    <2> SUFFICES ASSUME SpecTyped, [Next]_vars PROVE SpecTyped'
      OBVIOUS
    <2>1. ASSUME NEW x \in SetName, NEW d \in Descriptors, AddDescriptor(x, d)
          PROVE  SpecTyped'
      <3>1. sets' = [sets EXCEPT ![x] = Append(@, d)] /\ metrics' = metrics
        BY <2>1, Zenon DEF AddDescriptor
      <3> QED
        BY <3>1 DEF SpecTyped, SetName
    <2>2. ASSUME NEW k \in Keys, NEW v \in Values, Observe(k, v)
          PROVE  SpecTyped'
      BY <2>2 DEF Observe, SpecTyped, SetName
    <2>3. CASE UNCHANGED vars
      BY <2>3 DEF vars, SpecTyped, SetName
    <2> QED
      BY <2>1, <2>2, <2>3 DEF Next
  <1> QED
    BY <1>1, <1>2, PTL DEF Spec

-----------------------------------------------------------------------------
(* Resolved descriptors.                                                    *)

Resolved == {Resolve(d, material) : d \in Descriptors}

ResolvesBy(f, W, x, J) ==
  /\ Enumerates(f, Len(W), J)
  /\ \A a \in 1..Len(W) : W[a] = Resolve(sets[x][f[a]], material)

(* W holds the descriptors of set x at the indices J, resolved, in their    *)
(* order.                                                                   *)
ResolvesTo(W, x, J) == W \in Seq(Resolved) /\ \E f : ResolvesBy(f, W, x, J)

(* What the templates let through is what is in force.                      *)
LEMMA AppliesInForce ==
  ASSUME SpecTyped, NEW x \in SetName
  PROVE  /\ sets[x] \in Seq(Descriptors)
         /\ {i \in DOMAIN sets[x] : Applies(sets[x][i], material)} = InForce(x)
         /\ InForce(x) \in SUBSET (1..Len(sets[x]))
  <1>1. sets[x] \in Seq(Descriptors)
    BY DEF SpecTyped
  <1>2. ASSUME NEW i \in DOMAIN sets[x]
        PROVE  Applies(sets[x][i], material) <=> i \in InForce(x)
    <2> DEFINE d == sets[x][i]
    <2>1. d \in Descriptors
      BY <1>1
    <2>2. \A k \in Keys : k \in DOMAIN material <=> metrics[k] # Nil
      BY DEF material
    <2>3. \A k \in Keys : metrics[k] # Nil => material[k] = metrics[k]
      BY DEF material
    <2>4. d.condition.metric \in Keys \cup {Nil}
      BY <2>1, SemanticsAssumption
    <2>5. d.action # Nil => d.action.quota.per \in Keys \cup {Nil}
      BY <2>1, SemanticsAssumption
    <2>6. (/\ Known(d.condition.metric, material)
           /\ CalculateTemplateBool(d.condition, material)) <=> Holds(d.condition)
      BY <2>2, <2>3, <2>4 DEF Known, CalculateTemplateBool, Holds
    <2>7. d.action # Nil =>
            (Known(d.action.quota.per, material) <=> QuotaKnown(d.action.quota))
      BY <2>2, <2>5 DEF Known, QuotaKnown
    <2> QED
      BY <2>6, <2>7 DEF Applies, InForce
  <1>3. {i \in DOMAIN sets[x] : Applies(sets[x][i], material)} = InForce(x)
    BY <1>2 DEF InForce
  <1>4. DOMAIN sets[x] = 1..Len(sets[x])
    BY <1>1
  <1>5. InForce(x) \in SUBSET (1..Len(sets[x]))
    BY <1>4 DEF InForce
  <1> QED
    BY <1>1, <1>3, <1>5

(* validDescriptor keeps the descriptors in force.                          *)
LEMMA ValidResolves ==
  ASSUME SpecTyped, NEW x \in SetName
  PROVE  ResolvesTo(validDescriptor(sets[x], material), x, InForce(x))
  <1> DEFINE D == sets[x]
             kept == Pick(D, InForce(x))
             V == [i \in DOMAIN kept |-> Resolve(kept[i], material)]
  <1>1. /\ D \in Seq(Descriptors) /\ InForce(x) \in SUBSET (1..Len(D))
        /\ {i \in DOMAIN D : Applies(D[i], material)} = InForce(x)
    BY AppliesInForce
  <1>2. kept \in Seq(Descriptors) /\ Selects(kept, D, InForce(x))
    BY <1>1, PickSelects
  <1>3. validDescriptor(D, material) = V
    BY <1>1 DEF validDescriptor, Filter
  <1>4. PICK f : /\ Enumerates(f, Len(kept), InForce(x))
                 /\ \A a \in 1..Len(kept) : kept[a] = D[f[a]]
    BY <1>2 DEF Selects
  <1> HIDE DEF kept, D
  <1>5. V \in Seq(Resolved) /\ Len(V) = Len(kept)
    <2>1. Len(kept) \in Nat /\ DOMAIN kept = 1..Len(kept)
      BY <1>2
    <2>2. \A i \in 1..Len(kept) : kept[i] \in Descriptors
      BY <1>2
    <2>3. V = [i \in 1..Len(kept) |-> Resolve(kept[i], material)]
      BY <2>1
    <2> DEFINE r(i) == Resolve(kept[i], material)
    <2>4. \A i \in 1..Len(kept) : r(i) \in Resolved
      BY <2>2 DEF Resolved
    <2>5. V = [i \in 1..Len(kept) |-> r(i)]
      BY <2>3
    <2> HIDE DEF V, r
    <2> QED
      BY <2>1, <2>4, <2>5
  <1>6. \A a \in 1..Len(V) : V[a] = Resolve(D[f[a]], material)
    BY <1>2, <1>4, <1>5
  <1>7. ResolvesBy(f, V, x, InForce(x))
    BY <1>4, <1>5, <1>6 DEF ResolvesBy, D
  <1> QED
    BY <1>3, <1>5, <1>7 DEF ResolvesTo, D

(* Picking from resolved descriptors.                                       *)
LEMMA PickResolves ==
  ASSUME NEW x, NEW W \in Seq(Resolved), NEW J \in SUBSET Int, NEW f, ResolvesBy(f, W, x, J),
         NEW J2 \in SUBSET J, NEW K, K = {a \in 1..Len(W) : f[a] \in J2}
  PROVE  ResolvesTo(Pick(W, K), x, J2)
  <1> DEFINE out == Pick(W, K)
  <1>1. out \in Seq(Resolved) /\ Selects(out, W, K)
    <2>1. K \in SUBSET (1..Len(W))
      OBVIOUS
    <2> QED
      BY <2>1, PickSelects
  <1>2. PICK h : Enumerates(h, Len(out), K) /\ \A a \in 1..Len(out) : out[a] = W[h[a]]
    BY <1>1 DEF Selects
  <1> HIDE DEF out
  <1> DEFINE l == Len(out)
             e == [a \in 1..l |-> f[h[a]]]
  <1>3. /\ h \in [1..l -> K] /\ f \in [1..Len(W) -> J]
        /\ \A a, b \in 1..l : a < b => h[a] < h[b]
        /\ \A a, b \in 1..Len(W) : a < b => f[a] < f[b]
        /\ \A k \in K : \E a \in 1..l : h[a] = k
        /\ \A j \in J : \E a \in 1..Len(W) : f[a] = j
    BY <1>2 DEF Enumerates, ResolvesBy
  <1>4. \A a \in 1..l : h[a] \in K /\ h[a] \in 1..Len(W) /\ e[a] = f[h[a]] /\ e[a] \in J2
    BY <1>3
  <1>5. e \in [1..l -> J2]
    BY <1>4
  <1>6. \A a, b \in 1..l : a < b => e[a] < e[b]
    BY <1>3, <1>4
  <1>7. \A j \in J2 : \E a \in 1..l : e[a] = j
    <2> SUFFICES ASSUME NEW j \in J2 PROVE \E a \in 1..l : e[a] = j
      OBVIOUS
    <2>1. PICK b \in 1..Len(W) : f[b] = j
      BY <1>3
    <2>2. PICK a \in 1..l : h[a] = b
      BY <1>3, <2>1
    <2> QED
      BY <1>4, <2>1, <2>2
  <1>8. \A a \in 1..l : out[a] = Resolve(sets[x][e[a]], material)
    BY <1>2, <1>4 DEF ResolvesBy
  <1> HIDE DEF e
  <1>9. ResolvesBy(e, out, x, J2)
    BY <1>5, <1>6, <1>7, <1>8 DEF ResolvesBy, Enumerates
  <1> QED
    BY <1>1, <1>9 DEF ResolvesTo, out

(* Splitting by strategy, which resolving keeps.                            *)
LEMMA StrategyResolves ==
  ASSUME NEW x, NEW J \in SUBSET Int, NEW W, ResolvesTo(W, x, J)
  PROVE  /\ ResolvesTo(Filter(W, IsGlobal), x, {j \in J : IsGlobal(sets[x][j])})
         /\ ResolvesTo(Filter(W, LAMBDA d : ~IsGlobal(d)), x,
                       {j \in J : ~IsGlobal(sets[x][j])})
  <1>1. W \in Seq(Resolved)
    BY DEF ResolvesTo
  <1>2. PICK f : ResolvesBy(f, W, x, J)
    BY DEF ResolvesTo
  <1>3. /\ DOMAIN W = 1..Len(W) /\ f \in [1..Len(W) -> J]
        /\ \A a \in 1..Len(W) : W[a] = Resolve(sets[x][f[a]], material)
    BY <1>1, <1>2 DEF ResolvesBy, Enumerates
  <1>4. \A a \in 1..Len(W) : IsGlobal(W[a]) <=> IsGlobal(sets[x][f[a]])
    BY <1>3 DEF Resolve, IsGlobal
  <1>5. ResolvesTo(Filter(W, IsGlobal), x, {j \in J : IsGlobal(sets[x][j])})
    <2> DEFINE J2 == {j \in J : IsGlobal(sets[x][j])}
               K == {a \in DOMAIN W : IsGlobal(W[a])}
    <2>1. J2 \in SUBSET J /\ K = {a \in 1..Len(W) : f[a] \in J2}
      BY <1>3, <1>4
    <2>2. Filter(W, IsGlobal) = Pick(W, K)
      BY DEF Filter
    <2> HIDE DEF J2, K
    <2>3. ResolvesTo(Pick(W, K), x, J2)
      BY <1>1, <1>2, <2>1, PickResolves
    <2> QED
      BY <2>2, <2>3 DEF J2
  <1>6. ResolvesTo(Filter(W, LAMBDA d : ~IsGlobal(d)), x,
                   {j \in J : ~IsGlobal(sets[x][j])})
    <2> DEFINE J2 == {j \in J : ~IsGlobal(sets[x][j])}
               K == {a \in DOMAIN W : ~IsGlobal(W[a])}
    <2>1. J2 \in SUBSET J /\ K = {a \in 1..Len(W) : f[a] \in J2}
      BY <1>3, <1>4
    <2>2. Filter(W, LAMBDA d : ~IsGlobal(d)) = Pick(W, K)
      BY DEF Filter
    <2> HIDE DEF J2, K
    <2>3. ResolvesTo(Pick(W, K), x, J2)
      BY <1>1, <1>2, <2>1, PickResolves
    <2> QED
      BY <2>2, <2>3 DEF J2
  <1> QED
    BY <1>5, <1>6

-----------------------------------------------------------------------------
(* Routes.                                                                  *)

(* The route configs of a descriptor are its places, once each or more, and *)
(* one vhost and route of a descriptor is one place.                        *)
LEMMA RouteConfigsPlaces ==
  ASSUME NEW d \in Descriptors
  PROVE  LET rcs == generateRouteConfigs(d.target)
         IN  /\ rcs \in Seq(ToSet(rcs))
             /\ \A j \in 1..Len(rcs) : generateEnvoyVhostMatch(rcs[j]) \in Places(d)
             /\ \A p \in Places(d) : \E j \in 1..Len(rcs) : generateEnvoyVhostMatch(rcs[j]) = p
             /\ \A p, q \in Places(d) : SameRoute(p, q) => p = q
  <1> DEFINE rcs == generateRouteConfigs(d.target)
  <1>1. \A p, q \in Places(d) : SameRoute(p, q) => p = q
    BY DEF Places, SameRoute
  <1>2. CASE d.target # Nil /\ d.target.route # <<>>
    <2> DEFINE route == d.target.route
               K == {i \in DOMAIN route : Len(route[i]) = 2}
               w == Pick(route, K)
    <2>1. route \in Seq(ToSet(route)) /\ DOMAIN route = 1..Len(route)
      BY <1>2, SemanticsAssumption
    <2>2. K \in SUBSET (1..Len(route))
      BY <2>1
    <2>3. rcs = [i \in DOMAIN w |-> [vhost |-> w[i][1], route |-> w[i][2],
                                     direction |-> d.target.direction]]
      BY <1>2 DEF generateRouteConfigs, Filter
    <2>4. w \in Seq(ToSet(route)) /\ Selects(w, route, K)
      <3> HIDE DEF route, K
      <3> QED
        BY <2>1, <2>2, PickSelects
    <2>5. PICK h : Enumerates(h, Len(w), K) /\ \A a \in 1..Len(w) : w[a] = route[h[a]]
      BY <2>4 DEF Selects
    <2>6. \A q : q \in {r \in ToSet(route) : Len(r) = 2} <=> \E a \in 1..Len(w) : w[a] = q
      <3> HIDE DEF w, route
      <3>1. h \in [1..Len(w) -> K] /\ \A k \in K : \E a \in 1..Len(w) : h[a] = k
        BY <2>5 DEF Enumerates
      <3>2. ASSUME NEW a \in 1..Len(w) PROVE w[a] \in ToSet(route) /\ Len(w[a]) = 2
        <4>1. h[a] \in DOMAIN route /\ Len(route[h[a]]) = 2
          BY <3>1
        <4> QED
          BY <4>1, <2>5 DEF ToSet
      <3>3. ASSUME NEW q \in ToSet(route), Len(q) = 2 PROVE \E a \in 1..Len(w) : w[a] = q
        <4>1. PICK i \in DOMAIN route : route[i] = q
          BY DEF ToSet
        <4>2. i \in K
          BY <3>3, <4>1
        <4>3. PICK a \in 1..Len(w) : h[a] = i
          BY <3>1, <4>2
        <4> QED
          BY <2>5, <4>1, <4>3
      <3> QED
        BY <3>2, <3>3
    <2>7. /\ Len(w) \in Nat /\ DOMAIN w = 1..Len(w)
      BY <2>4
    <2> HIDE DEF w, K
    <2>8. /\ Len(rcs) = Len(w) /\ DOMAIN rcs = 1..Len(w)
          /\ \A j \in 1..Len(w) : rcs[j] = [vhost |-> w[j][1], route |-> w[j][2],
                                             direction |-> d.target.direction]
      BY <2>3, <2>7
    <2>9. rcs \in Seq(ToSet(rcs))
      <3>1. \A j \in 1..Len(w) : rcs[j] \in ToSet(rcs)
        BY <2>8 DEF ToSet
      <3>2. rcs = [j \in 1..Len(w) |-> rcs[j]]
        BY <2>3, <2>7
      <3> HIDE DEF rcs
      <3> QED
        BY <2>7, <3>1, <3>2
    <2>10. Places(d) = {[context |-> IF d.target.direction = "outbound" THEN "SIDECAR_OUTBOUND"
                                     ELSE "SIDECAR_INBOUND",
                         vhost |-> r[1], route |-> r[2]] : r \in {q \in ToSet(route) : Len(q) = 2}}
      BY <1>2 DEF Places
    <2>11. \A j \in 1..Len(rcs) :
             generateEnvoyVhostMatch(rcs[j]) =
               [context |-> IF d.target.direction = "outbound" THEN "SIDECAR_OUTBOUND"
                                     ELSE "SIDECAR_INBOUND", vhost |-> w[j][1], route |-> w[j][2]]
      <3> HIDE DEF rcs
      <3> SUFFICES ASSUME NEW j \in 1..Len(rcs)
                   PROVE  generateEnvoyVhostMatch(rcs[j]) =
                            [context |-> IF d.target.direction = "outbound"
                                         THEN "SIDECAR_OUTBOUND" ELSE "SIDECAR_INBOUND",
                             vhost |-> w[j][1], route |-> w[j][2]]
        OBVIOUS
      <3>1. /\ rcs[j].vhost = w[j][1] /\ rcs[j].route = w[j][2]
            /\ rcs[j].direction = d.target.direction
        BY <2>8
      <3> QED
        BY <3>1 DEF generateEnvoyVhostMatch
    <2> HIDE DEF rcs, route
    <2>12. \A j \in 1..Len(rcs) : generateEnvoyVhostMatch(rcs[j]) \in Places(d)
      BY <2>6, <2>8, <2>10, <2>11
    <2>13. \A p \in Places(d) : \E j \in 1..Len(rcs) : generateEnvoyVhostMatch(rcs[j]) = p
      BY <2>6, <2>8, <2>10, <2>11
    <2> QED
      BY <1>1, <2>9, <2>12, <2>13 DEF rcs
  <1>3. CASE ~(d.target # Nil /\ d.target.route # <<>>)
    <2>1. rcs = generateDefaultInboundRouteConfigs(d.target)
      BY <1>3 DEF generateRouteConfigs
    <2>2. /\ rcs \in Seq(ToSet(rcs)) /\ Len(rcs) = 1
          /\ rcs[1] = [vhost |-> IF d.target = Nil \/ d.target.port = 0 THEN AllowAllPort
                                 ELSE <<"inbound", "http", d.target.port>>,
                       route |-> "default", direction |-> "inbound"]
      BY <2>1 DEF generateDefaultInboundRouteConfigs, ToSet
    <2>3. Places(d) = {generateEnvoyVhostMatch(rcs[1])}
      BY <1>3, <2>2 DEF Places, generateEnvoyVhostMatch
    <2> QED
      BY <1>1, <2>2, <2>3
  <1> QED
    BY <1>2, <1>3

(* The rows PerRoute flattens, items instead of an operator.                *)
Rows(W, items) ==
  [i \in DOMAIN W |->
    LET rcs == generateRouteConfigs(W[i].target)
    IN  [j \in DOMAIN rcs |-> [rc |-> rcs[j], item |-> items[i]]]]

(* Entry p of R is the item of descriptor own[p] at a place of it, every    *)
(* descriptor is there at all its places, and they keep their order.        *)
RoutedBy(own, R, x, J, Item) ==
  /\ own \in [1..Len(R) -> J]
  /\ \A p, q \in 1..Len(R) : p <= q => own[p] <= own[q]
  /\ \A p \in 1..Len(R) :
       /\ R[p].item = Item[own[p]]
       /\ generateEnvoyVhostMatch(R[p].rc) \in Places(sets[x][own[p]])
  /\ \A j \in J : \A place \in Places(sets[x][j]) :
       \E p \in 1..Len(R) : own[p] = j /\ generateEnvoyVhostMatch(R[p].rc) = place

Routed(R, x, J, Item) == R \in Seq(ToSet(R)) /\ \E own : RoutedBy(own, R, x, J, Item)

(* What PerRoute returns.                                                   *)
LEMMA RowsRouted ==
  ASSUME NEW x, NEW J \in SUBSET Int, \A j \in J : sets[x][j] \in Descriptors,
         NEW W \in Seq(Resolved), NEW f, ResolvesBy(f, W, x, J), NEW Item
  PROVE  Routed(FlattenSeq(Rows(W, [a \in 1..Len(W) |-> Item[f[a]]])), x, J, Item)
  <1> DEFINE n == Len(W)
             items == [a \in 1..n |-> Item[f[a]]]
             rows == Rows(W, items)
             rcs(a) == generateRouteConfigs(sets[x][f[a]].target)
             R == FlattenSeq(rows)
  <1>1. /\ n \in Nat /\ DOMAIN W = 1..n /\ f \in [1..n -> J]
        /\ \A a, b \in 1..n : a < b => f[a] < f[b]
        /\ \A j \in J : \E a \in 1..n : f[a] = j
    <2>1. n \in Nat /\ DOMAIN W = 1..n
      OBVIOUS
    <2>2. Enumerates(f, n, J)
      BY Zenon DEF ResolvesBy
    <2> QED
      BY <2>1, <2>2, Zenon DEF Enumerates
  <1>2. \A a \in 1..n : W[a].target = sets[x][f[a]].target
    <2>1. \A d : Resolve(d, material).target = d.target
      BY DEF Resolve
    <2> QED
      BY <2>1 DEF ResolvesBy
  <1>3. \A a \in 1..n : sets[x][f[a]] \in Descriptors
    BY <1>1
  <1>4. ASSUME NEW a \in 1..n
        PROVE  /\ rcs(a) \in Seq(ToSet(rcs(a)))
               /\ \A j \in 1..Len(rcs(a)) :
                    generateEnvoyVhostMatch(rcs(a)[j]) \in Places(sets[x][f[a]])
               /\ \A p \in Places(sets[x][f[a]]) :
                    \E j \in 1..Len(rcs(a)) : generateEnvoyVhostMatch(rcs(a)[j]) = p
    BY <1>3, RouteConfigsPlaces, Zenon
  <1>5. ASSUME NEW a \in 1..n
        PROVE  rows[a] = [j \in DOMAIN rcs(a) |-> [rc |-> rcs(a)[j], item |-> Item[f[a]]]]
    BY <1>1, <1>2 DEF Rows
  <1>6. DOMAIN rows = 1..n /\ rows = [a \in 1..n |-> rows[a]]
    BY <1>1 DEF Rows
  <1> DEFINE S == UNION {{rows[a][j] : j \in DOMAIN rows[a]} : a \in 1..n}
  <1> HIDE DEF rows, rcs
  <1>7. ASSUME NEW a \in 1..n
        PROVE  /\ Len(rows[a]) = Len(rcs(a)) /\ rows[a] \in Seq(S)
               /\ \A j \in 1..Len(rcs(a)) :
                    rows[a][j].rc = rcs(a)[j] /\ rows[a][j].item = Item[f[a]]
    <2>1. DOMAIN rcs(a) = 1..Len(rcs(a)) /\ Len(rcs(a)) \in Nat
      BY <1>4
    <2>2. rows[a] = [j \in 1..Len(rcs(a)) |-> [rc |-> rcs(a)[j], item |-> Item[f[a]]]]
      BY <1>5, <2>1
    <2>3. \A j \in 1..Len(rcs(a)) : rows[a][j] \in S
      BY <2>2
    <2>4. Len(rows[a]) = Len(rcs(a)) /\ rows[a] = [j \in 1..Len(rcs(a)) |-> rows[a][j]]
      BY <2>1, <2>2
    <2> HIDE DEF S
    <2>5. rows[a] \in Seq(S)
      BY <2>1, <2>3, <2>4
    <2> QED
      BY <2>2, <2>4, <2>5
  <1>8. rows \in Seq(Seq(S)) /\ Len(rows) = n
    <2> HIDE DEF S
    <2> QED
      BY <1>1, <1>6, <1>7
  <1>9. R \in Seq(S) /\ Flattens(R, rows, n)
    <2> HIDE DEF S
    <2> QED
      BY <1>8, FlattenSeqFlattens
  <1>10. PICK o :
           /\ o \in [1..Len(R) -> 1..n]
           /\ \A p, q \in 1..Len(R) : p <= q => o[p] <= o[q]
           /\ \A p \in 1..Len(R) : \E j \in 1..Len(rows[o[p]]) : R[p] = rows[o[p]][j]
           /\ \A a \in 1..n : \A j \in 1..Len(rows[a]) :
                \E p \in 1..Len(R) : o[p] = a /\ R[p] = rows[a][j]
    BY <1>9 DEF Flattens, FlattensBy
  <1>11. R \in Seq(ToSet(R))
    <2> HIDE DEF R, S
    <2>1. Len(R) \in Nat /\ DOMAIN R = 1..Len(R) /\ R = [p \in 1..Len(R) |-> R[p]]
      BY <1>9
    <2>2. \A p \in 1..Len(R) : R[p] \in ToSet(R)
      BY <2>1 DEF ToSet
    <2> QED
      BY <2>1, <2>2
  <1> HIDE DEF R, S, n
  <1> DEFINE own == [p \in 1..Len(R) |-> f[o[p]]]
  <1>12. own \in [1..Len(R) -> J]
    BY <1>1, <1>10
  <1>13. \A p, q \in 1..Len(R) : p <= q => own[p] <= own[q]
    <2> SUFFICES ASSUME NEW p \in 1..Len(R), NEW q \in 1..Len(R), p <= q PROVE own[p] <= own[q]
      OBVIOUS
    <2>1. o[p] \in 1..n /\ o[q] \in 1..n /\ o[p] <= o[q]
      BY <1>10
    <2>2. f[o[p]] \in Int /\ f[o[q]] \in Int
      BY <1>1, <2>1
    <2>3. o[p] = o[q] \/ f[o[p]] < f[o[q]]
      BY <1>1, <2>1
    <2> QED
      BY <2>2, <2>3
  <1>14. ASSUME NEW p \in 1..Len(R)
         PROVE  /\ R[p].item = Item[own[p]]
                /\ generateEnvoyVhostMatch(R[p].rc) \in Places(sets[x][own[p]])
    <2>1. o[p] \in 1..n
      BY <1>10
    <2>2. PICK j \in 1..Len(rows[o[p]]) : R[p] = rows[o[p]][j]
      BY <1>10
    <2>3. R[p].rc = rcs(o[p])[j] /\ R[p].item = Item[f[o[p]]] /\ j \in 1..Len(rcs(o[p]))
      BY <1>7, <2>1, <2>2
    <2>4. generateEnvoyVhostMatch(R[p].rc) \in Places(sets[x][f[o[p]]])
      BY <1>4, <2>1, <2>3
    <2> QED
      BY <2>3, <2>4
  <1>15. ASSUME NEW j \in J, NEW place \in Places(sets[x][j])
         PROVE  \E p \in 1..Len(R) : own[p] = j /\ generateEnvoyVhostMatch(R[p].rc) = place
    <2>1. PICK a \in 1..n : f[a] = j
      BY <1>1
    <2>2. PICK k \in 1..Len(rcs(a)) : generateEnvoyVhostMatch(rcs(a)[k]) = place
      BY <1>4, <2>1
    <2>3. k \in 1..Len(rows[a]) /\ rows[a][k].rc = rcs(a)[k]
      BY <1>7, <2>2
    <2>4. PICK p \in 1..Len(R) : o[p] = a /\ R[p] = rows[a][k]
      BY <1>10, <2>3
    <2> QED
      BY <2>1, <2>2, <2>3, <2>4
  <1>16. RoutedBy(own, R, x, J, Item)
    <2> HIDE DEF own
    <2> QED
      BY <1>12, <1>13, <1>14, <1>15, Zenon DEF RoutedBy
  <1> QED
    BY <1>11, <1>16 DEF Routed, R, rows, n

(* What is left of routed items when all of them are kept.                  *)
LEMMA KeptRouted ==
  ASSUME NEW x, NEW J \in SUBSET Int, NEW Item, NEW R, Routed(R, x, J, Item)
  PROVE  Routed(Pick(R, DOMAIN R), x, J, Item)
  <1> DEFINE out == Pick(R, DOMAIN R)
  <1>1. R \in Seq(ToSet(R)) /\ DOMAIN R = 1..Len(R)
    BY DEF Routed
  <1>2. out \in Seq(ToSet(R)) /\ Selects(out, R, DOMAIN R)
    BY <1>1, PickSelects
  <1>3. PICK own : RoutedBy(own, R, x, J, Item)
    BY DEF Routed
  <1>4. PICK h : Enumerates(h, Len(out), DOMAIN R) /\ \A a \in 1..Len(out) : out[a] = R[h[a]]
    BY <1>2 DEF Selects
  <1> HIDE DEF out
  <1> DEFINE l == Len(out)
             new == [p \in 1..l |-> own[h[p]]]
  <1>5. /\ h \in [1..l -> 1..Len(R)]
        /\ \A p, q \in 1..l : p < q => h[p] < h[q]
        /\ \A p \in 1..Len(R) : \E a \in 1..l : h[a] = p
    BY <1>1, <1>4 DEF Enumerates
  <1>6. /\ own \in [1..Len(R) -> J]
        /\ \A p, q \in 1..Len(R) : p <= q => own[p] <= own[q]
        /\ \A p \in 1..Len(R) :
             /\ R[p].item = Item[own[p]]
             /\ generateEnvoyVhostMatch(R[p].rc) \in Places(sets[x][own[p]])
        /\ \A j \in J : \A place \in Places(sets[x][j]) :
             \E p \in 1..Len(R) : own[p] = j /\ generateEnvoyVhostMatch(R[p].rc) = place
    BY <1>3 DEF RoutedBy
  <1>7. \A p \in 1..l : h[p] \in 1..Len(R) /\ new[p] = own[h[p]] /\ out[p] = R[h[p]]
    BY <1>4, <1>5
  <1>8. new \in [1..l -> J]
    BY <1>6, <1>7
  <1>9. \A p, q \in 1..l : p <= q => new[p] <= new[q]
    <2> SUFFICES ASSUME NEW p \in 1..l, NEW q \in 1..l, p <= q PROVE new[p] <= new[q]
      OBVIOUS
    <2>1. h[p] \in Int /\ h[q] \in Int /\ l \in Nat
      BY <1>2, <1>7
    <2>2. h[p] <= h[q]
      BY <1>5, <2>1
    <2> QED
      BY <1>6, <1>7, <2>2
  <1>10. \A p \in 1..l :
           /\ out[p].item = Item[new[p]]
           /\ generateEnvoyVhostMatch(out[p].rc) \in Places(sets[x][new[p]])
    BY <1>6, <1>7
  <1>11. ASSUME NEW j \in J, NEW place \in Places(sets[x][j])
         PROVE  \E p \in 1..l : new[p] = j /\ generateEnvoyVhostMatch(out[p].rc) = place
    <2>1. PICK q \in 1..Len(R) : own[q] = j /\ generateEnvoyVhostMatch(R[q].rc) = place
      BY <1>6
    <2>2. PICK p \in 1..l : h[p] = q
      BY <1>5
    <2> QED
      BY <1>7, <2>1, <2>2
  <1> HIDE DEF new
  <1>12. RoutedBy(new, out, x, J, Item)
    BY <1>8, <1>9, <1>10, <1>11, Zenon DEF RoutedBy
  <1>13. out \in Seq(ToSet(out))
    <2>1. Len(out) \in Nat /\ DOMAIN out = 1..Len(out) /\ out = [p \in 1..Len(out) |-> out[p]]
      BY <1>2
    <2>2. \A p \in 1..Len(out) : out[p] \in ToSet(out)
      BY <2>1 DEF ToSet
    <2> QED
      BY <2>1, <2>2
  <1> QED
    BY <1>12, <1>13 DEF Routed, out

-----------------------------------------------------------------------------
(* Patches.                                                                 *)

(* A group of GroupByRoute.                                                 *)
Group(R, name) == Pick(R, {i \in DOMAIN R : genVhostRouteName(R[i].rc) = name})

GroupPatch(R, name) ==
  [match |-> generateEnvoyVhostMatch(Group(R, name)[1].rc),
   items |-> [i \in DOMAIN Group(R, name) |-> Group(R, name)[i].item]]

(* GroupByRoute in these terms.                                             *)
LEMMA GroupByRoutePatches ==
  ASSUME NEW R
  PROVE  GroupByRoute(R) =
           {GroupPatch(R, name) : name \in {genVhostRouteName(R[i].rc) : i \in DOMAIN R}}
  BY Zenon DEF GroupByRoute, GroupPatch, Group, Filter

(* The patch of a vhost and route has the match of the first entry there,   *)
(* and the items of all of them.                                            *)
LEMMA GroupHolds ==
  ASSUME NEW R, R \in Seq(ToSet(R)), NEW p \in 1..Len(R)
  PROVE  LET name == genVhostRouteName(R[p].rc)
             g == GroupPatch(R, name)
         IN  /\ g \in GroupByRoute(R)
             /\ R[p].item \in ToSet(g.items)
             /\ \E q \in 1..Len(R) :
                  /\ genVhostRouteName(R[q].rc) = name
                  /\ g.match = generateEnvoyVhostMatch(R[q].rc)
                  /\ \A k \in 1..Len(R) : genVhostRouteName(R[k].rc) = name => q <= k
  <1> DEFINE name == genVhostRouteName(R[p].rc)
             K == {i \in DOMAIN R : genVhostRouteName(R[i].rc) = name}
             out == Group(R, name)
             g == GroupPatch(R, name)
  <1>1. DOMAIN R = 1..Len(R) /\ Len(R) \in Nat
    OBVIOUS
  <1>2. g \in GroupByRoute(R)
    BY <1>1, GroupByRoutePatches
  <1>3. out \in Seq(ToSet(R)) /\ Selects(out, R, K)
    BY <1>1, PickSelects DEF Group
  <1>4. PICK h : Enumerates(h, Len(out), K) /\ \A a \in 1..Len(out) : out[a] = R[h[a]]
    BY <1>3 DEF Selects
  <1>5. g.match = generateEnvoyVhostMatch(out[1].rc) /\ g.items = [i \in DOMAIN out |-> out[i].item]
    BY DEF GroupPatch
  <1> HIDE DEF out, g, name
  <1>6. /\ h \in [1..Len(out) -> K]
        /\ \A a, b \in 1..Len(out) : a < b => h[a] < h[b]
        /\ \A k \in K : \E a \in 1..Len(out) : h[a] = k
    BY <1>4 DEF Enumerates
  <1>7. p \in K
    BY <1>1 DEF name
  <1>8. PICK a \in 1..Len(out) : h[a] = p
    BY <1>6, <1>7
  <1>9. DOMAIN out = 1..Len(out) /\ Len(out) \in Nat
    BY <1>3
  <1>10. R[p].item \in ToSet(g.items)
    <2>1. out[a].item = R[p].item
      BY <1>4, <1>8
    <2> QED
      BY <1>5, <1>8, <1>9, <2>1 DEF ToSet
  <1>11. 1 \in 1..Len(out)
    BY <1>8, <1>9
  <1>12. h[1] \in K /\ h[1] \in 1..Len(R) /\ genVhostRouteName(R[h[1]].rc) = name
    BY <1>1, <1>6, <1>11
  <1>13. g.match = generateEnvoyVhostMatch(R[h[1]].rc)
    BY <1>4, <1>5, <1>11
  <1>14. ASSUME NEW k \in 1..Len(R), genVhostRouteName(R[k].rc) = name PROVE h[1] <= k
    <2>1. k \in K
      BY <1>1, <1>14
    <2>2. PICK b \in 1..Len(out) : h[b] = k
      BY <1>6, <2>1
    <2>3. b = 1 \/ 1 < b
      BY <1>9
    <2>4. h[1] \in Int /\ k \in Int
      BY <1>12
    <2> QED
      BY <1>6, <1>11, <2>2, <2>3, <2>4
  <1> QED
    BY <1>2, <1>10, <1>12, <1>13, <1>14 DEF g, name

(* Patches hold nothing else.                                               *)
LEMMA GroupOnly ==
  ASSUME NEW R, R \in Seq(ToSet(R)), NEW g \in GroupByRoute(R), NEW b \in ToSet(g.items)
  PROVE  \E p, q \in 1..Len(R) :
           /\ b = R[p].item
           /\ genVhostRouteName(R[q].rc) = genVhostRouteName(R[p].rc)
           /\ g.match = generateEnvoyVhostMatch(R[q].rc)
           /\ \A k \in 1..Len(R) :
                genVhostRouteName(R[k].rc) = genVhostRouteName(R[p].rc) => q <= k
  <1>1. DOMAIN R = 1..Len(R) /\ Len(R) \in Nat
    OBVIOUS
  <1>2. PICK name : g = GroupPatch(R, name)
    BY GroupByRoutePatches
  <1> DEFINE K == {i \in DOMAIN R : genVhostRouteName(R[i].rc) = name}
             out == Group(R, name)
  <1>3. out \in Seq(ToSet(R)) /\ Selects(out, R, K)
    BY <1>1, PickSelects DEF Group
  <1>4. g.items = [i \in DOMAIN out |-> out[i].item]
    BY <1>2 DEF GroupPatch
  <1>5. PICK h : Enumerates(h, Len(out), K) /\ \A a \in 1..Len(out) : out[a] = R[h[a]]
    BY <1>3 DEF Selects
  <1> HIDE DEF out
  <1>6. DOMAIN out = 1..Len(out)
    BY <1>3
  <1>7. PICK a \in 1..Len(out) : b = out[a].item
    BY <1>4, <1>6 DEF ToSet
  <1>8. h[a] \in 1..Len(R) /\ genVhostRouteName(R[h[a]].rc) = name
    BY <1>1, <1>5 DEF Enumerates
  <1> DEFINE p == h[a]
  <1>9. \E q \in 1..Len(R) :
          /\ genVhostRouteName(R[q].rc) = name
          /\ g.match = generateEnvoyVhostMatch(R[q].rc)
          /\ \A k \in 1..Len(R) : genVhostRouteName(R[k].rc) = name => q <= k
    BY <1>2, <1>8, GroupHolds, Zenon
  <1>10. b = R[p].item
    BY <1>5, <1>7
  <1> HIDE DEF p
  <1> QED
    BY <1>8, <1>9, <1>10 DEF p

(* The item of a descriptor is in a patch of each of its places at which    *)
(* the first descriptor of the group agrees on the context.                 *)
LEMMA PatchAt ==
  ASSUME NEW x, NEW J \in SUBSET Int, \A j \in J : sets[x][j] \in Descriptors,
         NEW Item, NEW R, Routed(R, x, J, Item),
         NEW i \in J, NEW place \in Places(sets[x][i]), FirstAgrees(x, J, place)
  PROVE  \E g \in GroupByRoute(R) : g.match = place /\ Item[i] \in ToSet(g.items)
  <1>1. R \in Seq(ToSet(R))
    BY DEF Routed
  <1>2. PICK own : RoutedBy(own, R, x, J, Item)
    BY DEF Routed
  <1>3. /\ own \in [1..Len(R) -> J]
        /\ \A p, q \in 1..Len(R) : p <= q => own[p] <= own[q]
        /\ \A p \in 1..Len(R) :
             /\ R[p].item = Item[own[p]]
             /\ generateEnvoyVhostMatch(R[p].rc) \in Places(sets[x][own[p]])
        /\ \A j \in J : \A pl \in Places(sets[x][j]) :
             \E p \in 1..Len(R) : own[p] = j /\ generateEnvoyVhostMatch(R[p].rc) = pl
    BY <1>2 DEF RoutedBy
  <1>4. PICK p \in 1..Len(R) : own[p] = i /\ generateEnvoyVhostMatch(R[p].rc) = place
    BY <1>3
  <1> DEFINE name == genVhostRouteName(R[p].rc)
             g == GroupPatch(R, name)
             m(k) == generateEnvoyVhostMatch(R[k].rc)
  <1>5. /\ g \in GroupByRoute(R)
        /\ R[p].item \in ToSet(g.items)
        /\ \E q \in 1..Len(R) :
             /\ genVhostRouteName(R[q].rc) = name
             /\ g.match = m(q)
             /\ \A k \in 1..Len(R) : genVhostRouteName(R[k].rc) = name => q <= k
    BY <1>1, GroupHolds, Zenon
  <1>6. PICK q \in 1..Len(R) :
             /\ genVhostRouteName(R[q].rc) = name
             /\ g.match = m(q)
             /\ \A k \in 1..Len(R) : genVhostRouteName(R[k].rc) = name => q <= k
    BY <1>5
  <1>7. \A k, l \in 1..Len(R) : genVhostRouteName(R[k].rc) = genVhostRouteName(R[l].rc)
                                  <=> SameRoute(m(k), m(l))
    BY DEF genVhostRouteName, SameRoute, generateEnvoyVhostMatch
  <1>8. \A k \in 1..Len(R) : genVhostRouteName(R[k].rc) = name <=> SameRoute(m(k), place)
    BY <1>4, <1>7
  <1> HIDE DEF g, m, name
  <1>9. m(q) \in Places(sets[x][own[q]]) /\ SameRoute(m(q), place) /\ own[q] \in J
    BY <1>3, <1>6, <1>8 DEF m
  <1>10. own[q] \in InGroup(x, J, place)
    BY <1>9 DEF InGroup
  <1>11. ASSUME NEW k \in InGroup(x, J, place) PROVE own[q] <= k
    <2>1. PICK pl \in Places(sets[x][k]) : SameRoute(pl, place)
      BY DEF InGroup
    <2>2. k \in J
      BY DEF InGroup
    <2>3. PICK r \in 1..Len(R) : own[r] = k /\ m(r) = pl
      BY <1>3, <2>2 DEF m
    <2>4. q <= r
      BY <1>6, <1>8, <2>1, <2>3
    <2> QED
      BY <1>3, <2>3, <2>4
  <1>12. place \in Places(sets[x][own[q]])
    BY <1>10, <1>11 DEF FirstAgrees
  <1>13. m(q) = place
    <2>1. sets[x][own[q]] \in Descriptors
      BY <1>9
    <2>2. \A a, b \in Places(sets[x][own[q]]) : SameRoute(a, b) => a = b
      BY <2>1, RouteConfigsPlaces, Zenon
    <2> QED
      BY <1>9, <1>12, <2>2
  <1>14. Item[i] \in ToSet(g.items)
    BY <1>3, <1>4, <1>5
  <1> QED
    BY <1>5, <1>6, <1>13, <1>14

(* No patch holds another item, nor one at another route; the first         *)
(* descriptor of a group names the place of its patch.                      *)
LEMMA PatchOnly ==
  ASSUME NEW x, NEW J \in SUBSET Int, NEW Item, NEW R, Routed(R, x, J, Item),
         NEW g \in GroupByRoute(R), NEW b \in ToSet(g.items)
  PROVE  \E i \in InGroup(x, J, g.match) : b = Item[i] /\ FirstAgrees(x, J, g.match)
  <1>1. R \in Seq(ToSet(R))
    BY DEF Routed
  <1>2. PICK own : RoutedBy(own, R, x, J, Item)
    BY DEF Routed
  <1> DEFINE m(k) == generateEnvoyVhostMatch(R[k].rc)
             place == g.match
  <1>3. /\ own \in [1..Len(R) -> J]
        /\ \A p, q \in 1..Len(R) : p <= q => own[p] <= own[q]
        /\ \A p \in 1..Len(R) : R[p].item = Item[own[p]] /\ m(p) \in Places(sets[x][own[p]])
        /\ \A j \in J : \A pl \in Places(sets[x][j]) :
             \E p \in 1..Len(R) : own[p] = j /\ m(p) = pl
    BY <1>2 DEF RoutedBy
  <1>4. PICK p \in 1..Len(R), q \in 1..Len(R) :
          /\ b = R[p].item
          /\ genVhostRouteName(R[q].rc) = genVhostRouteName(R[p].rc)
          /\ place = m(q)
          /\ \A k \in 1..Len(R) :
               genVhostRouteName(R[k].rc) = genVhostRouteName(R[p].rc) => q <= k
    BY <1>1, GroupOnly, Zenon
  <1>5. \A k, l \in 1..Len(R) : genVhostRouteName(R[k].rc) = genVhostRouteName(R[l].rc)
                                  <=> SameRoute(m(k), m(l))
    BY DEF genVhostRouteName, SameRoute, generateEnvoyVhostMatch
  <1>6. \A u, v : SameRoute(u, v) <=> SameRoute(v, u)
    BY DEF SameRoute
  <1> HIDE DEF m, place
  <1>7. SameRoute(m(p), place) /\ SameRoute(place, place)
    BY <1>4, <1>5
  <1>8. \A k \in 1..Len(R) : SameRoute(m(k), place) => q <= k
    BY <1>4, <1>5
  <1>9. own[p] \in InGroup(x, J, place) /\ own[q] \in InGroup(x, J, place)
    BY <1>3, <1>4, <1>7 DEF InGroup
  <1>10. FirstAgrees(x, J, place)
    <2> SUFFICES ASSUME NEW j \in InGroup(x, J, place), \A k \in InGroup(x, J, place) : j <= k
                 PROVE  place \in Places(sets[x][j])
      BY DEF FirstAgrees
    <2>1. PICK pl \in Places(sets[x][j]) : SameRoute(pl, place)
      BY DEF InGroup
    <2>2. j \in J /\ j <= own[q]
      <3>1. j <= own[q]
        BY <1>9
      <3> QED
        BY <3>1 DEF InGroup
    <2>3. PICK r \in 1..Len(R) : own[r] = j /\ m(r) = pl
      BY <1>3, <2>1, <2>2
    <2>4. own[q] <= j
      BY <1>3, <1>8, <2>1, <2>3
    <2>5. own[q] = j
      <3>1. own[q] \in J /\ j \in J
        BY <1>3, <2>2
      <3>2. own[q] \in Int /\ j \in Int
        BY <3>1
      <3> QED
        BY <2>2, <2>4, <3>2
    <2> QED
      BY <1>3, <1>4, <2>5
  <1>11. b = Item[own[p]]
    BY <1>3, <1>4
  <1> QED
    BY <1>9, <1>10, <1>11 DEF place

-----------------------------------------------------------------------------
(* The actions and buckets of a set.                                        *)

ActionOf(x) ==
  [j \in InForce(x) |-> generateRouteRateLimitAction(Resolve(sets[x][j], material), Loc)]

BucketOf(x) ==
  [j \in InForce(x) |-> generateLocalRateLimitDescriptors(Resolve(sets[x][j], material), Loc)]

Locals(x) == {j \in InForce(x) : ~IsGlobal(sets[x][j])}
Globals(x) == {j \in InForce(x) : IsGlobal(sets[x][j])}

(* No record of the translation is mistaken for a missing one.              *)
NilApart ==
  /\ \A entry, headers : Nil # [entry |-> entry, headers |-> headers]
  /\ \A contexts : Nil # [contexts |-> contexts]
  /\ \A contexts, config : Nil # [contexts |-> contexts, config |-> config]
  /\ \A selector, routes, globalFilter, localFilter, perRoute :
       Nil # [selector |-> selector, routes |-> routes, globalFilter |-> globalFilter,
              localFilter |-> localFilter, perRoute |-> perRoute]

(* The route patches of a set are the groups of the actions in force.       *)
LEMMA RoutePatches ==
  ASSUME NilApart, SpecTyped, NEW x \in SetName, NEW W, ResolvesTo(W, x, InForce(x))
  PROVE  \E R : Routed(R, x, InForce(x), ActionOf(x))
                /\ generateHttpRouterPatch(W, Loc) = GroupByRoute(R)
  <1> DEFINE J == InForce(x)
             Item == ActionOf(x)
  <1>1. W \in Seq(Resolved) /\ DOMAIN W = 1..Len(W)
    BY DEF ResolvesTo
  <1>2. PICK f : ResolvesBy(f, W, x, J)
    BY DEF ResolvesTo
  <1>3. f \in [1..Len(W) -> J] /\ \A a \in 1..Len(W) : W[a] = Resolve(sets[x][f[a]], material)
    BY <1>2 DEF ResolvesBy, Enumerates
  <1>4. J \in SUBSET Int /\ \A j \in J : sets[x][j] \in Descriptors
    BY AppliesInForce
  <1> DEFINE items == [a \in 1..Len(W) |-> Item[f[a]]]
             R == FlattenSeq(Rows(W, items))
  <1>5. Routed(R, x, J, Item)
    <2> HIDE DEF Item, J
    <2> QED
      BY <1>1, <1>2, <1>4, RowsRouted
  <1>6. PerRoute(W, LAMBDA d : generateRouteRateLimitAction(d, Loc)) = R
    <2>1. \A a \in DOMAIN W : items[a] = generateRouteRateLimitAction(W[a], Loc)
      BY <1>1, <1>3 DEF ActionOf
    <2> HIDE DEF items
    <2>2. Rows(W, items) =
            [i \in DOMAIN W |->
              LET rcs == generateRouteConfigs(W[i].target)
              IN  [j \in DOMAIN rcs |->
                    [rc |-> rcs[j], item |-> generateRouteRateLimitAction(W[i], Loc)]]]
      BY <2>1 DEF Rows
    <2> QED
      BY <2>2, Zenon DEF PerRoute
  <1>7. \A j \in J : Item[j] # Nil
    BY DEF NilApart, ActionOf, generateRouteRateLimitAction, Resolve
  <1> HIDE DEF R, Item
  <1>8. \A p \in DOMAIN R : R[p].item # Nil
    <2>1. DOMAIN R = 1..Len(R)
      BY <1>5 DEF Routed
    <2> QED
      BY <2>1, <1>5, <1>7 DEF Routed, RoutedBy
  <1>9. generateHttpRouterPatch(W, Loc) =
          GroupByRoute(Pick(R, {i \in DOMAIN R : R[i].item # Nil}))
    BY <1>6, Zenon DEF generateHttpRouterPatch, Filter
  <1>10. {i \in DOMAIN R : R[i].item # Nil} = DOMAIN R
    BY <1>8
  <1>11. Routed(Pick(R, DOMAIN R), x, J, Item)
    BY <1>4, <1>5, KeptRouted
  <1> QED
    BY <1>9, <1>10, <1>11 DEF Item

(* The per-route patches are the groups of the buckets of the local ones.   *)
LEMMA BucketPatches ==
  ASSUME SpecTyped, NEW x \in SetName, NEW W, ResolvesTo(W, x, Locals(x))
  PROVE  \E R : /\ Routed(R, x, Locals(x), BucketOf(x))
                /\ generateLocalRateLimitPerFilterPatch(W, Loc) =
                     {generatePerFilterPatch(g) : g \in GroupByRoute(R)}
  <1> DEFINE J == Locals(x)
             Item == BucketOf(x)
  <1>1. W \in Seq(Resolved) /\ DOMAIN W = 1..Len(W)
    BY DEF ResolvesTo
  <1>2. PICK f : ResolvesBy(f, W, x, J)
    BY DEF ResolvesTo
  <1>3. f \in [1..Len(W) -> J] /\ \A a \in 1..Len(W) : W[a] = Resolve(sets[x][f[a]], material)
    BY <1>2 DEF ResolvesBy, Enumerates
  <1>4. J \in SUBSET Int /\ J \subseteq InForce(x) /\ \A j \in J : sets[x][j] \in Descriptors
    BY AppliesInForce DEF Locals
  <1> DEFINE items == [a \in 1..Len(W) |-> Item[f[a]]]
             R == FlattenSeq(Rows(W, items))
  <1>5. Routed(R, x, J, Item)
    <2> HIDE DEF Item, J
    <2> QED
      BY <1>1, <1>2, <1>4, RowsRouted
  <1>6. PerRoute(W, LAMBDA d : generateLocalRateLimitDescriptors(d, Loc)) = R
    <2>1. \A a \in DOMAIN W : items[a] = generateLocalRateLimitDescriptors(W[a], Loc)
      BY <1>1, <1>3, <1>4 DEF BucketOf
    <2> HIDE DEF items
    <2>2. Rows(W, items) =
            [i \in DOMAIN W |->
              LET rcs == generateRouteConfigs(W[i].target)
              IN  [j \in DOMAIN rcs |->
                    [rc |-> rcs[j], item |-> generateLocalRateLimitDescriptors(W[i], Loc)]]]
      BY <2>1 DEF Rows
    <2> QED
      BY <2>2, Zenon DEF PerRoute
  <1>7. generateLocalRateLimitPerFilterPatch(W, Loc) =
          {generatePerFilterPatch(g) : g \in GroupByRoute(R)}
    <2> HIDE DEF R
    <2> QED
      BY <1>6, Zenon DEF generateLocalRateLimitPerFilterPatch
  <1> QED
    BY <1>5, <1>7

-----------------------------------------------------------------------------
(* Quotas, headers and rules.                                               *)

(* A resolved quota is the one the spec stands for, and is cut to uint32.   *)
LEMMA QuotaResolved ==
  ASSUME SpecTyped, NEW x \in SetName, NEW i \in InForce(x)
  PROVE  LET d == sets[x][i]
             r == Resolve(d, material)
         IN  /\ d \in Descriptors
             /\ r.action.quota = Quota(d)
             /\ r.action.interval = d.action.interval
             /\ r.match = d.match
             /\ r.custom = Nil
             /\ QuotaFits(d) => uint32(r.action.quota) = Quota(d)
  <1> DEFINE d == sets[x][i]
             r == Resolve(d, material)
  <1>1. d \in Descriptors
    BY AppliesInForce
  <1>2. d.action # Nil /\ QuotaKnown(d.action.quota)
    BY DEF InForce
  <1>3. d.action.quota.per \in Keys \cup {Nil}
    BY <1>1, <1>2, SemanticsAssumption
  <1>4. /\ r.action.quota = CalculateTemplate(d.action.quota, material)
        /\ r.action.interval = d.action.interval /\ r.match = d.match /\ r.custom = Nil
    BY DEF Resolve
  <1>7. r.action.quota = Quota(d)
    <2>1. CASE d.action.quota.per = Nil
      <3>1. CalculateTemplate(d.action.quota, material) = d.action.quota.total
        BY <2>1 DEF CalculateTemplate
      <3>2. Quota(d) = d.action.quota.total \div 1
        BY <2>1 DEF Quota
      <3>3. d.action.quota.total \in Int
        BY <1>1, <1>2, SemanticsAssumption
      <3>4. \A n \in Int : n \div 1 = n
        OBVIOUS
      <3> QED
        BY <1>4, <3>1, <3>2, <3>3, <3>4
    <2>2. CASE d.action.quota.per # Nil
      <3>1. d.action.quota.per \in Keys /\ metrics[d.action.quota.per] # Nil
        BY <1>2, <1>3, <2>2 DEF QuotaKnown
      <3>2. material[d.action.quota.per] = metrics[d.action.quota.per]
        BY <3>1 DEF material
      <3> QED
        BY <1>4, <2>2, <3>2 DEF CalculateTemplate, Quota
    <2> QED
      BY <2>1, <2>2
  <1>8. QuotaFits(d) => uint32(r.action.quota) = Quota(d)
    <2>1. \A n \in 0..(Uint32Size - 1) : n % Uint32Size = n
      BY SizeAssumption
    <2> HIDE DEF r, d
    <2> QED
      BY <1>7, <2>1 DEF QuotaFits, uint32
  <1> QED
    BY <1>1, <1>4, <1>7, <1>8

(* The matcher that is generated asks for what was written.                 *)
LEMMA HeaderAsAsked ==
  ASSUME NEW m
  PROVE  MatchesAsAsked([name |-> m.name, invert |-> m.invert, how |-> HeaderMatchSpecifier(m)], m)
  <1> DEFINE ps == {<<"safe_regex", m.regex>>, <<"exact", m.exact>>,
                    <<"prefix", m.prefix>>, <<"suffix", m.suffix>>}
  <1>1. /\ m.regex # "" => <<"safe_regex", m.regex>> \in Patterns(m)
        /\ m.exact # "" => <<"exact", m.exact>> \in Patterns(m)
        /\ m.prefix # "" => <<"prefix", m.prefix>> \in Patterns(m)
        /\ m.suffix # "" => <<"suffix", m.suffix>> \in Patterns(m)
    BY DEF Patterns
  <1>2. (/\ m.regex = "" /\ m.exact = "" /\ m.prefix = "" /\ m.suffix = "") => Patterns(m) = {}
    <2> SUFFICES ASSUME m.regex = "", m.exact = "", m.prefix = "", m.suffix = "",
                        NEW p \in Patterns(m)
                 PROVE  FALSE
      OBVIOUS
    <2>1. p \in ps /\ p[2] # ""
      BY DEF Patterns
    <2>2. \/ p = <<"safe_regex", m.regex>> \/ p = <<"exact", m.exact>>
          \/ p = <<"prefix", m.prefix>> \/ p = <<"suffix", m.suffix>>
      BY <2>1
    <2>3. ASSUME NEW how, NEW text, p = <<how, text>> PROVE text # ""
      BY <2>1, <2>3
    <2> QED
      BY <2>2, <2>3, Zenon
  <1>3. CASE m.regex # ""
    BY <1>1, <1>3 DEF MatchesAsAsked, HeaderMatchSpecifier, generateSafeRegexMatch
  <1>4. CASE m.regex = "" /\ m.exact # ""
    BY <1>1, <1>4 DEF MatchesAsAsked, HeaderMatchSpecifier, generateExactMatch
  <1>5. CASE m.regex = "" /\ m.exact = "" /\ m.prefix # ""
    BY <1>1, <1>5 DEF MatchesAsAsked, HeaderMatchSpecifier, generatePrefixMatch
  <1>6. CASE m.regex = "" /\ m.exact = "" /\ m.prefix = "" /\ m.suffix # ""
    BY <1>1, <1>6 DEF MatchesAsAsked, HeaderMatchSpecifier, generateSuffixMatch
  <1>7. CASE m.regex = "" /\ m.exact = "" /\ m.prefix = "" /\ m.suffix = ""
    BY <1>2, <1>7 DEF MatchesAsAsked, HeaderMatchSpecifier, generateExactMatch, generatePresentMatch
  <1> QED
    BY <1>3, <1>4, <1>5, <1>6, <1>7

(* The action of a descriptor: its entry, and all its headers.              *)
LEMMA ActionAsAsked ==
  ASSUME SpecTyped, NEW x \in SetName, NEW i \in InForce(x)
  PROVE  LET d == sets[x][i]
             r == Resolve(d, material)
             a == ActionOf(x)[i]
         IN  /\ a.entry = [key |-> DescriptorKey(r), value |-> generateDescriptorValue(r, Loc)]
             /\ Len(a.headers) = Len(d.match)
             /\ \A k \in DOMAIN d.match : MatchesAsAsked(a.headers[k], d.match[k])
  <1> DEFINE d == sets[x][i]
             r == Resolve(d, material)
             a == ActionOf(x)[i]
             header(m) == [name |-> m.name, invert |-> m.invert, how |-> HeaderMatchSpecifier(m)]
  <1>1. d \in Descriptors /\ r.match = d.match /\ r.custom = Nil
    BY QuotaResolved
  <1>2. a = generateRouteRateLimitAction(r, Loc)
    BY DEF ActionOf
  <1> HIDE DEF r, a, d
  <1>3. a = [entry |-> DescriptorEntry(r, Loc),
             headers |-> [k \in DOMAIN r.match |-> header(r.match[k])]]
    BY <1>1, <1>2 DEF generateRouteRateLimitAction
  <1>4. /\ a.entry = [key |-> DescriptorKey(r), value |-> generateDescriptorValue(r, Loc)]
        /\ a.headers = [k \in DOMAIN d.match |-> header(d.match[k])]
    BY <1>1, <1>3 DEF DescriptorEntry
  <1>5. d.match \in Seq(ToSet(d.match))
    BY <1>1, SemanticsAssumption
  <1>6. \A k \in DOMAIN d.match : MatchesAsAsked(header(d.match[k]), d.match[k])
    BY HeaderAsAsked
  <1> HIDE DEF header
  <1>7. Len(a.headers) = Len(d.match)
    BY <1>4, <1>5
  <1> QED
    BY <1>4, <1>6, <1>7 DEF r, a, d

-----------------------------------------------------------------------------
(* The configuration, set by set.                                           *)

Valid(x) == validDescriptor(sets[x], material)
SetSeq == Append(Subsets, Base)
RulesOf(x) == descriptorsToGlobalRateLimit(Valid(x), Loc)

(* GenerateEnvoyConfigs in these terms: an EnvoyFilter for every set with   *)
(* descriptors in force, and the rules of all sets.                         *)
LEMMA ConfigParts ==
  ASSUME SpecTyped
  PROVE  /\ \A x \in SetName :
              Config.efs[x] = IF Valid(x) # <<>> THEN descriptorsToEnvoyFilter(Valid(x), x, Loc, "")
                                                 ELSE Nil
         /\ Config.gdesc = FlattenSeq([i \in DOMAIN SetSeq |-> RulesOf(SetSeq[i])])
         /\ SetSeq \in Seq(SetName)
         /\ \A x \in SetName : \E i \in 1..Len(SetSeq) : SetSeq[i] = x
  <1> DEFINE policy == [sets |-> sets, rls |-> ""]
             valid == [x \in ToSet(SetSeq) |-> IF x \in DOMAIN policy.sets
                                               THEN validDescriptor(policy.sets[x], material)
                                               ELSE <<>>]
             live == {x \in ToSet(SetSeq) : valid[x] # <<>>}
  <1>1. /\ Subsets \in Seq(ToSet(Subsets)) /\ Len(Subsets) \in Nat
        /\ DOMAIN Subsets = 1..Len(Subsets)
    BY SemanticsAssumption
  <1>2. /\ Len(SetSeq) = Len(Subsets) + 1 /\ DOMAIN SetSeq = 1..(Len(Subsets) + 1)
        /\ \A i \in 1..Len(Subsets) : SetSeq[i] = Subsets[i]
        /\ SetSeq[Len(Subsets) + 1] = Base
    BY <1>1 DEF SetSeq
  <1>3. SetSeq \in Seq(SetName)
    <2>1. Subsets \in Seq(SetName)
      <3>1. \A i \in 1..Len(Subsets) : Subsets[i] \in SetName
        BY <1>1 DEF SetName, ToSet
      <3> QED
        BY <1>1, <3>1
    <2>2. Base \in SetName
      BY DEF SetName
    <2> HIDE DEF SetName, Base
    <2> QED
      BY <2>1, <2>2 DEF SetSeq
  <1>4. ASSUME NEW x \in SetName PROVE \E i \in 1..Len(SetSeq) : SetSeq[i] = x
    <2>1. CASE x = Base
      BY <1>1, <1>2, <2>1
    <2>2. CASE x \in ToSet(Subsets)
      <3>1. PICK i \in 1..Len(Subsets) : Subsets[i] = x
        BY <1>1, <2>2 DEF ToSet
      <3> QED
        BY <1>1, <1>2, <3>1
    <2> QED
      BY <2>1, <2>2 DEF SetName
  <1>5. ToSet(SetSeq) = SetName
    <2>1. DOMAIN SetSeq = 1..Len(SetSeq)
      BY <1>1, <1>2
    <2> QED
      BY <1>3, <1>4, <2>1 DEF ToSet
  <1>6. DOMAIN policy.sets = SetName /\ policy.sets = sets /\ policy.rls = ""
    BY DEF SpecTyped
  <1>7. \A x \in SetName : valid[x] = Valid(x)
    BY <1>5, <1>6 DEF Valid
  <1>8. /\ Config.efs = [x \in ToSet(SetSeq) |->
                           IF x \in live THEN descriptorsToEnvoyFilter(valid[x], x, Loc, policy.rls)
                                         ELSE Nil]
        /\ Config.gdesc = FlattenSeq([i \in DOMAIN SetSeq |->
                                        descriptorsToGlobalRateLimit(valid[SetSeq[i]], Loc)])
    BY DEF Config, GenerateEnvoyConfigs, SetSeq
  <1> HIDE DEF valid, policy
  <1>9. ASSUME NEW x \in SetName
        PROVE  Config.efs[x] = IF Valid(x) # <<>>
                               THEN descriptorsToEnvoyFilter(Valid(x), x, Loc, "") ELSE Nil
    BY <1>5, <1>6, <1>7, <1>8
  <1>10. \A i \in DOMAIN SetSeq : descriptorsToGlobalRateLimit(valid[SetSeq[i]], Loc) = RulesOf(SetSeq[i])
    <2>1. \A i \in DOMAIN SetSeq : SetSeq[i] \in SetName
      BY <1>3
    <2> QED
      BY <1>7, <2>1 DEF RulesOf
  <1>11. Config.gdesc = FlattenSeq([i \in DOMAIN SetSeq |-> RulesOf(SetSeq[i])])
    BY <1>8, <1>10
  <1> QED
    BY <1>3, <1>4, <1>9, <1>11

(* The rule of a descriptor.                                                *)
RuleOf(x, i) == GlobalRule(Resolve(sets[x][i], material), Loc)

(* The rules of a set are those of its global descriptors, and hold all     *)
(* before the first interval that has no unit.                              *)
LEMMA RulesOfSet ==
  ASSUME SpecTyped, NEW x \in SetName
  PROVE  /\ RulesOf(x) \in Seq(ToSet(RulesOf(x)))
         /\ \A k \in 1..Len(RulesOf(x)) : \E i \in Globals(x) : RulesOf(x)[k] = RuleOf(x, i)
         /\ \A i \in Globals(x) : RuleWritten(x, i) =>
              \E k \in 1..Len(RulesOf(x)) : RulesOf(x)[k] = RuleOf(x, i)
  <1> DEFINE W == Filter(Valid(x), IsGlobal)
             out == RulesOf(x)
  <1>1. InForce(x) \in SUBSET Int
    BY AppliesInForce
  <1>2. ResolvesTo(W, x, Globals(x))
    <2>1. ResolvesTo(Valid(x), x, InForce(x))
      BY ValidResolves DEF Valid
    <2>2. ResolvesTo(Filter(Valid(x), IsGlobal), x, {j \in InForce(x) : IsGlobal(sets[x][j])})
      BY <1>1, <2>1, StrategyResolves
    <2> QED
      BY <2>2 DEF Globals
  <1>3. out = generateGlobalRateLimitDescriptor(W, Loc)
    BY DEF RulesOf, descriptorsToGlobalRateLimit
  <1> HIDE DEF W
  <1>4. W \in Seq(Resolved) /\ Len(W) \in Nat
    BY <1>2 DEF ResolvesTo
  <1>5. PICK f : ResolvesBy(f, W, x, Globals(x))
    BY <1>2 DEF ResolvesTo
  <1>6. /\ f \in [1..Len(W) -> Globals(x)]
        /\ \A a, b \in 1..Len(W) : a < b => f[a] < f[b]
        /\ \A j \in Globals(x) : \E a \in 1..Len(W) : f[a] = j
        /\ \A a \in 1..Len(W) : W[a] = Resolve(sets[x][f[a]], material)
    BY <1>5 DEF ResolvesBy, Enumerates
  <1>7. PICK n \in 0..Len(W) :
           /\ generateGlobalRateLimitDescriptor(W, Loc) =
                [k \in 1..n |-> GlobalRule(W[k], Loc)]
           /\ \A a \in 1..Len(W) :
                (\A l \in 1..a : W[l].action.interval \in DOMAIN Unit) => a <= n
    BY <1>4, RulesUpTo
  <1>8. out = [k \in 1..n |-> RuleOf(x, f[k])]
    <2>1. \A k \in 1..n : GlobalRule(W[k], Loc) = RuleOf(x, f[k])
      BY <1>4, <1>6 DEF RuleOf
    <2> QED
      BY <1>3, <1>7, <2>1
  <1> HIDE DEF out
  <1>9. n \in Nat /\ Len(out) = n /\ DOMAIN out = 1..n /\ \A k \in 1..n : out[k] = RuleOf(x, f[k])
    BY <1>4, <1>8
  <1>10. out \in Seq(ToSet(out))
    <2>1. \A k \in 1..n : out[k] \in ToSet(out)
      BY <1>9 DEF ToSet
    <2>2. out = [k \in 1..n |-> out[k]]
      BY <1>8
    <2> QED
      BY <1>9, <2>1, <2>2
  <1>11. \A k \in 1..Len(out) : \E i \in Globals(x) : out[k] = RuleOf(x, i)
    BY <1>4, <1>6, <1>9
  <1>12. ASSUME NEW i \in Globals(x), RuleWritten(x, i)
         PROVE  \E k \in 1..Len(out) : out[k] = RuleOf(x, i)
    <2>1. PICK a \in 1..Len(W) : f[a] = i
      BY <1>6
    <2>2. ASSUME NEW l \in 1..a PROVE W[l].action.interval \in DOMAIN Unit
      <3>1. l \in 1..Len(W)
        BY <1>4
      <3>2. f[l] \in Globals(x) /\ f[l] \in Int /\ i \in Int
        BY <1>1, <1>6, <3>1 DEF Globals
      <3>3. f[l] <= i
        BY <1>6, <2>1, <3>1, <3>2
      <3>4. sets[x][f[l]].action.interval \in DOMAIN Unit
        BY <1>12, <3>2, <3>3 DEF Globals, RuleWritten
      <3>5. W[l].action.interval = sets[x][f[l]].action.interval
        <4>1. \A d : Resolve(d, material).action.interval = d.action.interval
          BY DEF Resolve
        <4> QED
          BY <1>6, <3>1, <4>1
      <3> QED
        BY <3>4, <3>5
    <2>3. a <= n
      BY <1>7, <2>2
    <2> QED
      BY <1>9, <2>1, <2>3
  <1> QED
    BY <1>10, <1>11, <1>12 DEF out

(* The rules of the configuration are those of its sets.                    *)
LEMMA RulesOfConfig ==
  ASSUME SpecTyped
  PROVE  /\ \A r \in ToSet(Config.gdesc) : \E x \in SetName : \E i \in Globals(x) : r = RuleOf(x, i)
         /\ \A x \in SetName : \A i \in Globals(x) :
              RuleWritten(x, i) => RuleOf(x, i) \in ToSet(Config.gdesc)
  <1> DEFINE ss == [i \in DOMAIN SetSeq |-> RulesOf(SetSeq[i])]
             n == Len(SetSeq)
             S == UNION {ToSet(RulesOf(x)) : x \in SetName}
             out == FlattenSeq(ss)
  <1>1. /\ Config.gdesc = out
        /\ SetSeq \in Seq(SetName)
        /\ \A x \in SetName : \E i \in 1..n : SetSeq[i] = x
    BY ConfigParts
  <1>2. n \in Nat /\ DOMAIN SetSeq = 1..n /\ \A i \in 1..n : SetSeq[i] \in SetName
    BY <1>1
  <1>3. ASSUME NEW x \in SetName PROVE RulesOf(x) \in Seq(S)
    <2>1. RulesOf(x) \in Seq(ToSet(RulesOf(x)))
      BY RulesOfSet
    <2>2. ToSet(RulesOf(x)) \subseteq S
      OBVIOUS
    <2> HIDE DEF S
    <2> QED
      BY <2>1, <2>2
  <1> HIDE DEF S
  <1>4. ss \in Seq(Seq(S)) /\ Len(ss) = n /\ \A i \in 1..n : ss[i] = RulesOf(SetSeq[i])
    <2>1. ss = [i \in 1..n |-> ss[i]] /\ \A i \in 1..n : ss[i] = RulesOf(SetSeq[i])
      BY <1>2
    <2>2. \A i \in 1..n : ss[i] \in Seq(S)
      BY <1>2, <1>3, <2>1
    <2> HIDE DEF ss
    <2> QED
      BY <1>2, <2>1, <2>2
  <1> HIDE DEF ss
  <1>5. out \in Seq(S) /\ Flattens(out, ss, n)
    BY <1>4, FlattenSeqFlattens
  <1>p. PICK own : FlattensBy(own, out, ss, n)
    BY <1>5, Zenon DEF Flattens
  <1>6. /\ own \in [1..Len(out) -> 1..n]
        /\ \A p \in 1..Len(out) : \E j \in 1..Len(ss[own[p]]) : out[p] = ss[own[p]][j]
        /\ \A i \in 1..n : \A j \in 1..Len(ss[i]) :
             \E p \in 1..Len(out) : own[p] = i /\ out[p] = ss[i][j]
    <2> HIDE DEF out, n
    <2> QED
      BY <1>p, Zenon DEF FlattensBy
  <1> HIDE DEF out
  <1>7. DOMAIN out = 1..Len(out)
    BY <1>5
  <1>8. ASSUME NEW r \in ToSet(out) PROVE \E x \in SetName : \E i \in Globals(x) : r = RuleOf(x, i)
    <2>1. PICK p \in 1..Len(out) : r = out[p]
      BY <1>7 DEF ToSet
    <2>2. PICK j \in 1..Len(ss[own[p]]) : out[p] = ss[own[p]][j]
      BY <1>6
    <2>3. own[p] \in 1..n /\ SetSeq[own[p]] \in SetName /\ ss[own[p]] = RulesOf(SetSeq[own[p]])
      BY <1>2, <1>4, <1>6
    <2>4. \E i \in Globals(SetSeq[own[p]]) : r = RuleOf(SetSeq[own[p]], i)
      BY <2>1, <2>2, <2>3, RulesOfSet
    <2> QED
      BY <2>3, <2>4
  <1>9. ASSUME NEW x \in SetName, NEW i \in Globals(x), RuleWritten(x, i)
        PROVE  RuleOf(x, i) \in ToSet(out)
    <2>1. PICK k \in 1..Len(RulesOf(x)) : RulesOf(x)[k] = RuleOf(x, i)
      BY <1>9, RulesOfSet
    <2>2. PICK a \in 1..n : SetSeq[a] = x
      BY <1>1
    <2>k. k \in 1..Len(ss[a])
      BY <1>4, <2>1, <2>2
    <2>3. PICK p \in 1..Len(out) : own[p] = a /\ out[p] = ss[a][k]
      BY <1>6, <2>k, Zenon
    <2> QED
      BY <1>4, <1>7, <2>1, <2>2, <2>3 DEF ToSet
  <1> QED
    BY <1>1, <1>8, <1>9

-----------------------------------------------------------------------------
(* The EnvoyFilter of a set in which a descriptor is in force.              *)
LEMMA FilterOfSet ==
  ASSUME SpecTyped, NEW x \in SetName, NEW i \in InForce(x)
  PROVE  LET ef == Config.efs[x]
             locals == Filter(Valid(x), LAMBDA d : ~IsGlobal(d))
         IN  /\ NilApart => ef # Nil
             /\ ef.routes = generateHttpRouterPatch(Valid(x), Loc)
             /\ ef.perRoute = generateLocalRateLimitPerFilterPatch(locals, Loc)
             /\ IsGlobal(sets[x][i]) =>
                  ef.globalFilter = generateEnvoyHttpFilterGlobalRateLimitPatch(
                                      getRateLimiterServerCluster(""))
             /\ ~IsGlobal(sets[x][i]) => ef.localFilter = generateHttpFilterLocalRateLimitPatch
  <1> DEFINE ef == Config.efs[x]
             V == Valid(x)
             globals == Filter(Valid(x), IsGlobal)
             locals == Filter(Valid(x), LAMBDA d : ~IsGlobal(d))
  <1>1. ResolvesTo(V, x, InForce(x)) /\ InForce(x) \in SUBSET Int
    BY ValidResolves, AppliesInForce DEF Valid
  <1>2. /\ ResolvesTo(globals, x, {j \in InForce(x) : IsGlobal(sets[x][j])})
        /\ ResolvesTo(locals, x, {j \in InForce(x) : ~IsGlobal(sets[x][j])})
    BY <1>1, StrategyResolves
  <1>3. ASSUME NEW W, NEW J, ResolvesTo(W, x, J), J # {} PROVE W # <<>>
    <2>1. PICK f : ResolvesBy(f, W, x, J)
      BY <1>3 DEF ResolvesTo
    <2>2. \E a \in 1..Len(W) : TRUE
      BY <1>3, <2>1 DEF ResolvesBy, Enumerates
    <2> QED
      BY <2>2
  <1>4. V # <<>>
    BY <1>1, <1>3
  <1>5. IsGlobal(sets[x][i]) => globals # <<>>
    <2> HIDE DEF globals
    <2> QED
      BY <1>2, <1>3
  <1>6. ~IsGlobal(sets[x][i]) => locals # <<>>
    <2> HIDE DEF locals
    <2> QED
      BY <1>2, <1>3
  <1>7. ef = descriptorsToEnvoyFilter(V, x, Loc, "")
    BY <1>4, ConfigParts
  <1>8. descriptorsToEnvoyFilter(V, x, Loc, "") =
          [selector     |-> x,
           routes       |-> generateHttpRouterPatch(V, Loc),
           globalFilter |-> IF globals = <<>> THEN Nil
                            ELSE generateEnvoyHttpFilterGlobalRateLimitPatch(
                                   getRateLimiterServerCluster("")),
           localFilter  |-> IF locals = <<>> THEN Nil
                            ELSE generateHttpFilterLocalRateLimitPatch,
           perRoute     |-> generateLocalRateLimitPerFilterPatch(locals, Loc)]
    BY Zenon DEF descriptorsToEnvoyFilter
  <1> HIDE DEF V, ef, globals, locals
  <1>9. NilApart => ef # Nil
    BY <1>7, <1>8, Zenon DEF NilApart
  <1>10. /\ ef.routes = generateHttpRouterPatch(V, Loc)
         /\ ef.perRoute = generateLocalRateLimitPerFilterPatch(locals, Loc)
         /\ globals # <<>> => ef.globalFilter = generateEnvoyHttpFilterGlobalRateLimitPatch(
                                                  getRateLimiterServerCluster(""))
         /\ locals # <<>> => ef.localFilter = generateHttpFilterLocalRateLimitPatch
    <2>1. ASSUME NEW s, NEW rs, NEW gf, NEW lf, NEW ps,
                 ef = [selector |-> s, routes |-> rs, globalFilter |-> gf, localFilter |-> lf,
                       perRoute |-> ps]
          PROVE  ef.routes = rs /\ ef.perRoute = ps /\ ef.globalFilter = gf /\ ef.localFilter = lf
      BY <2>1
    <2> DEFINE gf == IF globals = <<>> THEN Nil
                     ELSE generateEnvoyHttpFilterGlobalRateLimitPatch(
                            getRateLimiterServerCluster(""))
               lf == IF locals = <<>> THEN Nil ELSE generateHttpFilterLocalRateLimitPatch
               rs == generateHttpRouterPatch(V, Loc)
               ps == generateLocalRateLimitPerFilterPatch(locals, Loc)
    <2>2. ef = [selector |-> x, routes |-> rs, globalFilter |-> gf, localFilter |-> lf,
                perRoute |-> ps]
      BY <1>7, <1>8, Zenon
    <2> HIDE DEF gf, lf, rs, ps
    <2>3. ef.routes = rs /\ ef.perRoute = ps /\ ef.globalFilter = gf /\ ef.localFilter = lf
      BY <2>1, <2>2, Zenon
    <2> QED
      BY <2>3, Zenon DEF gf, lf, rs, ps
  <1> QED
    BY <1>5, <1>6, <1>9, <1>10 DEF V, ef, globals, locals

(* The entry an action emits, and the rule or bucket that counts it.        *)
LEMMA RuleCounts ==
  ASSUME SpecTyped, NEW x \in SetName, NEW i \in InForce(x), QuotaFits(sets[x][i])
  PROVE  /\ RuleOf(x, i).key = ActionOf(x)[i].entry.key
         /\ RuleOf(x, i).value = ActionOf(x)[i].entry.value
         /\ RuleOf(x, i).limit = [requestsPerUnit |-> Quota(sets[x][i]),
                                  unit |-> Unit[sets[x][i].action.interval]]
         /\ BucketOf(x)[i].entry = ActionOf(x)[i].entry
         /\ BucketOf(x)[i].bucket = [maxTokens |-> Quota(sets[x][i]),
                                     interval |-> sets[x][i].action.interval]
  <1> DEFINE d == sets[x][i]
             r == Resolve(d, material)
             e == [key |-> DescriptorKey(r), value |-> generateDescriptorValue(r, Loc)]
  <1>1. /\ r.action.interval = d.action.interval /\ r.custom = Nil
        /\ uint32(r.action.quota) = Quota(d)
    BY QuotaResolved
  <1>2. ActionOf(x)[i].entry = e
    BY ActionAsAsked
  <1>3. RuleOf(x, i) = GlobalRule(r, Loc) /\ BucketOf(x)[i] = generateLocalRateLimitDescriptors(r, Loc)
    BY DEF RuleOf, BucketOf
  <1> HIDE DEF r, d
  <1>4. /\ GlobalRule(r, Loc).key = e.key /\ GlobalRule(r, Loc).value = e.value
        /\ GlobalRule(r, Loc).limit = [requestsPerUnit |-> uint32(r.action.quota),
                                       unit |-> Unit[r.action.interval]]
    BY DEF GlobalRule
  <1>5. /\ generateLocalRateLimitDescriptors(r, Loc).entry = e
        /\ generateLocalRateLimitDescriptors(r, Loc).bucket =
             [maxTokens |-> uint32(r.action.quota), interval |-> r.action.interval]
    BY <1>1 DEF generateLocalRateLimitDescriptors, generateTokenBucket, DescriptorEntry
  <1> HIDE DEF e
  <1> QED
    BY <1>1, <1>2, <1>3, <1>4, <1>5 DEF d

(* A descriptor in force limits the requests at the places it names.        *)
LEMMA LimitApplies ==
  ASSUME NilApart, SpecTyped, NEW x \in SetName, NEW i \in InForce(x),
         NEW place \in Places(sets[x][i]), Expressible(x, i, place)
  PROVE  LimitedBy(sets[x][i], place, Config, x)
  <1> DEFINE d == sets[x][i]
             ef == Config.efs[x]
             a == ActionOf(x)[i]
             locals == Filter(Valid(x), LAMBDA dd : ~IsGlobal(dd))
  <1>1. /\ InForce(x) \in SUBSET Int /\ \A j \in InForce(x) : sets[x][j] \in Descriptors
    BY AppliesInForce
  <1>2. ResolvesTo(Valid(x), x, InForce(x))
    BY ValidResolves DEF Valid
  <1>3. /\ ef # Nil
        /\ ef.routes = generateHttpRouterPatch(Valid(x), Loc)
        /\ ef.perRoute = generateLocalRateLimitPerFilterPatch(locals, Loc)
        /\ IsGlobal(d) => ef.globalFilter = generateEnvoyHttpFilterGlobalRateLimitPatch(
                                              getRateLimiterServerCluster(""))
        /\ ~IsGlobal(d) => ef.localFilter = generateHttpFilterLocalRateLimitPatch
    BY FilterOfSet, Zenon
  <1>4. HeadersAsAsked(a, d)
    BY ActionAsAsked, Zenon DEF HeadersAsAsked
  <1>5. QuotaFits(d) /\ FirstAgrees(x, InForce(x), place)
    BY DEF Expressible
  <1>6. a \in Emitted(ef, place)
    <2>1. PICK R : Routed(R, x, InForce(x), ActionOf(x))
                   /\ generateHttpRouterPatch(Valid(x), Loc) = GroupByRoute(R)
      BY <1>2, RoutePatches
    <2>2. \E g \in GroupByRoute(R) : g.match = place /\ ActionOf(x)[i] \in ToSet(g.items)
      BY <1>1, <1>5, <2>1, PatchAt
    <2> QED
      BY <1>3, <2>1, <2>2 DEF Emitted
  <1>7. CASE IsGlobal(d)
    <2>1. RuleWritten(x, i) /\ place.context = "SIDECAR_INBOUND"
      BY <1>7 DEF Expressible
    <2>2. i \in Globals(x)
      BY <1>7 DEF Globals
    <2>3. RuleOf(x, i) \in ToSet(Config.gdesc)
      BY <2>1, <2>2, RulesOfConfig
    <2>4. ef.globalFilter.config.domain = Domain /\ ef.globalFilter.contexts = {"SIDECAR_INBOUND"}
      <3>1. ef.globalFilter = [contexts |-> {"SIDECAR_INBOUND"},
                               config |-> [domain |-> Domain,
                                           service |-> generateRateLimitService(
                                                         getRateLimiterServerCluster(""))]]
        BY <1>3, <1>7, Zenon DEF generateEnvoyHttpFilterGlobalRateLimitPatch,
             generateEnvoyHttpFilterMatch, generateEnvoyHttpFilterRateLimitServicePatch
      <3>2. ASSUME NEW r, NEW c, NEW s, r = [contexts |-> c, config |-> [domain |-> Domain, service |-> s]]
            PROVE  r.config.domain = Domain /\ r.contexts = c
        BY <3>2
      <3> QED
        BY <3>1, <3>2, Zenon
    <2>5. ef.globalFilter # Nil
      BY <1>3, <1>7 DEF generateEnvoyHttpFilterGlobalRateLimitPatch, NilApart
    <2>6. Asks(ef.globalFilter, place)
      BY <2>1, <2>4, <2>5 DEF Asks
    <2>7. CountedGlobally(a.entry, d, ef, constructConfigMap(Config.gdesc))
      <3>1. /\ RuleOf(x, i).key = a.entry.key /\ RuleOf(x, i).value = a.entry.value
            /\ RuleOf(x, i).limit = [requestsPerUnit |-> Quota(d), unit |-> Unit[d.action.interval]]
        BY <1>5, RuleCounts
      <3>2. /\ constructConfigMap(Config.gdesc).domain = Domain
            /\ constructConfigMap(Config.gdesc).descriptors = Config.gdesc
        BY DEF constructConfigMap
      <3> HIDE DEF a, d, ef
      <3> QED
        BY <2>3, <2>4, <3>1, <3>2 DEF CountedGlobally
    <2> HIDE DEF a, d, ef
    <2>8. LimitedBy(d, place, Config, x)
      BY <1>3, <1>4, <1>6, <1>7, <2>6, <2>7, Zenon DEF LimitedBy, ef
    <2> QED
      BY <2>8 DEF d
  <1>8. CASE ~IsGlobal(d)
    <2>1. FirstAgrees(x, Locals(x), place)
      BY <1>8 DEF Expressible, Locals
    <2>2. i \in Locals(x) /\ Locals(x) \subseteq InForce(x)
      BY <1>8 DEF Locals
    <2>3. ResolvesTo(locals, x, Locals(x))
      BY <1>1, <1>2, StrategyResolves DEF Locals
    <2> HIDE DEF locals
    <2>4. PICK R : /\ Routed(R, x, Locals(x), BucketOf(x))
                   /\ generateLocalRateLimitPerFilterPatch(locals, Loc) =
                        {generatePerFilterPatch(g) : g \in GroupByRoute(R)}
      BY <2>3, BucketPatches
    <2>5. PICK g \in GroupByRoute(R) : g.match = place /\ BucketOf(x)[i] \in ToSet(g.items)
      <3>1. Locals(x) \in SUBSET Int /\ \A j \in Locals(x) : sets[x][j] \in Descriptors
        BY <1>1, <2>2
      <3> QED
        BY <2>1, <2>2, <2>4, <3>1, PatchAt
    <2> DEFINE p == generatePerFilterPatch(g)
    <2>6. p \in ef.perRoute
      BY <1>3, <2>4
    <2>7. p.match = place /\ p.items = g.items /\ p.enabled = 100 /\ p.enforced = 100
      BY <2>5 DEF generatePerFilterPatch, generateEnvoyLocalRateLimitEnabled,
                  generateEnvoyLocalRateLimitEnforced
    <2>8. /\ BucketOf(x)[i].entry = a.entry
          /\ BucketOf(x)[i].bucket = [maxTokens |-> Quota(d), interval |-> d.action.interval]
      BY <1>5, RuleCounts
    <2> HIDE DEF a, p, ef
    <2>9. CountedLocally(a.entry, d, ef, place)
      <3> HIDE DEF d
      <3> QED
        BY <2>5, <2>6, <2>7, <2>8 DEF CountedLocally
    <2>10. place.context \in {"SIDECAR_INBOUND", "SIDECAR_OUTBOUND"}
      BY DEF Places
    <2>11. Asks(ef.localFilter, place)
      <3>1. ef.localFilter = [contexts |-> {"SIDECAR_INBOUND", "SIDECAR_OUTBOUND"}]
        BY <1>3, <1>8 DEF generateHttpFilterLocalRateLimitPatch
      <3>2. ef.localFilter # Nil
        BY <3>1, Zenon DEF NilApart
      <3> QED
        BY <2>10, <3>1, <3>2 DEF Asks
    <2> HIDE DEF d
    <2>12. LimitedBy(d, place, Config, x)
      BY <1>3, <1>4, <1>6, <1>8, <2>9, <2>11, Zenon DEF LimitedBy, ef
    <2> QED
      BY <2>12 DEF d
  <1> QED
    BY <1>7, <1>8

(* Every descriptor in force limits the requests at every place it names,   *)
(* with its own quota, if the translation can express that limit: for specs *)
(* of every length, and every checksum, subset, metric and quota.           *)
THEOREM LimitsApply == NilApart => (Spec => []EveryLimitApplies)
  <1> SUFFICES ASSUME NilApart PROVE Spec => []EveryLimitApplies
    OBVIOUS
  <1>1. SpecTyped => EveryLimitApplies
    BY LimitApplies, Zenon DEF EveryLimitApplies
  <1> QED
    BY <1>1, AlwaysTyped, PTL

(* The buckets of an EnvoyFilter are those of the local descriptors in      *)
(* force.                                                                   *)
LEMMA BucketsOfFilter ==
  ASSUME SpecTyped, NEW x \in SetName, Config.efs[x] # Nil,
         NEW p \in Config.efs[x].perRoute, NEW b \in ToSet(p.items)
  PROVE  \E i \in Locals(x) : b = BucketOf(x)[i]
  <1> DEFINE locals == Filter(Valid(x), LAMBDA d : ~IsGlobal(d))
             V == Valid(x)
  <1>1. ResolvesTo(V, x, InForce(x)) /\ InForce(x) \in SUBSET Int
    BY ValidResolves, AppliesInForce DEF Valid
  <1>2. ResolvesTo(locals, x, Locals(x))
    BY <1>1, StrategyResolves DEF Locals
  <1>3. V # <<>> /\ Config.efs[x] = descriptorsToEnvoyFilter(V, x, Loc, "")
    BY ConfigParts
  <1> DEFINE ps == generateLocalRateLimitPerFilterPatch(locals, Loc)
  <1>4. Config.efs[x].perRoute = ps
    <2>1. \E s, rs, gf, lf : Config.efs[x] =
            [selector |-> s, routes |-> rs, globalFilter |-> gf, localFilter |-> lf, perRoute |-> ps]
      BY <1>3, Zenon DEF descriptorsToEnvoyFilter
    <2> HIDE DEF ps
    <2>2. PICK s, rs, gf, lf : Config.efs[x] =
            [selector |-> s, routes |-> rs, globalFilter |-> gf, localFilter |-> lf, perRoute |-> ps]
      BY <2>1
    <2> QED
      BY <2>2
  <1> HIDE DEF locals
  <1>5. PICK R : /\ Routed(R, x, Locals(x), BucketOf(x))
                 /\ ps = {generatePerFilterPatch(g) : g \in GroupByRoute(R)}
    BY <1>2, BucketPatches
  <1>6. PICK g \in GroupByRoute(R) : p = generatePerFilterPatch(g)
    BY <1>4, <1>5
  <1>7. p.items = g.items
    BY <1>6 DEF generatePerFilterPatch
  <1>8. Locals(x) \in SUBSET Int
    BY <1>1 DEF Locals
  <1> QED
    <2> HIDE DEF ps, V
    <2>1. PICK i \in InGroup(x, Locals(x), g.match) : b = BucketOf(x)[i]
      <3>1. b \in ToSet(g.items)
        BY <1>7
      <3> QED
        BY <1>5, <1>8, <3>1, PatchOnly
    <2> QED
      BY <2>1 DEF InGroup

(* The actions of an EnvoyFilter are those of descriptors in force, at the  *)
(* place the first of their group names.                                    *)
LEMMA ActionsOfFilter ==
  ASSUME NilApart, SpecTyped, NEW x \in SetName, Config.efs[x] # Nil,
         NEW place, NEW a \in Emitted(Config.efs[x], place)
  PROVE  \E i \in NamingAsGroup(x, place) : i \in InForce(x) /\ a = ActionOf(x)[i]
  <1> DEFINE V == Valid(x)
             J == InForce(x)
  <1>1. ResolvesTo(V, x, J) /\ J \in SUBSET Int
    BY ValidResolves, AppliesInForce DEF Valid
  <1>2. V # <<>>
    BY ConfigParts
  <1>3. \E j : j \in J
    <2> HIDE DEF V, J
    <2>1. PICK f : ResolvesBy(f, V, x, J)
      BY <1>1 DEF ResolvesTo
    <2>2. V \in Seq(Resolved)
      BY <1>1 DEF ResolvesTo
    <2>3. 1 \in 1..Len(V)
      BY <1>2, <2>2
    <2> QED
      BY <2>1, <2>3 DEF ResolvesBy, Enumerates
  <1>4. Config.efs[x].routes = generateHttpRouterPatch(V, Loc)
    BY <1>3, FilterOfSet, Zenon
  <1> HIDE DEF V
  <1>5. PICK R : Routed(R, x, J, ActionOf(x)) /\ generateHttpRouterPatch(V, Loc) = GroupByRoute(R)
    BY <1>1, RoutePatches
  <1>6. PICK g \in GroupByRoute(R) : g.match = place /\ a \in ToSet(g.items)
    BY <1>4, <1>5 DEF Emitted
  <1>7. PICK i \in InGroup(x, J, g.match) : a = ActionOf(x)[i] /\ FirstAgrees(x, J, g.match)
    BY <1>1, <1>5, <1>6, PatchOnly
  <1>8. i \in J
    BY <1>7 DEF InGroup
  <1>9. i \in NamingAsGroup(x, place)
    BY <1>6, <1>7 DEF NamingAsGroup
  <1> QED
    BY <1>7, <1>8, <1>9

(* Descriptors in force that mean different limits have different           *)
(* checksums.                                                               *)
NoCollisions ==
  \A x, y \in SetName : \A i \in InForce(x), j \in InForce(y) :
    LET r == Resolve(sets[x][i], material)
        s == Resolve(sets[y][j], material)
    IN  Checksum(r, Loc) = Checksum(s, Loc) => r = s

(* Then the value of an entry tells which descriptor it stands for, and     *)
(* the two have one limit.                                                  *)
LEMMA ValueTells ==
  ASSUME NoCollisions, SpecTyped, NEW x \in SetName, NEW y \in SetName,
         NEW i \in InForce(x), NEW j \in InForce(y),
         ActionOf(x)[i].entry.value = generateDescriptorValue(Resolve(sets[y][j], material), Loc)
  PROVE  /\ IsGlobal(sets[x][i]) <=> IsGlobal(sets[y][j])
         /\ RuleOf(x, i) = RuleOf(y, j)
         /\ BucketOf(x)[i] = BucketOf(y)[j]
  <1> DEFINE r == Resolve(sets[x][i], material)
             s == Resolve(sets[y][j], material)
  <1>1. /\ r.action.strategy = sets[x][i].action.strategy
        /\ s.action.strategy = sets[y][j].action.strategy
    BY DEF Resolve
  <1>2. RuleOf(x, i) = GlobalRule(r, Loc) /\ RuleOf(y, j) = GlobalRule(s, Loc)
    BY DEF RuleOf
  <1>3. /\ BucketOf(x)[i] = generateLocalRateLimitDescriptors(r, Loc)
        /\ BucketOf(y)[j] = generateLocalRateLimitDescriptors(s, Loc)
    BY DEF BucketOf
  <1>4. ActionOf(x)[i].entry = [key |-> DescriptorKey(r), value |-> generateDescriptorValue(r, Loc)]
    BY ActionAsAsked
  <1>5. Checksum(r, Loc) = Checksum(s, Loc) => r = s
    BY Zenon DEF NoCollisions
  <1> HIDE DEF r
  <1>6. generateDescriptorValue(r, Loc) = generateDescriptorValue(s, Loc)
    BY <1>4
  <1> HIDE DEF s
  <1>7. Checksum(r, Loc) = Checksum(s, Loc)
    BY <1>6 DEF generateDescriptorValue
  <1> QED
    BY <1>1, <1>2, <1>3, <1>5, <1>7 DEF IsGlobal

(* What a descriptor asks for is what its rule or its bucket limits by.     *)
LEMMA LimitOfDescriptor ==
  ASSUME SpecTyped, NEW x \in SetName, NEW i \in InForce(x)
  PROVE  /\ IsGlobal(sets[x][i]) => RuleOf(x, i).limit = LimitOf(sets[x][i])
         /\ ~IsGlobal(sets[x][i]) => BucketOf(x)[i].bucket = LimitOf(sets[x][i])
  <1> DEFINE d == sets[x][i]
             r == Resolve(d, material)
  <1>1. r.action.quota = Quota(d) /\ r.action.interval = d.action.interval
    BY QuotaResolved
  <1>2. RuleOf(x, i) = GlobalRule(r, Loc) /\ BucketOf(x)[i] = generateLocalRateLimitDescriptors(r, Loc)
    BY DEF RuleOf, BucketOf
  <1> HIDE DEF r, d
  <1>3. GlobalRule(r, Loc).limit = [requestsPerUnit |-> Quota(d) % Uint32Size,
                                    unit |-> Unit[d.action.interval]]
    BY <1>1 DEF GlobalRule, uint32
  <1>4. generateLocalRateLimitDescriptors(r, Loc).bucket =
          [maxTokens |-> Quota(d) % Uint32Size, interval |-> d.action.interval]
    BY <1>1 DEF generateLocalRateLimitDescriptors, generateTokenBucket, uint32
  <1>5. IsGlobal(d) => RuleOf(x, i).limit = LimitOf(d)
    BY <1>2, <1>3, Zenon DEF LimitOf
  <1>6. ~IsGlobal(d) => BucketOf(x)[i].bucket = LimitOf(d)
    BY <1>2, <1>4, Zenon DEF LimitOf
  <1> QED
    BY <1>5, <1>6 DEF d

(* A limit on requests that meet the action of a descriptor is the one that *)
(* descriptor asks for.                                                     *)
LEMMA LimitIsAskedFor ==
  ASSUME NoCollisions, SpecTyped, NEW x \in SetName, Config.efs[x] # Nil, NEW place,
         NEW i \in InForce(x),
         NEW limit \in Limits(ActionOf(x)[i].entry, Config.efs[x], place,
                              constructConfigMap(Config.gdesc))
  PROVE  limit = LimitOf(sets[x][i])
  <1> DEFINE e == ActionOf(x)[i].entry
             ef == Config.efs[x]
             file == constructConfigMap(Config.gdesc)
  <1>1. file.descriptors = Config.gdesc
    BY DEF constructConfigMap
  <1>2. \/ \E r \in ToSet(file.descriptors) : r.value = e.value /\ limit = r.limit
        \/ \E p \in ef.perRoute : \E b \in ToSet(p.items) : b.entry = e /\ limit = b.bucket
    <2> HIDE DEF e, ef, file
    <2>1. limit \in Limits(e, ef, place, file)
      BY DEF e, ef, file
    <2> QED
      BY <2>1 DEF Limits
  <1> HIDE DEF file
  <1>3. ASSUME NEW r \in ToSet(Config.gdesc), r.value = e.value, limit = r.limit
        PROVE  limit = LimitOf(sets[x][i])
    <2>1. PICK y \in SetName : \E j \in Globals(y) : r = RuleOf(y, j)
      BY RulesOfConfig
    <2>2. PICK j \in Globals(y) : r = RuleOf(y, j)
      BY <2>1
    <2>3. j \in InForce(y) /\ IsGlobal(sets[y][j])
      BY DEF Globals
    <2>4. r.value = generateDescriptorValue(Resolve(sets[y][j], material), Loc)
      BY <2>2 DEF RuleOf, GlobalRule
    <2>v. ActionOf(x)[i].entry.value = generateDescriptorValue(Resolve(sets[y][j], material), Loc)
      BY <1>3, <2>4
    <2>5. IsGlobal(sets[x][i]) /\ RuleOf(x, i) = RuleOf(y, j)
      BY <2>3, <2>v, ValueTells, Zenon
    <2> QED
      BY <1>3, <2>2, <2>5, LimitOfDescriptor
  <1>4. ASSUME NEW p \in ef.perRoute, NEW b \in ToSet(p.items), b.entry = e, limit = b.bucket
        PROVE  limit = LimitOf(sets[x][i])
    <2>1. PICK j \in Locals(x) : b = BucketOf(x)[j]
      BY BucketsOfFilter
    <2>2. j \in InForce(x) /\ ~IsGlobal(sets[x][j])
      BY DEF Locals
    <2>3. b.entry.value = generateDescriptorValue(Resolve(sets[x][j], material), Loc)
      <3> DEFINE s == Resolve(sets[x][j], material)
      <3>1. s.custom = Nil
        BY DEF Resolve
      <3>2. b = generateLocalRateLimitDescriptors(s, Loc)
        BY <2>1, <2>2 DEF BucketOf
      <3> HIDE DEF s
      <3>3. b.entry.value = generateDescriptorValue(s, Loc)
        BY <3>1, <3>2 DEF generateLocalRateLimitDescriptors, DescriptorEntry
      <3> QED
        BY <3>3 DEF s
    <2>v. ActionOf(x)[i].entry.value = generateDescriptorValue(Resolve(sets[x][j], material), Loc)
      BY <1>4, <2>3
    <2>e. (IsGlobal(sets[x][i]) <=> IsGlobal(sets[x][j])) /\ BucketOf(x)[i] = BucketOf(x)[j]
      BY <2>2, <2>v, ValueTells
    <2>4. ~IsGlobal(sets[x][i]) /\ BucketOf(x)[i] = BucketOf(x)[j]
      BY <2>2, <2>e
    <2> QED
      BY <1>4, <2>1, <2>4, LimitOfDescriptor
  <1> QED
    BY <1>1, <1>2, <1>3, <1>4

(* As long as checksums do not collide, nothing is limited but what a       *)
(* descriptor in force of that very set asks for, with its headers, quota   *)
(* and interval, at a place that it or the first of its group names: for    *)
(* specs of every length, and every subset, metric and quota.               *)
THEOREM NothingElseLimits == NilApart => (Spec => [](NoCollisions => NoOtherLimit))
  <1> SUFFICES ASSUME NilApart PROVE Spec => [](NoCollisions => NoOtherLimit)
    OBVIOUS
  <1>1. ASSUME SpecTyped, NoCollisions PROVE NoOtherLimit
    <2>1. ASSUME NEW x \in SetName, NEW place \in Patched(x, Config)
          PROVE  OnlyAskedFor(x, place, NamingAsGroup(x, place), Config)
      <3>1. Config.efs[x] # Nil
        BY DEF Patched
      <3>2. ASSUME NEW a \in Emitted(Config.efs[x], place),
                   NEW limit \in Limits(a.entry, Config.efs[x], place,
                                        constructConfigMap(Config.gdesc))
            PROVE  \E i \in NamingAsGroup(x, place) :
                     HeadersAsAsked(a, sets[x][i]) /\ limit = LimitOf(sets[x][i])
        <4>1. PICK i \in NamingAsGroup(x, place) : i \in InForce(x) /\ a = ActionOf(x)[i]
          BY <1>1, <3>1, ActionsOfFilter
        <4>2. HeadersAsAsked(a, sets[x][i])
          BY <1>1, <4>1, ActionAsAsked, Zenon DEF HeadersAsAsked
        <4>3. limit = LimitOf(sets[x][i])
          BY <1>1, <3>1, <4>1, LimitIsAskedFor, Zenon
        <4> QED
          BY <4>1, <4>2, <4>3
      <3> QED
        BY <3>2, Zenon DEF OnlyAskedFor
    <2> QED
      BY <2>1, Zenon DEF NoOtherLimit
  <1>2. SpecTyped => (NoCollisions => NoOtherLimit)
    BY <1>1
  <1> QED
    BY <1>2, AlwaysTyped, PTL
=============================================================================
