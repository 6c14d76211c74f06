----------------------------- MODULE RuleProofs -----------------------------
(***************************************************************************)
(* The rules the translation sends to the rate limit service, for policies *)
(* and metrics of any kind.                                                *)
(***************************************************************************)
EXTENDS EnvoyConfigs, SeqFilterProofs

(* The rules of global descriptors: one for each up to the first   *)
(* interval the RLS has no unit for.                                        *)
LEMMA RulesUpTo ==
  ASSUME NEW S, NEW W \in Seq(S), NEW loc
  PROVE  \E n \in 0..Len(W) :
           /\ generateGlobalRateLimitDescriptor(W, loc) =
                [k \in 1..n |-> GlobalRule(W[k], loc)]
           /\ \A a \in 1..Len(W) :
                (\A l \in 1..a : W[l].action.interval \in DOMAIN Unit) => a <= n
  <1> DEFINE I == {k \in 1..Len(W) : W[k].action.interval \notin DOMAIN Unit}
             bad == IF I # {} THEN Min(I) ELSE 0
             n == IF bad = 0 THEN Len(W) ELSE bad - 1
  <1>1. generateGlobalRateLimitDescriptor(W, loc) = [k \in 1..n |-> GlobalRule(W[k], loc)]
    BY Zenon DEF generateGlobalRateLimitDescriptor, SelectInSeq
  <1>2. Len(W) \in Nat
    OBVIOUS
  <1>3. CASE I = {}
    <2>1. n = Len(W)
      BY <1>3
    <2> HIDE DEF n
    <2> QED
      BY <1>1, <1>2, <2>1
  <1>4. CASE I # {}
    <2>1. I \subseteq Nat
      OBVIOUS
    <2>2. \E k \in I : \A m \in I : k <= m
      <3> HIDE DEF I
      <3> QED
        BY <1>4, <2>1, LeastNat
    <2>3. Min(I) \in I
      <3> HIDE DEF I
      <3> QED
        BY <2>2 DEF Min
    <2>4. Min(I) \in 1..Len(W) /\ W[Min(I)].action.interval \notin DOMAIN Unit
      BY <2>3
    <2>5. n = Min(I) - 1
      <3> HIDE DEF I
      <3> QED
        BY <1>4, <2>4
    <2> HIDE DEF n, I
    <2>6. n \in 0..Len(W)
      BY <1>2, <2>4, <2>5
    <2>7. ASSUME NEW a \in 1..Len(W), \A l \in 1..a : W[l].action.interval \in DOMAIN Unit
          PROVE  a <= n
      <3>1. Min(I) \notin 1..a
        BY <2>4, <2>7
      <3> QED
        BY <1>2, <2>4, <2>5, <3>1
    <2> QED
      BY <1>1, <2>6, <2>7
  <1> QED
    BY <1>3, <1>4

(* A list of rules, all of one service.                                     *)
RulesFor(rules, loc) ==
  rules \in Seq(ToSet(rules)) /\ \A r \in ToSet(rules) : r.value.svc = loc

(* The rules of a list of resolved descriptors name the service they were   *)
(* generated for.                                                           *)
LEMMA RulesOfOne ==
  ASSUME NEW S, NEW V \in Seq(S), NEW loc
  PROVE  RulesFor(descriptorsToGlobalRateLimit(V, loc), loc)
  <1> DEFINE K == {i \in DOMAIN V : IsGlobal(V[i])}
             W == Pick(V, K)
             out == descriptorsToGlobalRateLimit(V, loc)
  <1>1. W \in Seq(S)
    <2>1. K \in SUBSET (1..Len(V))
      OBVIOUS
    <2> HIDE DEF K
    <2> QED
      BY <2>1, PickSelects
  <1>2. out = generateGlobalRateLimitDescriptor(W, loc)
    BY Zenon DEF descriptorsToGlobalRateLimit, Filter
  <1> HIDE DEF W
  <1>3. PICK n \in 0..Len(W) : out = [k \in 1..n |-> GlobalRule(W[k], loc)]
    BY <1>1, <1>2, RulesUpTo
  <1>4. n \in Nat
    BY <1>1
  <1> HIDE DEF out
  <1>5. /\ DOMAIN out = 1..n /\ out = [k \in 1..n |-> out[k]]
        /\ \A k \in 1..n : out[k] = GlobalRule(W[k], loc)
    BY <1>3
  <1>6. \A k \in 1..n : out[k] \in ToSet(out)
    BY <1>5 DEF ToSet
  <1>7. out \in Seq(ToSet(out))
    BY <1>4, <1>5, <1>6
  <1>8. \A item : GlobalRule(item, loc).value.svc = loc
    BY DEF GlobalRule, generateDescriptorValue
  <1>9. \A r \in ToSet(out) : r.value.svc = loc
    BY <1>5, <1>8 DEF ToSet
  <1> QED
    BY <1>7, <1>9 DEF RulesFor, out

(* So do all rules GenerateEnvoyConfigs returns.                            *)
LEMMA RulesOfConfigs ==
  ASSUME NEW policy, \A x \in DOMAIN policy.sets : policy.sets[x] \in Seq(ToSet(policy.sets[x])),
         NEW mat, NEW N, NEW subs \in Seq(N), NEW loc
  PROVE  RulesFor(GenerateEnvoyConfigs(policy, mat, subs, loc).gdesc, loc)
  <1> DEFINE all == Append(subs, Base)
             valid == [x \in ToSet(all) |-> IF x \in DOMAIN policy.sets
                                            THEN validDescriptor(policy.sets[x], mat)
                                            ELSE <<>>]
             of(i) == descriptorsToGlobalRateLimit(valid[all[i]], loc)
             ss == [i \in DOMAIN all |-> of(i)]
             n == Len(all)
             out == FlattenSeq(ss)
             S == UNION {ToSet(of(i)) : i \in 1..n}
  <1>1. GenerateEnvoyConfigs(policy, mat, subs, loc).gdesc = out
    BY DEF GenerateEnvoyConfigs
  <1>2. n \in Nat /\ DOMAIN all = 1..n
    OBVIOUS
  <1>3. ASSUME NEW x \in ToSet(all) PROVE \E R : valid[x] \in Seq(R)
    <2>1. CASE x \in DOMAIN policy.sets
      <3> DEFINE D == policy.sets[x]
                 K == {i \in DOMAIN D : Applies(D[i], mat)}
                 kept == Pick(D, K)
                 V == [i \in DOMAIN kept |-> Resolve(kept[i], mat)]
      <3>1. D \in Seq(ToSet(D))
        BY <2>1
      <3>2. valid[x] = validDescriptor(D, mat)
        BY <2>1
      <3>3. validDescriptor(D, mat) = V
        BY Zenon DEF validDescriptor, Filter
      <3> HIDE DEF D
      <3>4. kept \in Seq(ToSet(D))
        <4>1. K \in SUBSET (1..Len(D))
          BY <3>1
        <4> HIDE DEF K
        <4> QED
          BY <3>1, <4>1, PickSelects
      <3> HIDE DEF kept
      <3> DEFINE r(i) == Resolve(kept[i], mat)
                 R == {r(i) : i \in DOMAIN kept}
      <3>5. Len(kept) \in Nat /\ DOMAIN kept = 1..Len(kept) /\ V = [i \in DOMAIN kept |-> r(i)]
        BY <3>4
      <3>6. \A i \in DOMAIN kept : r(i) \in R
        OBVIOUS
      <3> HIDE DEF V, r, R
      <3>7. V \in Seq(R)
        BY <3>5, <3>6
      <3> QED
        BY <3>2, <3>3, <3>7
    <2>2. CASE x \notin DOMAIN policy.sets
      <3>1. valid[x] = <<>> /\ <<>> \in Seq({})
        BY <2>2
      <3> QED
        BY <3>1
    <2> QED
      BY <2>1, <2>2
  <1>4. \A i \in 1..n : all[i] \in ToSet(all)
    BY <1>2 DEF ToSet
  <1> HIDE DEF valid
  <1>5. ASSUME NEW i \in 1..n PROVE RulesFor(of(i), loc)
    <2>1. PICK R : valid[all[i]] \in Seq(R)
      BY <1>3, <1>4
    <2> QED
      BY <2>1, RulesOfOne
  <1> HIDE DEF all, of
  <1>6. ASSUME NEW i \in 1..n PROVE of(i) \in Seq(S)
    <2>1. of(i) \in Seq(ToSet(of(i)))
      BY <1>5 DEF RulesFor
    <2>2. ToSet(of(i)) \subseteq S
      OBVIOUS
    <2> HIDE DEF S
    <2> QED
      BY <2>1, <2>2
  <1>7. \A r \in S : r.value.svc = loc
    BY <1>5 DEF RulesFor
  <1> HIDE DEF S
  <1>8. ss \in Seq(Seq(S)) /\ Len(ss) = n
    <2>1. ss = [i \in 1..n |-> of(i)]
      BY <1>2
    <2> HIDE DEF ss
    <2> QED
      BY <1>2, <1>6, <2>1
  <1> HIDE DEF ss
  <1>9. out \in Seq(S)
    BY <1>8, FlattenSeqFlattens
  <1> HIDE DEF out
  <1>10. /\ Len(out) \in Nat /\ DOMAIN out = 1..Len(out) /\ out = [p \in 1..Len(out) |-> out[p]]
         /\ \A p \in 1..Len(out) : out[p] \in S
    BY <1>9
  <1>11. \A r \in ToSet(out) : r \in S
    BY <1>10 DEF ToSet
  <1>12. out \in Seq(ToSet(out))
    <2>1. \A p \in 1..Len(out) : out[p] \in ToSet(out)
      BY <1>10 DEF ToSet
    <2> QED
      BY <1>10, <2>1
  <1>13. RulesFor(out, loc)
    BY <1>7, <1>11, <1>12 DEF RulesFor
  <1> QED
    BY <1>1, <1>13
=============================================================================
