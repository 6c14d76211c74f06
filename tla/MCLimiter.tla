----------------------------- MODULE MCLimiter ------------------------------
(***************************************************************************)
(* Constants of the Limiter for TLC.                                       *)
(***************************************************************************)
EXTENDS Limiter

(* Descriptors are told apart by their checksums.                           *)
MCChecksum(item, loc) == item.action

Always == [metric |-> Nil, above |-> 0]
Above(key, n) == [metric |-> key, above |-> n]
Fixed(n) == [total |-> n, per |-> Nil]
Shared(n, x) == [total |-> n, per |-> <<x, "pod">>]

Descriptor(condition, quota, strategy) ==
  [condition |-> condition,
   action    |-> [quota |-> quota, interval |-> 60, strategy |-> strategy],
   match     |-> <<>>, target |-> Nil, custom |-> Nil]

Policy(sets) == [sets |-> sets, rls |-> ""]
BasePolicy(des) == Policy([x \in {Base} |-> des])

GlobalOnly(n) == BasePolicy(<<Descriptor(Always, Fixed(n), Global)>>)
PerPodShare(n) == BasePolicy(<<Descriptor(Always, Shared(n, Base), "single")>>)

NoSubsets == [s \in Svc |-> <<>>]
NoLimiters == [s \in Svc |-> Nil]

(* Every service starts with a SmartLimiter.                                *)
Everyone == [s \in Svc |-> [policy |-> CHOOSE p \in PolicyOf[s] : TRUE,
                            rev |-> "r1"]]

-----------------------------------------------------------------------------
(* Two services with policies of their own, none shared.                    *)
OwnPolicies ==
  [s \in Svc |-> IF s = "a" THEN {GlobalOnly(1), PerPodShare(6), EmptyPolicy}
                           ELSE {GlobalOnly(2)}]

OneGlobalEach == [s \in Svc |-> IF s = "a" THEN {GlobalOnly(1)} ELSE {GlobalOnly(2)}]

Diagonal == {<<s, s>> : s \in Svc}

Bound(user, resync, subset, envs, crash, fault, lag) ==
  [k \in Kinds |-> CASE k = "user" -> user [] k = "resync" -> resync
                     [] k = "subset" -> subset [] k = "world" -> envs
                     [] k = "crash" -> crash [] k = "fault" -> fault
                     [] k = "lag" -> lag]

InterestLimit == Bound(3, 1, 0, 0, 1, 0, 0)

(* A policy with a share per pod in the base set and in subset v1, whose    *)
(* global rules depend on a condition, and one that drops the subset.       *)
MixedPolicy ==
  Policy([x \in {Base, "v1"} |->
            IF x = Base
            THEN <<Descriptor(Always, Shared(6, Base), "single"),
                   Descriptor(Above(<<Base, "pod">>, 1), Fixed(4), Global)>>
            ELSE <<Descriptor(Always, Shared(3, x), Global)>>])

SubsetPolicies == [s \in Svc |-> {MixedPolicy, GlobalOnly(1)}]

MixedLimiters == [s \in Svc |-> [policy |-> MixedPolicy, rev |-> "r1"]]

StartWithV1 == [s \in Svc |-> <<"v1">>]

ConvergeLimit == Bound(2, 0, 0, 0, 0, 0, 1)
RivalsLimit == Bound(1, 0, 0, 0, 0, 1, 0)

(* Adaptive mode: limits that switch on and off with a metric of the set.   *)
Cpu == [name |-> "cpu", type |-> "Value", perPod |-> TRUE]
Qps == [name |-> "qps", type |-> "Group"]

LoadPolicy ==
  Policy([x \in {Base, "v1"} |->
            IF x = Base
            THEN <<Descriptor(Above(<<Base, "cpu">>, 50), Fixed(4), Global)>>
            ELSE <<Descriptor(Above(<<"v1", "cpu">>, 50), Shared(6, x), "single")>>])

LoadPolicies == [s \in Svc |-> {LoadPolicy}]

LoadLimiters == [s \in Svc |-> [policy |-> LoadPolicy, rev |-> "r1"]]

OneHandler == {Cpu}
AdaptiveLimit == Bound(0, 0, 1, 1, 1, 0, 0)

-----------------------------------------------------------------------------
(* The runs that refute a statement of the documentation.                   *)

(* Two services with equal specs.                                           *)
SamePolicy == [s \in Svc |-> {GlobalOnly(1)}]

(* The name of a occurs in that of b, as "cart.shop" in "mycart.shop".      *)
ShortInLong == Diagonal \cup {<<"a", "b">>}

DeleteLimit == Bound(1, 0, 0, 0, 0, 0, 0)

(* A limit is changed, and perhaps changed back.                            *)
ThereAndBack == [s \in Svc |-> {PerPodShare(4), PerPodShare(6)}]
ChangeLimit == Bound(2, 0, 0, 0, 0, 0, 1)

TwoHandlers == {Cpu, Qps}
PodsLimit == Bound(0, 0, 0, 1, 0, 0, 0)
NoEnvironment == Bound(0, 0, 0, 0, 0, 0, 0)
=============================================================================
