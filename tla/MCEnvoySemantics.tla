-------------------------- MODULE MCEnvoySemantics --------------------------
(***************************************************************************)
(* Constants of EnvoySemantics for TLC.                                    *)
(***************************************************************************)
EXTENDS EnvoySemantics

(* No collisions: the checksum of a descriptor is the descriptor.           *)
MCChecksum(item, loc) == item

Always == [metric |-> Nil, above |-> 0]
Pods == <<Base, "pod">>
CpuKey == <<Base, "cpu">>

Des(condition, total, per, interval, strategy, match, target) ==
  [condition |-> condition,
   action |-> [quota |-> [total |-> total, per |-> per],
               interval |-> interval, strategy |-> strategy],
   match |-> match, target |-> target, custom |-> Nil]

Header == [name |-> "user", regex |-> "", exact |-> "", prefix |-> "p", suffix |-> "",
           present |-> FALSE, invert |-> FALSE, isExactMatchEmpty |-> FALSE]
EmptyHeader == [Header EXCEPT !.prefix = "", !.isExactMatchEmpty = TRUE]

Route(direction) ==
  [direction |-> direction, port |-> 0, route |-> << <<<<"host">>, "r">> >>]
Port(n) == [direction |-> "inbound", port |-> n, route |-> <<>>]
Malformed == [direction |-> "outbound", port |-> 0, route |-> << <<<<"host">>>> >>]

MCDescriptors ==
  { Des(Always, 5, Nil, 60, Global, <<>>, Nil),
    Des([metric |-> CpuKey, above |-> 1], 6, Pods, 1, "single", <<>>, Nil),
    Des(Always, 7, Nil, 10, "single", <<Header>>, Route("outbound")),
    Des(Always, 8, Nil, 3600, Global, <<Header, EmptyHeader>>, Route("inbound")),
    Des(Always, 9, Pods, 7, Global, <<>>, Port(80)),
    Des([metric |-> CpuKey, above |-> 0], 4, Nil, 86400, Global, <<>>, Malformed),
    Des(Always, 1, Pods, 60, Global, <<>>, Route("outbound")),
    Des(Always, 2, Nil, 1, "single", <<>>, Route("inbound")),
    Des(Always, 1000003, Nil, 1, "single", <<EmptyHeader>>, Nil),
    [Des(Always, 0, Nil, 1, Global, <<>>, Nil) EXCEPT !.action = Nil] }

OneSubset == <<"v1">>
MCKeys == {Pods, CpuKey}
=============================================================================
