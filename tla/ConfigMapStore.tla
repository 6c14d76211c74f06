--------------------------- MODULE ConfigMapStore ---------------------------
(***************************************************************************)
(* What the refreshes of the RLS ConfigMap promise, whatever they do to    *)
(* get there: a refresh is requested for one service, and ends either by   *)
(* replacing the rules of that service in the rules as they are at that    *)
(* instant, or by changing nothing.  No refresh ever acts on older rules.  *)
(***************************************************************************)
CONSTANTS
  Actors,               \* the goroutines that refresh the ConfigMap
  Rebuilt(_, _, _)      \* Rebuilt(rules, service, replacement)

VARIABLES
  rules,     \* the rules in force
  request    \* actor -> [active, svc, desc]: what it is refreshing

vars == <<rules, request>>

Init ==
  /\ rules = <<>>
  /\ \A a \in Actors : ~request[a].active

OthersKeepRequests(a) == \A b \in Actors \ {a} : request'[b] = request[b]

Begin(a) ==
  /\ ~request[a].active
  /\ request'[a].active
  /\ OthersKeepRequests(a)
  /\ rules' = rules

Commit(a) ==
  /\ request[a].active
  /\ ~request'[a].active
  /\ OthersKeepRequests(a)
  /\ rules' = Rebuilt(rules, request[a].svc, request[a].desc)

Abort(a) ==
  /\ request[a].active
  /\ ~request'[a].active
  /\ OthersKeepRequests(a)
  /\ rules' = rules

Restart ==
  /\ \A a \in Actors : ~request'[a].active
  /\ rules' = rules

Next == Restart \/ \E a \in Actors : Begin(a) \/ Commit(a) \/ Abort(a)

Spec == Init /\ [][Next]_vars
=============================================================================
