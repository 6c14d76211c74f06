\* Adaptive mode with two Prometheus handlers.
SPECIFICATION Spec
CONSTANTS
  Nil = Nil
  Uint32Size = 1000000
  Checksum <- MCChecksum
  Svc = {"a"}
  Infix <- Diagonal
  Subset = {"v1"}
  Handlers <- TwoHandlers
  PolicyOf <- LoadPolicies
  StartLimiters <- LoadLimiters
  Revs = {"r1"}
  ScopeRevs = {"r1"}
  Adaptive = TRUE
  GlobalEnabled = TRUE
  StartSubsets <- StartWithV1
  PodCounts = {1, 2}
  MetricValues = {10, 90}
  StartMetric = 90
  Limit <- NoEnvironment
INVARIANT
  AllHandlersQueried
