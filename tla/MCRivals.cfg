\* Two services that share the ConfigMap, a user and faults.
SPECIFICATION FairSpec
CONSTANTS
  Nil = Nil
  Uint32Size = 1000000
  Checksum <- MCChecksum
  Svc = {"a", "b"}
  Infix <- Diagonal
  Subset = {}
  Handlers = {}
  PolicyOf <- OneGlobalEach
  StartLimiters <- Everyone
  Revs = {"r1"}
  ScopeRevs = {"r1"}
  Adaptive = FALSE
  GlobalEnabled = TRUE
  StartSubsets <- NoSubsets
  PodCounts = {1}
  MetricValues = {}
  StartMetric = Nil
  Limit <- RivalsLimit
PROPERTIES
  OnlyOwnRulesChange
  RefreshIsAtomic
  Converges
