\* Two SmartLimiters with equal specs.
SPECIFICATION FairSpec
CONSTANTS
  Nil = Nil
  Uint32Size = 1000000
  Checksum <- MCChecksum
  Svc = {"a", "b"}
  Infix <- Diagonal
  Subset = {}
  Handlers = {}
  PolicyOf <- SamePolicy
  StartLimiters <- Everyone
  Revs = {"r1"}
  ScopeRevs = {"r1"}
  Adaptive = FALSE
  GlobalEnabled = TRUE
  StartSubsets <- NoSubsets
  PodCounts = {1}
  MetricValues = {}
  StartMetric = Nil
  Limit <- NoEnvironment
PROPERTY
  Converges
