\* The pods of a subset disappear.
SPECIFICATION FairSpec
CONSTANTS
  Nil = Nil
  Uint32Size = 1000000
  Checksum <- MCChecksum
  Svc = {"a"}
  Infix <- Diagonal
  Subset = {"v1"}
  Handlers = {}
  PolicyOf <- SubsetPolicies
  StartLimiters <- MixedLimiters
  Revs = {"r1"}
  ScopeRevs = {"r1"}
  Adaptive = FALSE
  GlobalEnabled = TRUE
  StartSubsets <- StartWithV1
  PodCounts = {0, 1}
  MetricValues = {}
  StartMetric = Nil
  Limit <- PodsLimit
PROPERTY
  StatusMetricsCurrent
