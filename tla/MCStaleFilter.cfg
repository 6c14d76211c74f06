\* EnvoyFilters are read through a cache while their SmartLimiter changes.
SPECIFICATION Spec
CONSTANTS
  Nil = Nil
  Uint32Size = 1000000
  Checksum <- MCChecksum
  Svc = {"a"}
  Infix <- Diagonal
  Subset = {}
  Handlers = {}
  PolicyOf <- ThereAndBack
  StartLimiters <- Everyone
  Revs = {"r1"}
  ScopeRevs = {"r1"}
  Adaptive = FALSE
  GlobalEnabled = TRUE
  StartSubsets <- NoSubsets
  PodCounts = {1}
  MetricValues = {}
  StartMetric = Nil
  Limit <- ChangeLimit
INVARIANT
  ReportedIsApplied
