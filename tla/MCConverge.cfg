\* One service with a subset: new specs and labels, deletion and re-creation,
\* EnvoyFilters that the informer sees late.
SPECIFICATION FairSpec
CONSTANTS
  Nil = Nil
  Uint32Size = 1000000
  Checksum <- MCChecksum
  Svc = {"a"}
  Infix <- Diagonal
  Subset = {"v1"}
  Handlers = {}
  PolicyOf <- SubsetPolicies
  StartLimiters <- MixedLimiters
  Revs = {"r1", "r2"}
  ScopeRevs = {"r1", "r2"}
  Adaptive = FALSE
  GlobalEnabled = FALSE
  StartSubsets <- StartWithV1
  PodCounts = {1}
  MetricValues = {}
  StartMetric = Nil
  Limit <- ConvergeLimit
PROPERTIES
  
  Converges
  DeletedCleaned
