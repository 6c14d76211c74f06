\* The interest map under users, restarts and revision labels.
SPECIFICATION Spec
CONSTANTS
  Nil = Nil
  Uint32Size = 1000000
  Checksum <- MCChecksum
  Svc = {"a", "b"}
  Infix <- Diagonal
  Subset = {}
  Handlers = {}
  PolicyOf <- OwnPolicies
  StartLimiters <- NoLimiters
  Revs = {"r1", "r2"}
  ScopeRevs = {"r1"}
  Adaptive = FALSE
  GlobalEnabled = FALSE
  StartSubsets <- NoSubsets
  PodCounts = {1}
  MetricValues = {}
  StartMetric = Nil
  Limit <- InterestLimit
INVARIANTS
  TypeOK
  InterestCovers
  InterestBacked
