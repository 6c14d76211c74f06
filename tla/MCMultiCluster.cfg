\* Two secrets and three clusters, one of them offered by both secrets.
SPECIFICATION FairSpec
CONSTANTS
  Nil = Nil
  Secrets = {"s1", "s2"}
  Clusters = {"c1", "c2", "c3"}
  DataOf <- MCDataOf
  maxRetries = 3
  Limit <- MCLimit
INVARIANTS
  TypeOK
  MembersBacked
  MembersComplete
PROPERTY
  Settles
CHECK_DEADLOCK FALSE
