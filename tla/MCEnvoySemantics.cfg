\* The two halves of every limit, for all specs of bounded length.
SPECIFICATION Spec
CONSTANTS
  Nil = Nil
  Uint32Size = 1000000
  Checksum <- MCChecksum
  Descriptors <- MCDescriptors
  MaxLen = 3
  Subsets <- OneSubset
  Keys <- MCKeys
  Values = {1, 2}
  Loc = "a"
INVARIANTS
  EveryLimitApplies
  NoOtherLimit
