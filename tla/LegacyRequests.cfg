\* Two servers; no symmetry, for one of the properties is a liveness one.
CONSTANTS
  s1 = s1
  s2 = s2
  Servers <- MCServers
  OmadacIdSet <- MCOmadacIdSet
SPECIFICATION FairSpec
INVARIANTS TypeOK IdBeforeSession AtMostTwoSends OneExpiryIsAbsorbed
PROPERTIES RequestEnds KeepsContract
