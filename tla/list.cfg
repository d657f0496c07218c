CONSTANTS
  s1 = s1 s2 = s2 s3 = s3 s4 = s4
  Null = Null
  Junk = Junk
  Strings <- MCStrings
  ElemSize = 2
  FirstCap = 2
  CountLimits <- MCCounts
  ByteLimits <- MCBytes
  Sizes <- MCSizes
SPECIFICATION Spec
SYMMETRY Symmetry
CHECK_DEADLOCK FALSE
INVARIANTS
  OneOwner
PROPERTY
  ImplementsStringSeq
