CONSTANTS
  k1 = k1 k2 = k2 k3 = k3 k4 = k4 v1 = v1 v2 = v2
  NoValue = NoValue
  Keys <- MCKeys
  Values <- MCValues
  Hashes <- MCHashes
  MinCap = 4
  MaxProbe = 3
  SlotBytes = 1
  PairLimits <- MCPairs
  ByteLimits <- MCBytes
SPECIFICATION Spec
SYMMETRY Symmetry
CHECK_DEADLOCK FALSE
PROPERTIES
  ImplementsBoundedMap
