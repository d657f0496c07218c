SPECIFICATION Spec
CONSTANTS
  Keys <- MCKeys
  Values = {v1}
  NoValue = NoValue
  Null = Null
  NodeBytes = 2
  PairLimits = {4, 9}
  ByteLimits = {12}
INVARIANTS RedBlack
PROPERTIES IteratorSound ImplementsBoundedMap
CHECK_DEADLOCK FALSE
