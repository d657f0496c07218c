SPECIFICATION Spec
SYMMETRY SameProcs
CONSTANTS
  p1 = p1 p2 = p2 a = a b = b c = c x = x y = y
  Null = Null
  Procs <- MCProcs
  Names <- MCNames
  PathMax = 3
  MaxFaults = 1
  Trees <- MCTrees
  Calls <- MCCalls
INVARIANTS AloneMeansDone LinkSurvives
PROPERTIES MkdirsMeet RemovalStaysBelow
CHECK_DEADLOCK FALSE
