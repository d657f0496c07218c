CONSTANTS
  s1 = s1 s2 = s2 u1 = u1 u2 = u2 k1 = k1 k2 = k2
  None = None
  TimedOut = TimedOut
  Setters <- TwoSetters
  Users <- MCUsers
  Owners <- OneOwner
  Callbacks <- MCCallbacks
SPECIFICATION FutureFairSpec
CHECK_DEADLOCK FALSE
INVARIANTS
  Agreement
  CallbackOnce
  FreedUntouched
PROPERTIES
  CompletionReachesAll
