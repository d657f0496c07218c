SPECIFICATION Spec
CONSTANTS
  t1 = t1 t2 = t2 t3 = t3
  Threads <- MCThreads
  MaxFaults = 1
  MaxHeaders = 2
  Scenarios <- MCScenarios
  Searches <- MCSearches
  Answers <- MCAnswers
  ToChoose <- MCChoices
INVARIANTS ReadIsSnapshot BestVersion PageFollowsHits NothingLost
CHECK_DEADLOCK FALSE
