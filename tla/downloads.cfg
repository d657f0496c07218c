CONSTANTS
  w1 = w1 w2 = w2 c1 = c1 c2 = c2 t1 = t1 t2 = t2
  NoTask = NoTask
  Workers <- MCWorkers
  Clients <- MCClients
  Stoppers <- OneStopper
  Tasks <- MCTasks
  Cap = 1
  Paths <- MCTasks
  OutFile <- OwnFile
  Chunks = 2
SPECIFICATION DlFairSpec
CHECK_DEADLOCK FALSE
INVARIANTS
  OkMeansWritten
  NoFutureAbandoned
PROPERTIES
  FetchResolves
