CONSTANTS
  w1 = w1 w2 = w2 c1 = c1 c2 = c2 c3 = c3
  t1 = t1 t2 = t2 t3 = t3
  NoTask = NoTask NoWorker = NoWorker
  Workers <- MCWorkers
  Clients <- MCClients3
  Stoppers <- OneStopper
  Tasks <- MCTasks
  Cap = 1
  NumThreads = 1
SPECIFICATION LifeSpec
CHECK_DEADLOCK FALSE
PROPERTIES
  BlocksOnlyIfFull
