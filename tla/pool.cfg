CONSTANTS
  w1 = w1 w2 = w2 c1 = c1 c2 = c2 c3 = c3
  t1 = t1 t2 = t2 t3 = t3
  NoTask = NoTask NoWorker = NoWorker
  Workers <- MCWorkers
  Clients <- MCClients
  Stoppers <- TwoStoppers
  Tasks <- MCTasks
  Cap = 2
  NumThreads = 4
SPECIFICATION LifeSpec
CHECK_DEADLOCK FALSE
INVARIANTS
  NoTaskLost
  StoppedForGood
  FreedUnused
  NoWakeUpLost
  NoWorkerOutlivesPool
PROPERTIES
  QuietReturn
  ImplementsLiveTaskPool
  CallsReturn
  FailureEndsUnlessSlept
