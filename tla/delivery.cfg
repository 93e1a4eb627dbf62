SPECIFICATION FairSpec
CONSTANTS
  Threads = {"t1", "t2"}
  Callers = {"c1", "c2", "c3"}
  ThreadOf <- MCThreadOf
  Tasks = {"k1", "k2"}
  TaskOf <- MCTaskOf
  Scenarios <- MCScenarios
  MaxRetries = 2
  BatchSize = 2
  CheckEvery = 2
  PageSize = 2
  NoThread = NoThread
CHECK_DEADLOCK FALSE
INVARIANTS AckedWasShown WatcherIsServed NothingLeft
PROPERTIES ImplementsTokenStream CallsEnd
