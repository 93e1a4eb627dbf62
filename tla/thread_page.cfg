SPECIFICATION FairSpec
CONSTANTS
  Threads = {"t1"}
  NoThread = NoThread
  Scenarios <- MCScenarios
  MaxOwed = 2
CHECK_DEADLOCK FALSE
INVARIANTS NoLostRefresh
PROPERTIES NeverBackwards PageCatchesUp ForkIsShown
