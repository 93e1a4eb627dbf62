SPECIFICATION FairSpec
CONSTANTS
  Nodes = {"query", "peers", "news", "load", "report"}
  Edges <- MCEdges
  Group = {"peers", "news"}
  Tasked = {"peers", "news", "load"}
  MaxGen = 1
  Budgets <- MCBudgets
  NoKey = NoKey
CHECK_DEADLOCK FALSE
INVARIANTS CompletedIsClean StoppedForAReason
PROPERTIES EndedRowsStay RunEnds
