CONSTANTS
  NodeNames = {"query_node", "prepare_peers", "prepare_options", "prepare_futures", "prepare_index", "prepare_macro_stats", "load_peers_stats", "load_symbol_stats", "final_report"}
  Stock = "AAPL"
  PeerLists <- MCPeerLists
  DefaultIndexes = {"SP500"}
  ListedIndexes = {"SP500", "HANG_SENG"}
  HomeIndexes = {"HANG_SENG", "UNLISTED"}
  Instruments = {"SP500"}
  Seconds <- MCSeconds
  DefaultHorizon = "one_year"
  Budgets <- MCBudgets
SPECIFICATION Spec
CHECK_DEADLOCK FALSE
INVARIANTS OwnAnswers NothingRunsOn MissingIsExplained
