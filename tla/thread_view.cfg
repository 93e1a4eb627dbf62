SPECIFICATION MCSpec
CONSTANTS
  Order <- MCOrder
  Edges <- MCEdges
  Group = {"peers", "news"}
  MaxGen = 2
  MaxFailures = 1
  MaxTime = 5
  MaxNodes = 3
  MaxTasks = 1
  GapThreshold = 1
  Fractions = 60
CHECK_DEADLOCK FALSE
INVARIANTS BranchIsClosed EdgesAreTheGraph NextIsVisible OverlapsAreShown ScaleIsFaithful
