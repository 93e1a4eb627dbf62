SPECIFICATION Spec
CONSTANTS
  Procs = {p1, p2}
  NoProc = NoProc
  Attempts = {a1, a2, a3}
  NoAttempt = NoAttempt
  NumNodes = 1
  Events = {"crash", "stall"}
SYMMETRY MCSymmetry
CHECK_DEADLOCK FALSE
INVARIANT TokensGenuine
PROPERTIES NoStaleOverwrite ImplementsFencedOwnership
