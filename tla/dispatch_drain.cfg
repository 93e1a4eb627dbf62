SPECIFICATION FairSpec
CONSTANTS
  Procs = {p1, p2}
  NoProc = NoProc
  Attempts = {a1, a2}
  NoAttempt = NoAttempt
  NumNodes = 1
  Events = {"shutdown"}
CHECK_DEADLOCK FALSE
PROPERTY DrainEnds
