SPECIFICATION Spec
CONSTANTS
  Procs = {p1, p2}
  NoProc = NoProc
  Attempts = {a1, a2}
  NoAttempt = NoAttempt
  NumNodes = 1
  Events = {"ack", "retry", "cancel", "pause", "crash", "shutdown", "redisError", "counterExpiry"}
SYMMETRY MCSymmetry
CHECK_DEADLOCK FALSE
PROPERTIES TerminalIsFinal
