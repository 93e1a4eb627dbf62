SPECIFICATION FairSpec
CONSTANTS
  Processes = {p1, p2, p3}
  Free = Free
  Migrations = 2
  MaxTries = 2
  MaxFaults = 2
CHECK_DEADLOCK FALSE
INVARIANTS OneAtATime TablesBeforeUse
PROPERTIES LockComesFree
