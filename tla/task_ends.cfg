SPECIFICATION FairSpec
CONSTANTS
  Procs = {p1}
  Drivers = {d1, d2}
  NoDriver = NoDriver
  Scenarios <- MCEndsScenarios
CHECK_DEADLOCK FALSE
PROPERTIES DelegationEnds
