SPECIFICATION Spec
CONSTANTS
  Procs = {p1, p2}
  Drivers = {d1, d2}
  NoDriver = NoDriver
  Scenarios <- MCScenarios
SYMMETRY MCSymmetry
CHECK_DEADLOCK FALSE
INVARIANTS TypeOK SettledWhenReturned HandleMeansAwaiting AnswersAreEarned LeftByPauseOrCrash
PROPERTIES ImplementsTaskRow
