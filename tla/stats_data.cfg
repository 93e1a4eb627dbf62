SPECIFICATION Spec
CONSTANTS
  Jobs = {"j1", "j2", "j3"}
  Scenarios <- MCScenarios
  None = None
CHECK_DEADLOCK FALSE
INVARIANTS CacheIsTransparent BarsAreWhole SummaryIsOfTheChain
PROPERTIES IndicatorsStay
