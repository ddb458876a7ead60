SPECIFICATION Spec
CONSTANTS
  Null = Null
  Samples <- MCSamples
  Settings <- MCSettings
  CriteriaOf <- MCCriteria
  HoursPerDay = 3
  SumCap = 3
INVARIANTS
  OneAlertPerHazard
  HazardIsCovered
PROPERTIES
  RejudgingClosesNothing
  QuietWeatherCloses
  DisabledKindCloses
