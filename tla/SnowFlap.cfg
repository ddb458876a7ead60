\* Snow only, under the settings of seed.sql and 0015; expected to be violated.
SPECIFICATION Spec
CONSTANTS
  Null = Null
  Samples <- MCSamples
  Settings <- SeedSettings
  CriteriaOf <- MCCriteria
  HoursPerDay = 4
  SumCap = 3
PROPERTIES
  StoppedSnowStaysReleased
