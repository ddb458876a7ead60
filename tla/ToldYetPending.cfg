\* Expected to be violated.  Every run and every request happens once, then all
\* of it is over.
SPECIFICATION SpecFaultless
CONSTANTS
  Null = Null
  EventIds = {e1, e2}
  Ticks = {t1, t2}
  Requests = {r1, r2, r3}
  Observations <- MCObservations
  Criteria <- MCCriteria
  SettingsSets <- AlwaysOn
  ResolveNotice = TRUE
  OneShot = TRUE
  MaxRepeat = 2
SYMMETRY Symmetry
CHECK_DEADLOCK FALSE
INVARIANTS
  PendingMeansUntold
