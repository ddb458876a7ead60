SPECIFICATION Spec
CONSTANTS
  Null = Null
  EventIds = {e1, e2}
  Ticks = {t1, t2}
  Requests = {r1, r2, r3}
  Observations <- MCObservations
  Criteria <- MCCriteria
  SettingsSets <- AlwaysOn
  ResolveNotice = TRUE
  OneShot = TRUE
  MaxRepeat = 2
SYMMETRY Symmetry
INVARIANTS
  TypeOK
  HumanInTheLoop
PROPERTIES
  OverForGood
  ImplementsGate
