SPECIFICATION SpecSerial
CONSTANTS
  Null = Null
  EventIds = {e1, e2, e3}
  Ticks = {t1}
  Requests = {r1}
  Observations <- MCObservations
  Criteria <- MCCriteria
  SettingsSets <- MCSettingsSets
  ResolveNotice = TRUE
  OneShot = FALSE
  MaxRepeat = 2
SYMMETRY Symmetry
INVARIANTS
  ActiveMeansReached
  PendingMeansUntold
  ApprovedSnapshotOnly
  NumberedWithoutGap
  ReleaseReachesTheTold
  EscalationRaisesWarning
PROPERTIES
  OverStaysOver
