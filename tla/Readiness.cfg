CONSTANTS
  Kinds = {"snow", "heat"}
  Null = Null
  MaxValue = 3
  Preset <- MCPreset
  Typed <- MCTyped
  Bodies <- MCBodies
  GridNxMax = 2
  GridNyMax = 2
  Grids <- MCGrids
  MaxBytes = 40
  Notice <- MCNotice
  Reserve = 24
  StaffHeading <- MCHeading
  GuestHeading <- MCHeading
  Bullet <- MCBullet
  Root = "root"
  Before <- MCBefore
  Depts = {"resort", "kitchen"}
  People = {kim, lee}
  kim = kim
  lee = lee
  ParentOf <- MCParentOf
  Contents <- MCContents
  Lengths <- MCLengths
  Texts <- MCTexts
  Clicked = {kim}
  Used <- MCUsed
  Viewed <- MCViewed
  MaxActionItems = 2
  MaxActionLen = 4
  MaxGuestNotice = 4
  Turned = {"kitchen"}
  Swapped <- MCSwapped
  MaxRounds = 3
  HoursPerDay = 2
  MaxHour = 2
  Horizon = 3
  Points <- MCPoints
  ObsFields = {"rain", "temp"}
  MissingStreak = 3
  CollectStale = 1
  WindowHours = 2
  Titles <- MCTitles
  ObsLines <- MCObsLines
  Start <- MCStart
SPECIFICATION Spec
\* It may stop: an alert that is over is not looked at any more, and time is bounded.
CHECK_DEADLOCK FALSE
INVARIANTS
  WarningIsNotBelowWatch
  GreenMeansDelivered
  IndicatorsAgree
  FitsOneLms
  UpcomingAgreesWithMarks
  NewestForecastCounts
PROPERTIES
  TheEndReachesTheTold
