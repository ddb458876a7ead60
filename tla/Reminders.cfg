SPECIFICATION Spec
CONSTANTS
  EventIds = {e1, e2}
  Runs = {r1}
  RemindLimit = 2
INVARIANTS
  TypeOK
  RemindersAreLimited
  LimitIsHandedOver
PROPERTIES
  NobodyAnswersIsNoticed
  WaitingIsReported
