SPECIFICATION Spec
CONSTANTS
  EventIds = {e1, e2}
  Runs = {r1}
  RemindLimit = 3
INVARIANTS
  SilenceIsHandedOver
