SPECIFICATION Spec
CONSTANTS
  Runs = {r1,r2,r3}
  Items = {i1}
  NoRun = NoRun
  NoItem = NoItem
  MaxUserTurns = 1
  MaxSynths = 1
  MaxCancels = 1
  MaxRollbacks = 1
  MaxCrashes = 0
  MaxFaults = 0
  MaxWakeups = 2
  PreparationFails = FALSE
  RenumberingFails = FALSE
INVARIANTS MaintenanceExclusive
CHECK_DEADLOCK FALSE
