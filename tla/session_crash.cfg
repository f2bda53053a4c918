SPECIFICATION Spec
CONSTANTS
  Runs = {r1,r2}
  Items = {i1,i2}
  NoRun = NoRun
  NoItem = NoItem
  MaxUserTurns = 1
  MaxSynths = 0
  MaxCancels = 1
  MaxRollbacks = 1
  MaxCrashes = 1
  MaxFaults = 1
  MaxWakeups = 2
  PreparationFails = FALSE
  RenumberingFails = TRUE
SYMMETRY Symmetric
INVARIANTS OnlyDrainClaims MaintenanceExclusive QueueIsWatched
CHECK_DEADLOCK FALSE
