SPECIFICATION FairSpec
CONSTANTS
  Runs = {r1,r2}
  Items = {i1}
  NoRun = NoRun
  NoItem = NoItem
  MaxUserTurns = 0
  MaxSynths = 0
  MaxCancels = 0
  MaxRollbacks = 0
  MaxCrashes = 1
  MaxFaults = 0
  MaxWakeups = 2
  PreparationFails = FALSE
  RenumberingFails = FALSE
PROPERTIES QueueDrains
CHECK_DEADLOCK FALSE
