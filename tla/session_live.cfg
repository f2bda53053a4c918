SPECIFICATION FairSpec
CONSTANTS
  Runs = {r1,r2,r3}
  Items = {i1}
  NoRun = NoRun
  NoItem = NoItem
  MaxUserTurns = 1
  MaxSynths = 1
  MaxCancels = 0
  MaxRollbacks = 0
  MaxCrashes = 0
  MaxFaults = 0
  MaxWakeups = 2
  PreparationFails = FALSE
  RenumberingFails = FALSE
PROPERTIES QueueDrains RunsEnd
CHECK_DEADLOCK FALSE
