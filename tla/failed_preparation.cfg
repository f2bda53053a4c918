SPECIFICATION FairSpec
CONSTANTS
  Runs = {r1,r2}
  Items = {i1}
  NoRun = NoRun
  NoItem = NoItem
  MaxUserTurns = 1
  MaxSynths = 0
  MaxCancels = 1
  MaxRollbacks = 0
  MaxCrashes = 0
  MaxFaults = 0
  MaxWakeups = 2
  PreparationFails = TRUE
  RenumberingFails = FALSE
PROPERTIES RunsEnd
CHECK_DEADLOCK FALSE
