SPECIFICATION Spec
CONSTANTS
  Runs = {r1}
  Items = {i1}
  NoRun = NoRun
  NoItem = NoItem
  MaxUserTurns = 0
  MaxSynths = 0
  MaxCancels = 1
  MaxRollbacks = 0
  MaxCrashes = 0
  MaxFaults = 0
  MaxWakeups = 2
  PreparationFails = FALSE
  RenumberingFails = FALSE
PROPERTIES CancelledIsFinal
CHECK_DEADLOCK FALSE
