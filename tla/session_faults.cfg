SPECIFICATION Spec
CONSTANTS
  Runs = {r1,r2,r3}
  Items = {i1}
  NoRun = NoRun
  NoItem = NoItem
  MaxUserTurns = 1
  MaxSynths = 1
  MaxCancels = 1
  MaxRollbacks = 0
  MaxCrashes = 0
  MaxFaults = 2
  MaxWakeups = 2
  PreparationFails = TRUE
  RenumberingFails = TRUE
SYMMETRY Symmetric
INVARIANTS OrphansAreKnown FenceNeverStale
PROPERTIES SingleFlightSpec
CHECK_DEADLOCK FALSE
