SPECIFICATION Spec
CONSTANTS
  Runs = {r1, r2}
  Items = {i1, i2}
  NoRun = NoRun
  NoItem = NoItem
  MaxChain = 2
  MaxCrashes = 1
  StaleReorders = FALSE
SYMMETRY Symmetric
INVARIANTS TypeOK DecisionsMatchReplay OneLifePerRun  CheckpointsAreLive ItemTellsOutcome
CHECK_DEADLOCK FALSE
