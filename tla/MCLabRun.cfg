SPECIFICATION LabSpec
CONSTANTS
  Runs = {r1, r2}
  NoRun = NoRun
  MaxWork = 4
  Working = {r1}
CHECK_DEADLOCK FALSE
INVARIANTS Inv HolderIsAlone FailsOnlyInRace LabInv PassedIsEarned CancelFindsAll
PROPERTIES CancelledRunEnds
