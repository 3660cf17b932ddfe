\* Two overlapping jobs, two requests over four days, a failing transaction.
SPECIFICATION Spec
CONSTANTS
  j1 = j1
  j2 = j2
  Jobs = {j1, j2}
  Dims <- MCDims
  MaxDay = 4
  FreeModels = {"f"}
  Retentions = {1}
  MaxLag = 1
  MaxRows = 2
  MaxRuns = 2
  MaxAborts = 1
SYMMETRY Symmetry
CHECK_DEADLOCK FALSE
INVARIANTS ReportsExact WindowBounds RecentRowsRaw
PROPERTIES PrunedDaysFinal BookSpec
