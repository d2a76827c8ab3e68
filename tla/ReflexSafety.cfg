SPECIFICATION Spec
CONSTANTS
  Policies = {p1}
  Surface <- MCSurface
  Texts = {blank, t1, t2}
  Blank = blank
  Descriptions = {d1, d2}
  None = None
  CancelFaults = TRUE
  LongPath = TRUE
  MaxRevision = 3
  MaxRuns = 2
  MaxHandlers = 2
  Modes = {"plan_only", "live"}
INVARIANTS TypeOK FlagsHaveHandlers
PROPERTIES  NewerEditsArePreserved UneditedIsUnedited
SYMMETRY Symmetry
CHECK_DEADLOCK FALSE
