SPECIFICATION Spec
CONSTANTS
  i1 = i1  i2 = i2  i3 = i3  e1 = e1  e2 = e2  n1 = n1
  None = None
  Ids = {i1, i2, i3}
  Short <- ShortOf
  Entries = {e1, e2}
  Notices = {n1}
  CIds = {c1}
  CValues = {w1, w2}
  WorkflowPlans <- PlannerPlans
  AttendedPlans <- ReflexPlans
  MaxRuns = 3
  MaxEdits = 1

PROPERTIES RecoveryAddsOneRecord
CHECK_DEADLOCK FALSE
