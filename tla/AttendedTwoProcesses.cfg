\* Two runs, each in a process of its own: a record is lost.
SPECIFICATION Spec
CONSTANTS
  r1 = r1  r2 = r2  a1 = a1  a2 = a2  c1 = c1
  v1 = v1  v2 = v2  p1 = p1  p2 = p2
  Absent = Absent  Unmanaged = Unmanaged  None = None
  Runs = {r1, r2}
  Processes = {p1, p2}
  Host <- TwoProcesses
  Keys = {a1, a2, c1}
  Surface <- SurfaceOf
  Values = {v1, v2}
  TaskPlans <- SomePlans
  InitialGoogle <- GoogleStates
  InitialRegistry = {a2, c1}
  ExternalEdits <- Edits
  TTL = 1
  MaxTime = 1
  RegistryFaults = FALSE
  AuditFaults = FALSE
  Watched = r1
PROPERTIES RegistryFollowsReadBack
CHECK_DEADLOCK FALSE
