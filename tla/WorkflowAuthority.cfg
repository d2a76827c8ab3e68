SPECIFICATION FairSpec
CONSTANTS
  k1 = k1  k2 = k2  v1 = v1  v2 = v2
  Absent = Absent
  Root = root
  None = None
  OUs = {root, child}
  Keys <- MCKeys
  Values <- MCValues
  TaskPlans <- MCTaskPlans
  InitialConfigs <- MCInitialConfigs
  InitialRegistries <- MCInitialRegistries
  ExternalEdits <- MCExternalEdits
  LateSaves = TRUE
INVARIANTS WriteAuthorized EvidenceGapDisclosed  AppliedIsObserved
PROPERTIES AttemptStartsFromApprovedState EvidenceBeforeSave OwnershipFollowsReadBack ImplementsGate MutationConcludes
