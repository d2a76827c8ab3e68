SPECIFICATION Spec
CONSTANTS
  Names = {"plan", "preview"}
  Records <- MCRecords
  Reports <- MCReports
  Statuses = {"APPLIED", "FAILED"}
  None = None
  MaxContents = 5
INVARIANTS TypeOK  FinalizedVerifies
CHECK_DEADLOCK FALSE
