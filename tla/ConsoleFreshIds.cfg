SPECIFICATION Spec
CONSTANTS
  Runs = {r1}
  None = None
  States = {s1, s2}
  TTL = 1
  MaxTime = 1
  MaxMint = 2
  JournalFaults = FALSE
INVARIANTS UndriftedApprovalIsHonoured
