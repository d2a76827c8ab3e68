SPECIFICATION Spec
CONSTANTS
  Runs = {r1, r2}
  None = None
  States = {s1, s2}
  TTL = 1
  MaxTime = 2
  MaxMint = 2
  JournalFaults = FALSE
SYMMETRY Symmetry
INVARIANTS ApprovalIsCurrent BrowserIsExclusive 
