SPECIFICATION FairSpec
CONSTANTS
  Runs = {r1}
  None = None
  States = {s1, s2}
  TTL = 1
  MaxTime = 2
  MaxMint = 3
  JournalFaults = TRUE
INVARIANTS WritesThePreview
PROPERTIES RunsSettle
