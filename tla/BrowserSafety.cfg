SPECIFICATION Spec
CONSTANTS
  l1 = l1
  r1 = r1
  c1 = c1
  Lists = {l1}
  Rules = {r1}
  Advanced = {c1}
  Changes <- MCChanges
  None = None
  Roles = {"button", "link", "combobox"}
  MaxSteps = 3
  MaxShifts = 1
INVARIANTS TypeOK  
PROPERTIES ReadsChangeNothing  WorkEnds
CHECK_DEADLOCK FALSE
