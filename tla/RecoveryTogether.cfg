SPECIFICATION Spec

CONSTANTS
  Process = {p1, p2, p3}
  None = None
  MaxTabs = 1
  MaxVersion = 1
  Settings = {TRUE, FALSE}
  Together = TRUE

INVARIANT LiveSnapshotsArePrivate
 
SYMMETRY ProcessSymmetry
CHECK_DEADLOCK FALSE
