SPECIFICATION Spec

CONSTANTS
  Process = {p1, p2}
  None = None
  MaxTabs = 2
  MaxVersion = 2
  Settings = {TRUE, FALSE}
  Together = FALSE

INVARIANT RecordedTextIsInFile
PROPERTY SessionKeepsLatestText
SYMMETRY ProcessSymmetry
CHECK_DEADLOCK FALSE
