SPECIFICATION Spec

CONSTANTS
  b1 = b1
  b2 = b2
  n1 = n1
  n2 = n2
  Books = {b1, b2}
  Notes = {n1, n2}
  Tabbed = {n1}
  BookOf <- MCBookOf
  MaxTexts = 2
  MaxReplaces = 2
  MaxModals = 1
  Starts <- MCStarts

INVARIANT TypedIsShown
INVARIANT SavedOnlyIfAgreed
INVARIANT NoteIsNeverCutOff
INVARIANT ReplaceGoesOn

PROPERTY ClosedNotebookIsLeft

CHECK_DEADLOCK FALSE
