SPECIFICATION Spec

CONSTANTS
  Notes = {a, b}
  Stamps = {s1, s2, s3, s4}
  None = None
  Gaps = FALSE

INVARIANT StampMeansLibrary
 
INVARIANT PendingHasTimer
PROPERTY WriteKeepsBoth
PROPERTY InstallKeepsCurrent
SYMMETRY NoteSymmetry
CHECK_DEADLOCK FALSE
