SPECIFICATION Spec

CONSTANTS
  Saver = {s1, s2}
  Text = {t1, t2}
  NoFile = NoFile
  Partial = Partial
  Retries = 2
  Others = {}
  MaxSaves = 1

INVARIANT NeverLosesBoth
CHECK_DEADLOCK FALSE
