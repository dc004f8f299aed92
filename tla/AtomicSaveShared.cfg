SPECIFICATION FairSpec

CONSTANTS
  Saver = {s1, s2}
  Text = {t1, t2}
  NoFile = NoFile
  Partial = Partial
  Retries = 2
  Others = {"write", "delete", "create"}
  MaxSaves = 1

PROPERTY ImplementsAtomicFile
PROPERTY SaveReturns
CHECK_DEADLOCK FALSE
