SPECIFICATION FairSpec

CONSTANTS
  Gens = {g1, g2, g3}
  None = None
  MaxChanges = 3
  MaxOpens = 1

INVARIANT OneWorkerEach
INVARIANT UnseenChangesAreMarked
PROPERTY NamesAreFollowed
