SPECIFICATION Spec

CONSTANTS
  Chunk = {u, o}
  Texts <- MCTexts
  None = None
  ReloadLimit = 1
  AutoReloads = {TRUE, FALSE}
  Gaps = {}
  MaxClock = 2

INVARIANT KnownStampMeansKnownText
INVARIANT OutsideChangeIsNoticed
PROPERTY AutosaveOverwritesOnlyKnownText
PROPERTY UnsavedTextSurvivesChecks
