SPECIFICATION FairSpec

CONSTANTS
  Files = {f1, f2}
  Tabbed = {f1}
  MaxTexts = 4
  MaxMoves = 2

INVARIANT NothingIsLost
PROPERTY OneFolderInTheEnd
PROPERTY OtherFolderKept
 
PROPERTY MovesEnd

CHECK_DEADLOCK FALSE
