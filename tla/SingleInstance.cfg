SPECIFICATION FairSpec
CONSTANTS
  f1 = f1
  f2 = f2
  c1 = c1
  FastPads = {f1, f2}
  Captures = {c1}
  None = None
  MaxSteps = 3
INVARIANT PrimaryMeetsNoServer
INVARIANT OpenedOnce
INVARIANT DrainOpensOwed
INVARIANT ForwardedIsOnItsWay
PROPERTY ForwardedIsOpened
PROPERTY LaunchSettles
CHECK_DEADLOCK FALSE
