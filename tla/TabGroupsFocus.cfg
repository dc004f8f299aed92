SPECIFICATION WindowSpec

CONSTANTS
  d1 = d1
  d2 = d2
  d3 = d3
  p1 = p1
  p2 = p2
  Nil = Nil
  Docs = {d1, d2, d3}
  Paths = {p1, p2}
  Images = {p2}
  Edges = {"up"}
  Layouts <- MCLayouts
  LeavesOf <- MCLeavesOf
  OneGroup <- MCOneGroup
  SplitAt <- MCSplitAt
  WithoutGroup <- MCWithoutGroup
  Rooms <- MCRooms
  MaxViews = 3

SYMMETRY Symmetry

PROPERTY FocusFollowsTheTab

CHECK_DEADLOCK FALSE
