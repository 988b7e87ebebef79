SPECIFICATION MergeSpec
CHECK_DEADLOCK FALSE
SYMMETRY Symmetry
CONSTANTS
  Undefined = Undefined
  Clash = Clash
  Scalars = {x, y}
  Keys = {k1, k2}
  Depth = 2
INVARIANTS LeavesFollowEdits ClashesAreReal
