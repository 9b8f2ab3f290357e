SPECIFICATION VmrSpec
CONSTANTS
  Regions = {0, 1, 2, 3}
  Root = 0
  NoRegion = NoRegion
  RootSize = 3
  VaddrPages = 16
  Sizes = {0, 1, 2}
  Aligns = {1, 2}
  Caps = {"r"}
INVARIANT Confined
CHECK_DEADLOCK FALSE
