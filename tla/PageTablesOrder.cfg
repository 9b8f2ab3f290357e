SPECIFICATION Spec
CONSTANTS
  Entries = 3
  Root = 0
  Owners = {o1, o2}
  MaxCalls = 5
  MaxCount = 2
  Shifted = 0
  InitFree <- SevenPages
  Virts <- AllIndices
  FlagSets <- MCFlagSets
  Leftovers <- Clear
  Data = {}
INVARIANTS MappedRight
CHECK_DEADLOCK FALSE
