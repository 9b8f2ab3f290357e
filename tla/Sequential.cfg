SPECIFICATION SequentialSpec
CONSTANTS
  n1 = n1
  n2 = n2
  n3 = n3
  n4 = n4
  Nodes = {n1, n2, n3, n4}
  Lists = {1, 2}
  Null = Null
  RemoveSole = FALSE
  PopBackEmpty = FALSE
  p1 = p1
  p2 = p2
  p3 = p3
  Pages <- MCPages
  InitFree <- MCInitFree
  Owners = {"a", "b"}
  MaxCount = 4
  Regions = {0, 1, 2, 3}
  Root = 0
  NoRegion = NoRegion
  RootSize = 3
  VaddrPages = 16
  Sizes = {0, 1, 2}
  Aligns = {1, 2}
  Caps = {"r"}
  Cells = 6
  CellBits = 3
  CellValues = {0, 1, 7}
  WordCells = 2
  BufferSize = 3
  LongBits = 6
  IntBits = 4
  ShortBits = 2
  MaxOutput = 5
  Formats <- MCFormats
  Directives <- MCDirectives
  Images <- MCImages
  CodeAddresses = {0, 1, 2, 4, 5, 9}
VIEW Lasting
INVARIANTS Represents NoFault IterationVisitsAll Conserved VmrTypeOK ChildrenOrdered ConfinedAtZero ForestLinked FirstFit FindsNearest StringsAgree StreamsKept NumbersReadBack SymbolsNearest
PROPERTIES ImplementsLists ImplementsPmm
CHECK_DEADLOCK FALSE
