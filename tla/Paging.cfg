SPECIFICATION PagingSpec
CONSTANTS
  Entries = 6
  PageSize = 8
  SizeofPage = 1
  AddrFrames = 32
  SpaceFrames = 64
  LowPages = 6
  KernelIdx = 1
  MaxTries = 2
  LoaderImage <- MCLoaderImage
  Machines <- MCMachines
  Root = 0
  Owners = {o1, o2}
  MaxCalls = 6
  MaxCount = 2
  Shifted = 20
  InitFree <- FivePages
  Virts <- MCVirts
  FlagSets <- Writable
  Leftovers <- MCLeftovers
  Data <- MCData
INVARIANTS PagesAccounted FramesPartitioned ImagesIntact BootTablesPrivate KernelLoaded
PROPERTY EveryBootEnds
CHECK_DEADLOCK FALSE
