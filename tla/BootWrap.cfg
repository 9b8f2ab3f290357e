SPECIFICATION BootSpec
CONSTANTS
  Entries = 6
  PageSize = 8
  SizeofPage = 1
  AddrFrames = 32
  SpaceFrames = 64
  LowPages = 6
  KernelIdx = 1
  MaxTries = 2
  LoaderImage <- MCLoaderImage
  Machines <- WrapMachines
INVARIANT PfndbInMemory
