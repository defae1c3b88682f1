SPECIFICATION MCSpec
CONSTANTS
  p1 = p1
  p2 = p2
  BLOCK_SIZE = 4096
  MAX_SLAB_ORDER = 6
  MIN_OBJS_PER_SLAB = 8
  HEADER = 32
  WORD = 8
  LINK = 2
  NOFREE = 65535
  LARGE = 2048
  Sizes <- MCSizes
  PGSIZE = 4096
  FREE_AREA = 128
  BLOCK_META = 16
  CACHE_POOL = 16384
  MIN_KERNEL_HEAP_BYTES = 33554432
  KHEAPWIN_SIZE = 4194304
  Requests <- MCRequests
  NumBlocks = 5
  MaxOrder = 2
  Starts = {5, 6, 7, 8}
  MaxRequest = 5
  NULL = NULL
  FtProc = {p1, p2}
  FtFirst = p1
  NOFILE = 2
  NFILE = 3
  FileObjects = 3
  pipe_cache = TRUE
  NoFile = NoFile
  FsProc = {p1, p2}
  NINODES = 3
  FsBlock = {1, 2}
  RootBlock = 1
  FsName = {"a", "b", ".."}
  FsCalls <- MCFsCalls
  NoProc = NoProc
  MaxNlink = 2
  VmProc = {p1, p2}
  VmFirst = p1
  PageBytes = 2
  PTES = 2
  VmAddrs = {5, 11}
  USERSTACK = 1
  VmFrames = 15
  SbrkSizes <- MCSbrkSizes
  Programs <- MCPrograms
INVARIANTS
  KernelTypeOK
  LayoutFits
  OrderMinimal
  KmallocFits
  RegionsInOrder
  KernelHeapKept
  FreeListsExact
  Partition
  Coalesced
  FilesExact
  InodesExact
  PagesExact
PROPERTIES
  PageAllocatorSpec
  BuddyLockReleased
  FailedCallsUndone
  LinksSettled
