SPECIFICATION HeapSpec
CONSTANTS
  PhysPages = 10
  LowPages = 1
  BITS_PER_PAGE = 5
  BootInfos <- MCBootInfos
  MaxCount = 3
  PAGE_SIZE = 12
  HEADER = 2
  ALIGN = 2
  MIN_PAYLOAD = 2
  Sizes = {1, 3, 11}
  MaxLive = 3
  HeapBoots <- MCHeapBoots
INVARIANTS
  NoPageTwice
  BitmapSound
  ScanIsFirstFit
  BlocksTileChunks
  LiveBlocks
PROPERTY
  ImplementsPageAllocator
\* A kernel without room for the bitmap panics.
CHECK_DEADLOCK FALSE
