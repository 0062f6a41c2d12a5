CONSTANTS
    PageSize = 7
    NumPages = 4
    kMaxPageCount = 2
    Threads = {t1, t2}
    Allocating = {t1}
    BlockSizes = {3}
    LargeSizes = {8}
    BatchNum <- MCBatchNum
    MaxLive = 2
SPECIFICATION Spec

INVARIANT MemoryInOnePlace
PROPERTIES ImplementsAllocator
CHECK_DEADLOCK FALSE
