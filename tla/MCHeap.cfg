CONSTANTS
  Align = 2
  WordSize = 1
  HeaderSize = 4
  MIN_SPLIT = 4
  PAGE_SIZE = 16
  EXTEND_MIN = 16
  HEAP_START = 16
  HEAP_INITIAL = 16
  HEAP_MAX = 48
  ADDRESS_SPACE = 256
  Requests = {7, 14}
  TASK_STACK_SIZE = 14
  FrameSize = 5
SPECIFICATION FairSpec
INVARIANTS
  TypeOK
  Tiling
  KfreeSafe
  FullyCoalesced
  ExtendSuffices
PROPERTIES
  FailsOnlyWhenFull
  OperationsReturn
  ImplementsAllocator
