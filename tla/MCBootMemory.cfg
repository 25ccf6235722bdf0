CONSTANTS
  WORD = 64
  FRAME_SIZE = 8
  KB = 2
  WORD_BITS = 4
  WORD_BYTES = 4
  MAX_REGIONS = 2
  KernelEnd = 9
  Bases = {0, 24, 28, 40, 88}
  Lengths = {8, 12, 24, 44, 76}
  Types = {1, 2}
  MaxEntries = 3
SPECIFICATION Spec
CHECK_DEADLOCK FALSE
INVARIANTS
  TypeOK
  UsedFramesAgree
  KernelReserved
  AvailableIsExact
