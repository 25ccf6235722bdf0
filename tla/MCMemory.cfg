CONSTANTS
  NFrames = 11
  Reserved = 1
  IdentityEnd = 9
  TableSize = 3
  NPages = 21
  HeapStart = 9
  HeapInitial = 1
  HeapMax = 4
  Extensions = {1, 2, 13}
  MapTargets = {12, 15}
  None = None
SPECIFICATION Spec
INVARIANTS
  TypeOK
  NoFrameShared
  CountersAgree
  IdentityIntact
  TlbCoherent
PROPERTY
  MapsOnePage
