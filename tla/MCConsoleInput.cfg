CONSTANTS
  RING_SIZE = 3
  LINE_MAX = 2
  FIFO_SIZE = 1
  Bytes = {"a", "CR", "DEL"}
  Scancodes = {"shift", "unshift", "release", "backspace", "a", "enter", "tab", "dead"}
  None = None
SPECIFICATION FairSpec
INVARIANT TypeOK
PROPERTIES
  ImplementsConsole
  InputIsHandled
