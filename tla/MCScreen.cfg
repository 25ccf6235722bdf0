CONSTANTS
  TX_SPIN_LIMIT = 1
  VGA_WIDTH = 2
  VGA_HEIGHT = 3
  LINE_MAX = 7
  Glyphs = {"a", "b"}
  Prompt <- MCPrompt
  Outputs <- MCOutputs
SPECIFICATION Spec
INVARIANTS
  TypeOK
  NothingAhead
  EchoShown
  EchoOnHost
PROPERTIES
  TextMovesTogether
  PrintReturns
