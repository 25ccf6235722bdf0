CONSTANTS
  DEC = 9
  HEX = 12
  HexDigits = 2
  MaxDigits = 2
SPECIFICATION Spec
INVARIANT NumbersExact
CHECK_DEADLOCK FALSE
