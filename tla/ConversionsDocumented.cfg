CONSTANTS
  WordBits = 4
  IntBits = 4
  Widths = {2, 3, 4}
SPECIFICATION ConversionsSpec
CHECK_DEADLOCK FALSE
INVARIANTS
  ConversionsAsDocumented
