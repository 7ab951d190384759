CONSTANTS
  MaxLines = 3
  MaxBlocks = 2
  Window = 1
SPECIFICATION FairClientSpec
INVARIANTS
  TextsInOrder
PROPERTY ExitAloneEnds
CHECK_DEADLOCK FALSE
