CONSTANTS
  MaxLines = 1
  MaxBlocks = 1
  Window = 1
SPECIFICATION FairClientSpec
PROPERTY ExitEnds
CHECK_DEADLOCK FALSE
