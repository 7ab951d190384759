CONSTANTS
  Lengths <- MCLengths
  Values <- MCValues
SPECIFICATION FairSpec
INVARIANTS
  RangesDisjoint
  ReturnedIsSorted
PROPERTY Printed
CHECK_DEADLOCK FALSE
