CONSTANTS
  MaxRuns = 3
SPECIFICATION Spec
INVARIANTS
  ParentAfterChild
PROPERTIES
  WaiterReleased
  SetIsRemoved
CHECK_DEADLOCK FALSE
