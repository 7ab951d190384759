CONSTANTS
  WindowNum = 2
  EndTime = 3
  SimulateNum = 2
  MaxCustomers = 4
  Gaps <- MCGaps
  Durations <- MCDurations
SPECIFICATION Spec
INVARIANTS
  NobodyWaitsInVain
  EventsInOrder
  OneDeparturePerService
  FirstComeFirstServed
CHECK_DEADLOCK FALSE
