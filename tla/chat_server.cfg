CONSTANTS
  ann = ann
  bob = bob
  eve = eve
  Conns <- MCConns
  NoConn = NoConn
  Listen = Listen
  Talkers <- MCTalkers
  Long <- MCTalkers
  MaxTexts = 1
  MaxFds = 3
  Slow <- MCSlow
  MaxAway = 2
  Capacity = 2
  Paced = FALSE
SPECIFICATION Spec
SYMMETRY Symmetry
INVARIANTS
  RosterMatchesSockets
PROPERTIES
  ImplementsRoom
  OnlyTheseBringDown
CHECK_DEADLOCK FALSE
