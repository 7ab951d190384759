CONSTANTS
  ann = ann
  bob = bob
  eve = eve
  Conns <- MCConns
  NoConn = NoConn
  Callers <- MCCallers
  Listen = Listen
  MaxLines = 1
  MaxProcs = 4
  FdLimit = 2
  FdSize = 3
  Workers <- MCWorkers
SPECIFICATION Spec
INVARIANTS
  Attended
PROPERTIES
  ImplementsEcho
  Answered
  Admitted
  Released
CHECK_DEADLOCK FALSE
