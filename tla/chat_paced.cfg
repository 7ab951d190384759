CONSTANTS
  ann = ann
  bob = bob
  eve = eve
  Conns <- MCConns
  NoConn = NoConn
  Listen = Listen
  Talkers <- MCTalkers
  Long = {}
  MaxTexts = 2
  MaxFds = 3
  Slow = {}
  MaxAway = 2
  Capacity = 2
  Paced = TRUE
SPECIFICATION FairSpec
PROPERTIES
  TextsAreHeard
  GoneArePutOut
CHECK_DEADLOCK FALSE
