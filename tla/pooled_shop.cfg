CONSTANTS
  w1 = w1
  w2 = w2
  w3 = w3
  p1 = p1
  p2 = p2
  c1 = c1
  c2 = c2
  NoTask = NoTask
  Workers <- MCWorkers
  Producers <- MCProducers
  Consumers <- MCConsumers
  SubmissionOrder <- MCSubmissionOrder
  BuffSize = 2
  Products = 4
SPECIFICATION FairSpec
INVARIANTS
  ShopTypeOK
  SoldInOrder
  NoLostWakeup
  QuitWhenSoldOut
PROPERTY EverythingSold
CHECK_DEADLOCK FALSE
