CONSTANTS
  SlotSize = 2
  Align = 1
  BlockSize = 6
  Bases <- MCBases
  Content <- MCContent
SPECIFICATION Spec
INVARIANTS
  SlotsFit
  EverySlotInOneList
  EveryBlockInChain
PROPERTY ImplementsStack
