SPECIFICATION DispatchSpec
CONSTANT MaxCount = 4
INVARIANTS
  CellsMatchCursor
  LifetimesBalance
  AllocatorEndsWhatItMade
PROPERTIES
  ImplementsAtomicBatch
  CallsComeBack
