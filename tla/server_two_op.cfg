\* Two optimizers, which may both be given the iteration's training.
CONSTANTS
  SpWorker = {s1}
  OpWorker = {o1, o2}
  NumGame = 4
  StartIteration = 1
  EndIteration = 2
  StartModel = 0
  MaxInFlight = 1
  MaxQueue = 1
  MaxDrops = 1
SPECIFICATION OrdersSpec
SYMMETRY Symmetry
INVARIANTS
  LoopInv
  TrainsOnFinishedFiles
PROPERTIES ImplementsLoop
CHECK_DEADLOCK FALSE
