CONSTANTS
  NumGPU = 2
  NumCPU = 2
  BatchSize = 2
  NetRotation = 2
  SimCount = 2
  MaxMoves = 2
SPECIFICATION FairSpec
INVARIANTS
  TypeOK
  EvaluatesOwnLeaf
  Lockstep
PROPERTIES
  ImplementsSearch
  EveryGameFinishes
