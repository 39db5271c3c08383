\* One optimizer, one self-play machine, a connection may break.
CONSTANTS
  SpWorker = {s1}
  OpWorker = {o1}
  NumGame = 4
  StartIteration = 1
  EndIteration = 3
  StartModel = 0
  MaxInFlight = 2
  MaxQueue = 1
  MaxDrops = 1
SPECIFICATION FairOrdersSpec
INVARIANTS
  TypeOK
  OneModelPerFile
  OnlyLateInfoDoubles
PROPERTIES
  ModelNeverDecreases
  TrainingCompletes
CHECK_DEADLOCK FALSE
