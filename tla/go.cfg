CONSTANTS
  BoardSize = 3
  MaxArea = 8
  TableSize = 12
  Home <- MCHome
  Configs <- MCConfigs
SPECIFICATION Spec
INVARIANTS
  Consistent
  TableHoldsHistory
  LegalIsExact
  BensonLifeIsLife
PROPERTIES
  ImplementsRules
