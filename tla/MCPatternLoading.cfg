SPECIFICATION FairSpec
CONSTANTS
  MaxTokens = 2
  MaxCalls = 2
  MaxSource = 24
  Upper <- MCUpper
  Walks <- MCWalks
  Names <- MCNames
  Libraries <- MCLibraries
  FileSystems <- MCFileSystems
INVARIANTS
  ConditionalsNest
  IndexAgrees
PROPERTIES
  IsPatternStore
  AcyclicLoadsEnd
