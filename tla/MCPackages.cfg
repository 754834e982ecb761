SPECIFICATION Spec
CONSTANTS
  MaxCalls = 2
  Lowercase <- MCLowercase
  ClosureNames <- MCClosureNames
  UserPaths <- MCUserPaths
  RuntimePaths <- MCRuntimePaths
  InternalPaths <- MCInternalPaths
  StdlibPaths <- MCStdlibPaths
  FunctionLists <- MCFunctionLists
  CallLists <- MCCallLists
INVARIANTS
  PackagesPartitionUsers
  MovesAreUnanimous
  ExactNamesStay
  StructsHoldMethods
