SPECIFICATION Spec
CONSTANTS
  MaxLen = 3
  MaxRawMatches = 6
  Streams <- MCStreams
  Databases <- MCDatabases
  Opcodes <- MCOpcodes
  KnownRegs <- MCKnownRegs
INVARIANTS
  NoOverlap
  DroppedForABetterOne
  ScanFindsEveryMatch
  MatchesAreTrue
PROPERTIES
  Termination
  SelectsMatches
