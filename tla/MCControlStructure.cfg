SPECIFICATION Spec
CONSTANTS
  N = 5
  Graphs <- CodeGraphs
  Endings <- OneEnding
INVARIANTS
  SemiDominatorsRight
  DomTreeClimbs
  LoopHeadsOnCycles
PROPERTIES
  Termination
