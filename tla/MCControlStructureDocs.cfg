SPECIFICATION Spec
CONSTANTS
  N = 1
  Graphs <- SixBlocks
  Endings <- OneEnding
INVARIANTS
  DomTreeSound
