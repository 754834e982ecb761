SPECIFICATION Spec
CONSTANTS
  N = 4
  SimpleLimit = 1
  Functions <- MCFunctions
  Layouts <- MCLayouts
INVARIANTS
  TypeOK
  BlocksAreTheFlow
  EveryBlockOnce
  LabelsFitGotos
  MatchesOnce
