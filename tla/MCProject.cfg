SPECIFICATION Spec
CONSTANT Projects <- MCProjects
INVARIANTS
  NamesUnique
  GoModMeansWhole
