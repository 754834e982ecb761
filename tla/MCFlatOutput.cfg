SPECIFICATION Spec
CONSTANT Layouts <- MCLayouts
INVARIANTS
  LinesInOrder
  ListingIsWhole
