SPECIFICATION Spec
CONSTANTS
  MaxLen = 4
  Texts <- MCTexts
  SymbolTables <- MCSymbolTables
INVARIANTS
  SweepLosesNothing
  StreamInOrder
  StreamIsUserCode
