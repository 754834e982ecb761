CONSTANTS
    IntegerTokens <- MCIntegerTokens
    StringTokens <- MCStringTokens
    Registers <- MCRegisters
    Opcodes <- MCOpcodes
    GoKeywords <- MCGoKeywords
    Sources <- MCDocumented
SPECIFICATION Spec
PROPERTY CompileEnds
CHECK_DEADLOCK FALSE
