CONSTANTS
    IntegerTokens <- MCIntegerTokens
    StringTokens <- MCStringTokens
    Registers <- MCRegisters
    Opcodes <- MCOpcodes
    GoKeywords <- MCGoKeywords
    Sources <- MCSources
SPECIFICATION Spec
INVARIANT TypeOK
INVARIANT ReadsWhatIsWritten
INVARIANT TemplatesKeepTheText
INVARIANT CompiledAsWritten
INVARIANT OnlyGlobalsRemain
PROPERTY CompileEnds
CHECK_DEADLOCK FALSE
