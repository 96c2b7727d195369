CONSTANTS
    MayUseMultiline = TRUE
SPECIFICATION ScannerSpec
CHECK_DEADLOCK FALSE
INVARIANTS ImportsFound
