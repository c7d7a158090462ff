SPECIFICATION Spec
CONSTANTS
    Main <- MCMain
    Header <- MCHeader
    Lines <- MCLines
    Meaning <- Reference
    Dflags <- MCDflags
    Uflags <- MCUflags
    NR_COND = 4
    NR_MACROARG = 4
    INPUTSIZ = 12
    FOPEN_MAX = 3
    MaxLines = 4
    MaxTokens = 4
    Features = {}
INVARIANTS
    OffCounts
    NoReentry
    Preprocessed
