SPECIFICATION MCSpec
CONSTANTS
    statement <- Statement
    Chosen <- Choose
    Right <- Correct
    TUINT_MAX = 1048575
    NARGS = 5
    NR_INPUTS = 3
    MAXERR = 2
    maxaddr = 9
    Deviations = {}
INVARIANTS
    Assembled
    OutputHonest
PROPERTIES
    PassesAgree
