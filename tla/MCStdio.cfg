SPECIFICATION Spec
CONSTANTS
    FOPEN_MAX = 4
    BUFSIZ = 2
    Files <- MCFiles
    Texts <- MCTexts
    StdFile <- MCStdFile
    Calls <- MCCalls
    Used = {0, 1, 3}
    MaxLen = 2
    MaxFaults = 1
    Deviations = {}
VIEW MCView
INVARIANTS
    NothingLost
    InBounds
PROPERTY
    Unbuffered
