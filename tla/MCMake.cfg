SPECIFICATION FairSpec
CONSTANTS
    Target <- Names
    Makefiles <- MCMakefiles
    Signals = TRUE
    MaxTime = 3
INVARIANTS
    Fresh
    AtMostOnce
    NoRunAfterFailure
    ExitHonest
    InterruptedGone
PROPERTY
    Terminates
