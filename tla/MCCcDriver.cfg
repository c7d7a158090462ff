SPECIFICATION FairSpec
CONSTANTS
    Jobs <- MCJobs
    Cap = 1
    MaxOut = 2
    Signals = TRUE
    Exhaust = TRUE
INVARIANTS
    StatusHonest
    TempsGone
    LinkComplete
    Tidy
PROPERTY
    EndsUnlessOrphaned
