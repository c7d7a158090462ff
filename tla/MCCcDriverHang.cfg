SPECIFICATION FairSpec
CONSTANTS
    Jobs <- PipeJobs
    Cap = 1
    MaxOut = 2
    Signals = FALSE
    Exhaust = FALSE
PROPERTY
    Terminates
