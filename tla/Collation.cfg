\* A collator through a crash and a restart, one lost task, one
\* reorganisation of the relay chain; full nodes and subcommands.
SPECIFICATION FairSpec
CONSTANTS
    Configs <- MCConfigs
    MaxEnds = 1
    MaxRestarts = 1
    SegmentCapacity = 2
    MaxMessages = 2
    MaxCalls = 1
    MaxCallsPerBlock = 1
    FinalityLag = 1
    MaxReorgs = 1
INVARIANTS TypeOK NoPanic AuthorsWhole
PROPERTIES LinearSpec FailureEndsNode MessagesTaken
CHECK_DEADLOCK FALSE
