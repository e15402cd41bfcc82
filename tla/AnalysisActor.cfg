SPECIFICATION FairSpec
CONSTANTS
    MaxRecorded = 2
    BatchFrameCount = 2
    Fps = 2
    NumCpus = 1
    EventInterval = 1
    MaxFrames = 4
INVARIANTS TypeOK SnapshotBetweenFrames BatchesPartition
PROPERTIES EventsCounted DeathReleasesTasks
CHECK_DEADLOCK FALSE
