SPECIFICATION Spec
CONSTANTS
    MaxRecorded = 2
    BatchFrameCount = 2
    Fps = 2
    NumCpus = 1
    EventInterval = 1
    MaxFrames = 4
INVARIANTS FramesCounted
CHECK_DEADLOCK FALSE
